-------------------------- MODULE WatchLoopProofs --------------------------
(***************************************************************************)
(* What a watcher does about its target and about resets of its outputs,   *)
(* for every value of the constants and every number of disturbances.      *)
(*                                                                         *)
(* How often the target is written back rests on the two timers of a       *)
(* restoration: what is left of restore_at and what has passed since the   *)
(* last one make at least one RESTORE_INTERVAL together (Spaced).          *)
(*                                                                         *)
(* That resets are told and that the target is pursued rests on the        *)
(* reports that wait: while the handle of the connection has dropped none, *)
(* every reset that is still to be told and every change that took the     *)
(* target off the board is in one of them (Resets, Pursues).  Lemmas about *)
(* the board (BoardProofs) say that its operations put these reports into  *)
(* every open queue and take none out.                                     *)
(*                                                                         *)
(* That each change of a pin is told once and no other is rests on a story *)
(* (Story): the reports that wait continue, for each pin, from what the    *)
(* loop knows and has told (Parity) to the board as it is (Ghost, Rides),  *)
(* with each change in a report of its own while nothing was lost (Exact,  *)
(* Climbs).  The reference of the snapshot separates the reports that will *)
(* be shed from those that will be used (Reference), as long as their      *)
(* sequence numbers are in reach of each other (InReach); and what is      *)
(* known is true when nothing waits (Known).                               *)
(***************************************************************************)
EXTENDS WatchLoop, BoardProofs

LoopFields ==
  {"target", "config", "known", "met", "ever_connected", "connected",
   "last_request_id", "snapshot_seq", "awaiting_config", "failure",
   "failures", "since_restore", "scan_at", "restore_at", "settle_at",
   "counted", "untold", "blind"}

TaskFields == {"why", "found", "id", "report", "stale", "previous", "driven"}

\* A loop whose restorations are spaced.
Spaced(l) ==
  /\ DOMAIN l = LoopFields
  /\ l.since_restore \in 0 .. RESTORE_INTERVAL
  /\ \/ l.restore_at = Never
     \/ /\ l.restore_at \in Nat
        /\ l.restore_at + l.since_restore >= RESTORE_INTERVAL

\* The loop changes nothing about restorations, or gives one up.
KeepsTimers(l, m) ==
  /\ DOMAIN m = DOMAIN l
  /\ m.since_restore = l.since_restore
  /\ m.restore_at \in {l.restore_at, Never}

-----------------------------------------------------------------------------
(***************************************************************************)
(* The helpers of the loop                                                 *)
(***************************************************************************)

\* A loop keeps its timers' relation when a helper leaves them alone.
LEMMA KeepsSpaced ==
  ASSUME NEW l, Spaced(l), NEW m, KeepsTimers(l, m)
  PROVE  Spaced(m)
BY DEF Spaced, KeepsTimers

\* One helper after another.
LEMMA KeepsTimersTransitive ==
  ASSUME NEW l, NEW m, NEW n, KeepsTimers(l, m), KeepsTimers(m, n)
  PROVE  KeepsTimers(l, n)
BY DEF KeepsTimers

\* The helpers that neither start nor shorten a wait.
LEMMA HelpersKeepTimers ==
  ASSUME NEW l, DOMAIN l = LoopFields
  PROVE  /\ KeepsTimers(l, l)
         /\ \A gpios : KeepsTimers(l, TellReset(l, gpios))
         /\ \A cause : KeepsTimers(l, FailedAttempt(l, cause))
         /\ KeepsTimers(l, ResetFailures(l))
         /\ \A config : KeepsTimers(l, SetConfig(l, config))
         /\ KeepsTimers(l, DropConnection(l))
         /\ KeepsTimers(l, Lost(l))
         /\ \A report : KeepsTimers(l, Absorb(l, report))
<1>1. KeepsTimers(l, l)
  BY DEF KeepsTimers
<1>2. \A gpios : KeepsTimers(l, TellReset(l, gpios))
  BY DEF KeepsTimers, TellReset, LoopFields
<1>3. \A cause : KeepsTimers(l, FailedAttempt(l, cause))
  BY DEF KeepsTimers, FailedAttempt, LoopFields
<1>4. KeepsTimers(l, ResetFailures(l))
  BY DEF KeepsTimers, ResetFailures, LoopFields
<1>5. \A config : KeepsTimers(l, SetConfig(l, config))
  BY DEF KeepsTimers, SetConfig, LoopFields
<1>6. KeepsTimers(l, DropConnection(l))
  BY DEF KeepsTimers, DropConnection, LoopFields
<1>7. KeepsTimers(l, Lost(l))
  BY DEF KeepsTimers, DropConnection, Lost, LoopFields
<1>8. ASSUME NEW report
      PROVE  KeepsTimers(l, Absorb(l, report))
  <2>1. ASSUME NEW known, NEW counted, NEW k, NEW c,
               k = [l EXCEPT !.known = known, !.counted = counted],
               NEW r, r = AbsorbLevels(k, c)
        PROVE  KeepsTimers(l, r)
    BY <2>1 DEF KeepsTimers, AbsorbLevels, LoopFields
  <2> QED
    BY <2>1 DEF Absorb
<1> QED
  BY <1>1, <1>2, <1>3, <1>4, <1>5, <1>6, <1>7, <1>8

\* What a report makes of the loop.
LEMMA ReportsKeepTimers ==
  ASSUME NEW l, DOMAIN l = LoopFields, NEW report, NEW stale
  PROVE  /\ KeepsTimers(l, Noticed(l, report))
         /\ KeepsTimers(l, Used(l, report, stale))
<1>1. ASSUME NEW snapshot, NEW awaiting, NEW settle, NEW told
      PROVE  KeepsTimers(l, TellReset([l EXCEPT !.snapshot_seq = snapshot,
                                                !.awaiting_config = awaiting,
                                                !.settle_at = settle], told))
  BY DEF KeepsTimers, TellReset, LoopFields
<1>2. KeepsTimers(l, Noticed(l, report))
  BY <1>1 DEF Noticed
<1>3. KeepsTimers(l, Used(l, report, stale))
  BY HelpersKeepTimers DEF Used
<1> QED
  BY <1>2, <1>3

-----------------------------------------------------------------------------
(***************************************************************************)
(* The steps                                                               *)
(***************************************************************************)
LoopInv == Spaced(loop) /\ DOMAIN task = TaskFields

\* What every step has to do.
RestoresInTime ==
  task.why # "restore" /\ task'.why = "restore"
    => loop.since_restore = RESTORE_INTERVAL

StepOK == LoopInv' /\ RestoresInTime

\* The first state: a restoration may be made at once.
LEMMA InitLoop == Init => LoopInv
<1> SUFFICES ASSUME Init PROVE LoopInv
  OBVIOUS
<1>1. PICK s \in Scenarios : loop = NewLoop(s.target)
  BY DEF Init
<1>2. Spaced(loop)
  <2>1. DOMAIN loop = LoopFields
    BY <1>1 DEF NewLoop, LoopFields
  <2>2. loop.since_restore = RESTORE_INTERVAL /\ loop.restore_at = Never
    BY <1>1 DEF NewLoop
  <2> QED
    BY <2>1, <2>2, WatchAssumption DEF Spaced
<1> QED
  BY <1>2 DEF Init, LoopInv, NoTask, TaskFields

\* A step that keeps the timers, with the task over or unchanged.
LEMMA OtherStep ==
  ASSUME LoopInv, KeepsTimers(loop, loop'),
         \/ task' = task
         \/ DOMAIN task' = TaskFields /\ task'.why \in {task.why, "none"}
  PROVE  StepOK
BY KeepsSpaced DEF LoopInv, StepOK, RestoresInTime

\* The task of nothing.
LEMMA NoTaskFields ==
  /\ DOMAIN NoTask = TaskFields /\ NoTask.why = "none"
  /\ \A why : /\ DOMAIN [NoTask EXCEPT !.why = why] = TaskFields
              /\ [NoTask EXCEPT !.why = why].why = why
BY DEF NoTask, TaskFields

\* The end of what the loop was doing, from any spaced loop.
LEMMA FinishOK ==
  ASSUME LoopInv, NEW l, Spaced(l),
         \/ Finish(l)
         \/ FinishClosed(l)
  PROVE  StepOK
<1>1. CASE Finish(l)
  <2>1. KeepsTimers(l, loop')
    <3>1. DOMAIN l = LoopFields
      BY DEF Spaced
    <3>2. \A r, stale : KeepsTimers(l, Used(l, r, stale))
      BY <3>1, ReportsKeepTimers
    <3> QED
      BY <1>1, <3>1, <3>2, HelpersKeepTimers DEF Finish, Steps
  <2> QED
    BY <1>1, <2>1, KeepsSpaced, NoTaskFields
    DEF Finish, StepOK, LoopInv, RestoresInTime
<1>2. CASE FinishClosed(l)
  BY <1>2, NoTaskFields DEF FinishClosed, StepOK, LoopInv, RestoresInTime
<1> QED
  BY <1>1, <1>2

\* Giving up.
LEMMA StopOK ==
  ASSUME LoopInv, Stop
  PROVE  StepOK
<1>1. KeepsTimers(loop, loop')
  BY HelpersKeepTimers DEF Stop, Steps, LoopInv, Spaced
<1> QED
  BY <1>1, OtherStep, NoTaskFields DEF Stop

\* A failed attempt, a failed transfer and a rejected target.
LEMMA FailuresOK ==
  ASSUME LoopInv
  PROVE  /\ \A cause : Attempt(cause) => StepOK
         /\ Disconnect => StepOK
         /\ \A cause : TransferFailed(cause) => StepOK
         /\ Rejected => StepOK
<1>1. DOMAIN loop = LoopFields /\ Spaced(loop)
  BY DEF LoopInv, Spaced
<1>2. ASSUME NEW cause, Attempt(cause)
      PROVE  StepOK
  <2>1. Spaced(FailedAttempt(loop, cause))
    BY <1>1, HelpersKeepTimers, KeepsSpaced
  <2> QED
    BY <1>2, <2>1, FinishOK DEF Attempt
<1>3. ASSUME Disconnect
      PROVE  StepOK
  <2>1. Spaced(Lost(loop))
    BY <1>1, HelpersKeepTimers, KeepsSpaced
  <2> QED
    BY <1>3, <2>1, FinishOK DEF Disconnect
<1>4. ASSUME NEW cause, TransferFailed(cause)
      PROVE  StepOK
  <2>1. CASE task.why = "connect"
    BY <1>2, <1>4, <2>1 DEF TransferFailed
  <2>2. CASE task.why = "target"
    BY <1>1, <1>4, <2>2, FinishOK DEF TransferFailed
  <2>3. CASE task.why \notin {"connect", "target"}
    BY <1>3, <1>4, <2>3 DEF TransferFailed
  <2> QED
    BY <2>1, <2>2, <2>3
<1>5. ASSUME Rejected
      PROVE  StepOK
  <2>1. CASE task.why = "target"
    <3>1. Spaced([loop EXCEPT !.target = task.previous])
      BY <1>1 DEF Spaced, LoopFields
    <3> QED
      BY <1>5, <2>1, <3>1, FinishOK DEF Rejected
  <2>2. CASE task.why # "target"
    BY <1>5, <2>2, StopOK DEF Rejected
  <2> QED
    BY <2>1, <2>2
<1> QED
  BY <1>2, <1>3, <1>4, <1>5

\* Writing the target, for the caller it already has.
LEMMA SetTargetOverOK ==
  ASSUME LoopInv, NEW l, KeepsTimers(loop, l), NEW found,
         SetTargetOver(l, found)
  PROVE  StepOK
<1>1. CASE \A config \in loop.target : Suits(config, Available)
  <2>1. PICK id : /\ loop' = [l EXCEPT !.last_request_id = id]
                  /\ task' = [task EXCEPT !.found = found, !.id = id]
    BY <1>1 DEF SetTargetOver, Steps
  <2>2. KeepsTimers(loop, loop')
    BY <2>1 DEF KeepsTimers, LoopInv, Spaced, LoopFields
  <2>3. DOMAIN task' = TaskFields /\ task'.why = task.why
    BY <2>1 DEF LoopInv, TaskFields
  <2> QED
    BY <2>2, <2>3, OtherStep
<1>2. CASE ~\A config \in loop.target : Suits(config, Available)
  BY <1>2, FailuresOK DEF SetTargetOver
<1> QED
  BY <1>1, <1>2

\* Connected, with or without a write before.
LEMMA ConnectedOK ==
  ASSUME LoopInv, NEW config, NEW driven, NEW awaiting \in BOOLEAN, NEW drove,
         Connected(config, driven, awaiting, drove)
  PROVE  StepOK
<1> DEFINE r == ResetFailures(loop)
           untold == (r.untold \cup drove) \cap OutputsMask(config)
           c(settle) == [r EXCEPT !.connected = TRUE, !.ever_connected = TRUE,
                                  !.awaiting_config = awaiting,
                                  !.untold = untold, !.settle_at = settle]
<1>1. DOMAIN loop = LoopFields /\ KeepsTimers(loop, r)
  BY HelpersKeepTimers DEF LoopInv, Spaced
<1> HIDE DEF r, untold
<1>2. \A settle : KeepsTimers(loop, c(settle))
  BY <1>1 DEF KeepsTimers, LoopFields
<1>3. PICK settle, reset :
        loop' = TellReset(SetConfig(c(settle), config), reset)
  BY DEF Connected, Steps, r, untold
<1>4. KeepsTimers(loop, loop')
  <2>1. DOMAIN c(settle) = LoopFields /\ KeepsTimers(loop, c(settle))
    BY <1>1, <1>2 DEF KeepsTimers
  <2> HIDE DEF c
  <2>2. KeepsTimers(loop, SetConfig(c(settle), config))
    BY <2>1, HelpersKeepTimers, KeepsTimersTransitive
  <2>3. DOMAIN SetConfig(c(settle), config) = LoopFields
    BY <1>1, <2>2 DEF KeepsTimers
  <2> QED
    BY <1>3, <2>2, <2>3, HelpersKeepTimers, KeepsTimersTransitive
<1> QED
  BY <1>4, OtherStep, NoTaskFields DEF Connected

\* After a CONFIG_CHANGED: early restorations wait, the others start.
LEMMA ConfigChangedOK ==
  ASSUME LoopInv, NEW l, KeepsTimers(loop, l), ConfigChanged(l)
  PROVE  StepOK
<1>1. Spaced(l) /\ DOMAIN l = LoopFields /\ l.since_restore = loop.since_restore
  BY KeepsSpaced DEF LoopInv, KeepsTimers, Spaced
<1>2. RESTORE_INTERVAL \in Nat /\ l.since_restore \in 0 .. RESTORE_INTERVAL
  BY <1>1, WatchAssumption DEF Spaced
<1>3. CASE loop.target \in {None, Some(l.config)}
  BY <1>1, <1>3, FinishOK DEF ConfigChanged
<1>4. CASE /\ loop.target \notin {None, Some(l.config)}
           /\ l.since_restore < RESTORE_INTERVAL
  <2> DEFINE m == [l EXCEPT !.restore_at = RESTORE_INTERVAL - l.since_restore]
  <2>1. Spaced(m)
    BY <1>1, <1>2 DEF Spaced, LoopFields
  <2>2. Finish(m)
    BY <1>4 DEF ConfigChanged
  <2> QED
    BY <2>1, <2>2, FinishOK
<1>5. CASE /\ loop.target \notin {None, Some(l.config)}
           /\ ~(l.since_restore < RESTORE_INTERVAL)
  <2>1. /\ loop' = StartRestore(l)
        /\ task' = [task EXCEPT !.why = "restore"]
    BY <1>5 DEF ConfigChanged, Steps
  <2>2. Spaced(StartRestore(l))
    BY <1>1, <1>2 DEF Spaced, StartRestore, LoopFields
  <2>3. DOMAIN task' = TaskFields
    BY <2>1 DEF LoopInv
  <2>4. loop.since_restore = RESTORE_INTERVAL
    BY <1>1, <1>2, <1>5
  <2> QED
    BY <2>1, <2>2, <2>3, <2>4 DEF StepOK, LoopInv, RestoresInTime
<1> QED
  BY <1>3, <1>4, <1>5

\* Reading the configuration, writing the target and reading it back.
LEMMA TransfersOK ==
  ASSUME LoopInv, ReadConfig \/ SendTarget \/ VerifyTarget
  PROVE  StepOK
<1>1. DOMAIN loop = LoopFields /\ Spaced(loop) /\ RESTORE_INTERVAL \in Nat
  BY WatchAssumption DEF LoopInv, Spaced
<1>2. CASE ReadConfig
  <2> DEFINE found == board.config
             l == SetConfig(loop, found)
             same == loop.target \in {None, Some(found)}
  <2>1. KeepsTimers(loop, l) /\ KeepsTimers(loop, loop) /\ Spaced(l)
    BY <1>1, HelpersKeepTimers, KeepsSpaced
  <2> HIDE DEF l, same
  <2>2. \/ TransferFailed("io")
        \/ ConfigChanged(l)
        \/ Connected(found, {}, FALSE, {})
        \/ SetTargetOver(loop, found)
        \/ Finish(l)
        \/ SetTargetOver(l, found)
    BY <1>2 DEF ReadConfig, l, same
  <2> QED
    BY <2>1, <2>2, FailuresOK, ConfigChangedOK, ConnectedOK, SetTargetOverOK,
       FinishOK
<1>3. CASE SendTarget
  <2>1. \/ TransferFailed("io")
        \/ loop' = loop /\ \E x : task' = [task EXCEPT !.driven = x]
    BY <1>3 DEF SendTarget
  <2>2. \A x : /\ DOMAIN [task EXCEPT !.driven = x] = TaskFields
               /\ [task EXCEPT !.driven = x].why = task.why
    BY DEF LoopInv, TaskFields
  <2>3. KeepsTimers(loop, loop)
    BY <1>1, HelpersKeepTimers
  <2> QED
    BY <2>1, <2>2, <2>3, FailuresOK, OtherStep
<1>4. CASE VerifyTarget
  <2> DEFINE later == [loop EXCEPT !.restore_at = RESTORE_INTERVAL]
             drove == [loop EXCEPT !.untold = loop.untold \cup task.driven]
             w == Wrote(drove, task.found, TheTarget)
             driven == DrivenOutputs(task.found, TheTarget)
  <2>1. Spaced(later)
    BY <1>1 DEF Spaced, LoopFields
  <2>2. Spaced(w)
    <3> DEFINE c == SetConfig(drove, TheTarget)
               e == [c EXCEPT !.awaiting_config = TRUE,
                              !.settle_at = SETTLE_TIMEOUT]
    <3>0. KeepsTimers(loop, drove) /\ DOMAIN drove = LoopFields
      BY <1>1 DEF KeepsTimers, LoopFields
    <3> HIDE DEF drove
    <3>1. KeepsTimers(loop, c) /\ DOMAIN c = LoopFields
      BY <3>0, HelpersKeepTimers, KeepsTimersTransitive DEF KeepsTimers
    <3> HIDE DEF c
    <3>2. KeepsTimers(loop, e) /\ DOMAIN e = LoopFields
      BY <3>1 DEF KeepsTimers, LoopFields
    <3>3. w = TellReset(e, driven)
      BY DEF Wrote, c
    <3> HIDE DEF e
    <3>4. KeepsTimers(loop, w)
      BY <3>2, <3>3, HelpersKeepTimers, KeepsTimersTransitive
    <3> QED
      BY <1>1, <3>4, KeepsSpaced
  <2>3. \/ \E cause : TransferFailed(cause)
        \/ Connected(TheTarget, driven, TRUE, task.driven)
        \/ Finish(w) \/ Rejected \/ Finish(later)
        \/ Attempt("conflict")
    <3> DEFINE outcome == SetOutcome(PinConfigReport(board), task.id, TheTarget)
    <3>1. outcome \in {"ok", "rejected", "conflict", "mismatch"}
      BY DEF SetOutcome
    <3>2. TransferFailed("io") \/
          CASE outcome = "ok" /\ task.why = "connect" ->
                 Connected(TheTarget, driven, TRUE, task.driven) /\ UNCHANGED board
            [] outcome = "ok" /\ task.why # "connect" ->
                 Finish(w) /\ UNCHANGED board
            [] outcome = "rejected" -> Rejected
            [] outcome = "conflict" /\ task.why # "connect" ->
                 Finish(later) /\ UNCHANGED board
            [] outcome = "conflict" /\ task.why = "connect" ->
                 Attempt("conflict")
            [] outcome = "mismatch" -> TransferFailed("mismatch")
      BY <1>4, Zenon DEF VerifyTarget
    <3> HIDE DEF outcome, w, later, driven
    <3> QED
      BY <3>1, <3>2
  <2> QED
    BY <2>1, <2>2, <2>3, FailuresOK, ConnectedOK, FinishOK
<1> QED
  BY <1>2, <1>3, <1>4

\* Connecting, up to the device information.
LEMMA ConnectingOK ==
  ASSUME LoopInv, TryConnect \/ ConnectInfo
  PROVE  StepOK
<1>1. DOMAIN loop = LoopFields /\ Spaced(loop) /\ KeepsTimers(loop, loop)
  BY HelpersKeepTimers DEF LoopInv, Spaced
<1>2. CASE TryConnect
  <2>1. KeepsTimers(loop, FailedAttempt(loop, "open"))
    BY <1>1, HelpersKeepTimers
  <2>2. KeepsTimers(loop, [ResetFailures(loop) EXCEPT !.scan_at = SCAN_INTERVAL])
    BY <1>1 DEF KeepsTimers, ResetFailures, LoopFields
  <2>3. KeepsTimers(loop, [loop EXCEPT !.scan_at = Never, !.last_request_id = 0])
    BY <1>1 DEF KeepsTimers, LoopFields
  <2>4. CASE task' = task
    <3>1. KeepsTimers(loop, loop')
      BY <1>2, <2>1, <2>2, <2>3 DEF TryConnect, Steps
    <3> QED
      BY <2>4, <3>1, OtherStep
  <2>5. CASE /\ loop' = [loop EXCEPT !.scan_at = Never, !.last_request_id = 0]
             /\ task' = [NoTask EXCEPT !.why = "connect"]
    <3>1. Spaced(loop')
      BY <1>1, <2>3, <2>5, KeepsSpaced
    <3> QED
      BY <2>5, <3>1, NoTaskFields DEF StepOK, LoopInv, RestoresInTime
  <2> QED
    BY <1>2, <2>4, <2>5 DEF TryConnect
<1>3. CASE ConnectInfo
  <2>1. \/ \E cause : Attempt(cause)
        \/ loop' = [loop EXCEPT !.met = TRUE] /\ task' = task
    BY <1>3 DEF ConnectInfo, Steps
  <2>2. KeepsTimers(loop, [loop EXCEPT !.met = TRUE])
    BY <1>1 DEF KeepsTimers, LoopFields
  <2> QED
    BY <2>1, <2>2, FailuresOK, OtherStep
<1> QED
  BY <1>2, <1>3

\* The timers that are due, snapshots and reports.
LEMMA TimersOK ==
  ASSUME LoopInv, RestoreDue \/ SettleDue \/ TakeSnapshot \/ ReadReport
  PROVE  StepOK
<1>1. DOMAIN loop = LoopFields /\ Spaced(loop) /\ RESTORE_INTERVAL \in Nat
  BY WatchAssumption DEF LoopInv, Spaced
<1>2. CASE RestoreDue
  <2>1. loop.since_restore = RESTORE_INTERVAL
    BY <1>1, <1>2 DEF RestoreDue, Due, Spaced, Never
  <2>2. Spaced(StartRestore(loop))
    BY <1>1 DEF Spaced, StartRestore, LoopFields
  <2> QED
    BY <1>2, <2>1, <2>2, NoTaskFields
    DEF RestoreDue, Steps, StepOK, LoopInv, RestoresInTime
<1>3. CASE SettleDue
  <2>1. KeepsTimers(loop, [loop EXCEPT !.settle_at = Never,
                                       !.awaiting_config = FALSE])
    BY <1>1 DEF KeepsTimers, LoopFields
  <2> QED
    BY <1>3, <2>1, OtherStep DEF SettleDue, Steps
<1>4. CASE TakeSnapshot
  <2>1. CASE Disconnect
    BY <2>1, FailuresOK
  <2>2. CASE ~Disconnect
    <3> DEFINE report == StatusNow(board)
               seq == SnapshotSeq(report)
               blind == loop.blind \/ (report.seq = 0 /\ Reports # <<>>)
               l == [loop EXCEPT !.snapshot_seq = seq, !.blind = blind]
    <3>1. Finish(Used(Noticed(l, report), report, FALSE))
      BY <1>4, <2>2 DEF TakeSnapshot
    <3> HIDE DEF seq, blind, report
    <3>2. DOMAIN l = LoopFields /\ KeepsTimers(loop, l)
      BY <1>1 DEF KeepsTimers, LoopFields
    <3> HIDE DEF l
    <3>3. KeepsTimers(l, Noticed(l, report))
      BY <3>2, ReportsKeepTimers
    <3>4. DOMAIN Noticed(l, report) = LoopFields
      BY <3>2, <3>3 DEF KeepsTimers
    <3>5. KeepsTimers(Noticed(l, report), Used(Noticed(l, report), report, FALSE))
      BY <3>4, ReportsKeepTimers
    <3>6. Spaced(Used(Noticed(l, report), report, FALSE))
      BY <1>1, <3>2, <3>3, <3>5, KeepsSpaced
    <3> QED
      BY <3>1, <3>6, FinishOK
  <2> QED
    BY <2>1, <2>2
<1>5. CASE ReadReport
  <2>1. CASE Disconnect
    BY <2>1, FailuresOK
  <2>2. CASE ~Disconnect
    <3> DEFINE report == Head(Reports)
               stale == IsStale(loop, report)
               l == Noticed(loop, report)
    <3>1. KeepsTimers(loop, l) /\ DOMAIN l = LoopFields
      BY <1>1, ReportsKeepTimers DEF KeepsTimers
    <3>2. \/ /\ loop' = l
             /\ task' = [NoTask EXCEPT !.why = "changed",
                           !.report = Some(report), !.stale = stale]
          \/ Finish(Used(l, report, stale))
      BY <1>5, <2>2 DEF ReadReport, Steps
    <3> HIDE DEF l, report, stale
    <3>3. Spaced(Used(l, report, stale)) /\ Spaced(l)
      BY <1>1, <3>1, ReportsKeepTimers, KeepsSpaced
    <3>4. LET t == [NoTask EXCEPT !.why = "changed",
                      !.report = Some(report), !.stale = stale]
          IN  DOMAIN t = TaskFields /\ t.why = "changed"
      BY DEF NoTask, TaskFields
    <3> QED
      BY <3>2, <3>3, <3>4, FinishOK DEF StepOK, LoopInv, RestoresInTime
  <2> QED
    BY <2>1, <2>2
<1> QED
  BY <1>2, <1>3, <1>4, <1>5

\* Calls of the application, and everything around the thread.
LEMMA AroundOK ==
  ASSUME LoopInv, SetTarget \/ SetOutputs \/ World \/ PlugIn \/ Heartbeat
  PROVE  StepOK
<1>1. DOMAIN loop = LoopFields /\ KeepsTimers(loop, loop)
  BY HelpersKeepTimers DEF LoopInv, Spaced
<1>2. CASE SetTarget
  <2>1. PICK config, restore_at :
          /\ loop' = [loop EXCEPT !.target = Some(config),
                                  !.restore_at = restore_at]
          /\ restore_at \in {Never, loop.restore_at}
          /\ \/ task' = task
             \/ task' = [NoTask EXCEPT !.why = "target",
                                       !.previous = loop.target]
    BY <1>2 DEF SetTarget, Steps
  <2>2. KeepsTimers(loop, loop')
    BY <1>1, <2>1 DEF KeepsTimers, LoopFields
  <2>3. LET t == [NoTask EXCEPT !.why = "target", !.previous = loop.target]
        IN  DOMAIN t = TaskFields /\ t.why = "target"
    BY DEF NoTask, TaskFields
  <2>4. Spaced(loop')
    BY <2>2, KeepsSpaced DEF LoopInv
  <2> QED
    BY <2>1, <2>3, <2>4 DEF StepOK, LoopInv, RestoresInTime
<1>3. CASE SetOutputs \/ Heartbeat
  BY <1>1, <1>3, OtherStep DEF SetOutputs, Heartbeat
<1>4. ASSUME NEW kind, NEW b, NEW reset, Happens(kind, b, reset)
      PROVE  StepOK
  <2>1. \A x : KeepsTimers(loop, [loop EXCEPT !.untold = x])
    BY <1>1 DEF KeepsTimers, LoopFields
  <2> QED
    BY <1>4, <2>1, OtherStep DEF Happens
<1>5. CASE PlugIn
  BY <1>4, <1>5 DEF PlugIn
<1>6. CASE World
  <2>1. PICK kind, b, reset : Happens(kind, b, reset)
    BY <1>6 DEF World, Inputs
  <2> QED
    BY <1>4, <2>1
<1> QED
  BY <1>2, <1>3, <1>5, <1>6

\* A tick shortens the wait by as much as it adds to the time since the last
\* restoration.
LEMMA TickOK ==
  ASSUME LoopInv, Tick
  PROVE  StepOK
<1> DEFINE l(scan, settle) ==
             [loop EXCEPT !.scan_at = scan,
                          !.restore_at = Later(loop.restore_at),
                          !.settle_at = settle,
                          !.since_restore =
                             IF loop.since_restore < RESTORE_INTERVAL
                             THEN loop.since_restore + 1
                             ELSE loop.since_restore]
<1>1. /\ DOMAIN loop = LoopFields /\ Spaced(loop) /\ DOMAIN task = TaskFields
      /\ RESTORE_INTERVAL \in Nat
  BY WatchAssumption DEF LoopInv, Spaced
<1>2. PICK scan, settle : loop' = l(scan, settle) /\ task' = task
  BY DEF Tick
<1>3. DOMAIN loop' = LoopFields
  BY <1>1, <1>2
<1>4. /\ loop'.restore_at = Later(loop.restore_at)
      /\ loop'.since_restore = IF loop.since_restore < RESTORE_INTERVAL
                               THEN loop.since_restore + 1
                               ELSE loop.since_restore
  BY <1>1, <1>2 DEF LoopFields
<1> HIDE DEF l
<1>5. Spaced(loop')
  BY <1>1, <1>3, <1>4 DEF Spaced, Later, Never
<1> QED
  BY <1>1, <1>2, <1>5 DEF StepOK, LoopInv, RestoresInTime

\* Every step.
LEMMA NextOK == LoopInv /\ [Next]_vars => StepOK
<1> SUFFICES ASSUME LoopInv, [Next]_vars
             PROVE  StepOK
  OBVIOUS
<1>1. CASE ThreadStep
  BY <1>1, ConnectingOK, TransfersOK, TimersOK DEF ThreadStep
<1>2. CASE UNCHANGED vars
  <2>1. KeepsTimers(loop, loop)
    BY HelpersKeepTimers DEF LoopInv, Spaced
  <2> QED
    BY <1>2, <2>1, OtherStep DEF vars
<1> QED
  BY <1>1, <1>2, AroundOK, TickOK DEF Next

(***************************************************************************)
(* A watcher restores its target at most once per RESTORE_INTERVAL         *)
(* (watch.rs config_changed and restore_target): whatever the board, other *)
(* programs and the application do, a restoration starts only when that    *)
(* long has passed since the one before.  The writes of connect() and      *)
(* set_target_pins are not restorations.                                   *)
(***************************************************************************)
THEOREM RestorationsAreSpaced == Spec => RestoresSpaced
<1>1. LoopInv /\ [Next]_vars
        => [task.why # "restore" /\ task'.why = "restore"
              => loop.since_restore = RESTORE_INTERVAL]_vars
  BY NextOK DEF StepOK, RestoresInTime
<1>2. LoopInv /\ [Next]_vars => LoopInv'
  BY NextOK DEF StepOK
<1> QED
  BY InitLoop, <1>1, <1>2, PTL DEF Spec, RestoresSpaced

-----------------------------------------------------------------------------
(***************************************************************************)
(* The board under the watcher                                             *)
(***************************************************************************)

\* A board with sound handles; a gap is known to the history of the loop.
BoardInv ==
  /\ Bounded(board) /\ BoardOK(board)
  /\ board.handles[Watch].gap # 0 => dropped

\* An operation of the board: a handle that dropped nothing is told of a new
\* configuration and of the outputs in reset.
Evolves(b, d, reset) ==
  /\ Bounded(d) /\ BoardOK(d) /\ KeepsReports(b, d)
  /\ Usable(d, Watch) /\ d.handles[Watch].gap = 0 =>
       /\ d.config # b.config => Tells(d, Watch, "CONFIG_CHANGED")
       /\ reset # {} => Tells(d, Watch, "OUTPUT_RESET") /\ reset = OutputsMask(d.config)

\* One that changes no configuration and resets no outputs.
LEMMA EvolvesQuietly ==
  ASSUME NEW b, NEW d, Bounded(d), BoardOK(d), KeepsReports(b, d), d.config = b.config
  PROVE  Evolves(b, d, {})
BY DEF Evolves

\* One that leaves no handle open.
LEMMA EvolvesClosed ==
  ASSUME NEW b, NEW d, Bounded(d), BoardOK(d),
         \A c \in Clients : d.handles[c].state # "open", NEW reset
  PROVE  Evolves(b, d, reset)
BY WatchAssumption DEF Evolves, KeepsReports, Usable

\* Another program or the loop writes a configuration.
LEMMA WriteEvolves ==
  ASSUME NEW b, Bounded(b), BoardOK(b), NEW config \in PinConfigs, NEW id \in 0 .. 255
  PROVE  Evolves(b, WriteConfig(b, EncodePinConfigSet(config, id)), {})
<1> DEFINE p == EncodePinConfigSet(config, id)
           w == WriteConfig(b, p)
<1>1. Payload(p)
  BY EncodedPayload
<1> HIDE DEF p
<1>2. Bounded(w) /\ BoardOK(w)
  BY <1>1, WriteType, WriteAnswers
<1>3. /\ KeepsReports(b, w)
      /\ w.handles[Watch].state = "open" =>
           \/ w.handles[Watch].gap # 0 \/ w.config = b.config
           \/ Tells(w, Watch, "CONFIG_CHANGED")
  BY <1>1, WriteTells, WatchAssumption
<1> HIDE DEF w
<1>4. Evolves(b, w, {})
  BY <1>2, <1>3 DEF Evolves, Usable
<1> QED
  BY <1>4 DEF p, w

\* A device that is plugged in, unplugged or reset, or an output that is
\* driven; and a periodic report.
LEMMA OperationsEvolve ==
  ASSUME NEW b, Bounded(b), BoardOK(b)
  PROVE  /\ ~b.powered => Evolves(b, Plug(b), {})
         /\ \A reset : Evolves(b, Unplug(b), reset)
         /\ Evolves(b, Reenumerate(b), OutputsMask(b.config))
         /\ Evolves(b, Suspend(b), OutputsMask(b.config))
         /\ Evolves(b, SkipReports(b, 1), {})
         /\ Evolves(b, Periodic(b), {})
         /\ Evolves(b, WriteOutputs(b, GPIOS, GPIOS), {})
         /\ Periodic(b).config = b.config
         /\ WriteOutputs(b, GPIOS, GPIOS).config = b.config
<1>1. ASSUME ~b.powered
      PROVE  Evolves(b, Plug(b), {})
  <2>1. Bounded(Plug(b)) /\ BoardOK(Plug(b)) /\ Plug(b).handles = b.handles
    BY PlugTypes, PlugOK
  <2>2. \A c \in Clients : b.handles[c].state # "open"
    BY <1>1 DEF BoardOK
  <2> QED
    BY <2>1, <2>2, EvolvesClosed
<1>2. \A reset : Evolves(b, Unplug(b), reset)
  BY WorldTypes, WorldKeeps, WorldTells, EvolvesClosed
<1>3. Evolves(b, Reenumerate(b), OutputsMask(b.config))
  BY WorldTypes, WorldKeeps, WorldTells, EvolvesClosed
<1>4. Evolves(b, Suspend(b), OutputsMask(b.config))
  <2>1. /\ Bounded(Suspend(b)) /\ BoardOK(Suspend(b))
        /\ KeepsReports(b, Suspend(b)) /\ Suspend(b).config = b.config
    BY WorldTypes, WorldKeeps, WorldTells DEF Keeps
  <2>2. Suspend(b).handles[Watch].state = "open" =>
          \/ Suspend(b).handles[Watch].gap # 0 \/ OutputsMask(b.config) = {}
          \/ Tells(Suspend(b), Watch, "OUTPUT_RESET")
    BY WorldTells, WatchAssumption
  <2> QED
    BY <2>1, <2>2 DEF Evolves, Usable
<1>5. Evolves(b, SkipReports(b, 1), {})
  <2>1. 1 \in Nat
    OBVIOUS
  <2>2. Bounded(SkipReports(b, 1)) /\ KeepsReports(b, SkipReports(b, 1))
    BY <2>1, SmallStepTypes, QueuesEndOrStay
  <2>3. BoardOK(SkipReports(b, 1)) /\ SkipReports(b, 1).config = b.config
    BY SmallStepsKeep DEF Keeps
  <2> QED
    BY <2>2, <2>3, EvolvesQuietly
<1>6. Evolves(b, Periodic(b), {}) /\ Periodic(b).config = b.config
  BY WorldTypes, WorldKeeps, WorldTells, EvolvesQuietly DEF Keeps
<1>7. /\ Evolves(b, WriteOutputs(b, GPIOS, GPIOS), {})
      /\ WriteOutputs(b, GPIOS, GPIOS).config = b.config
  <2> DEFINE w == WriteOutputs(b, GPIOS, GPIOS)
  <2>1. GPIOS \in SUBSET GPIOS
    OBVIOUS
  <2>2. Bounded(w)
    BY <2>1, WorldTypes
  <2>3. BoardOK(w) /\ w.config = b.config
    BY WorldKeeps DEF Keeps
  <2>4. KeepsReports(b, w)
    BY <2>1, WorldTells
  <2> QED
    BY <2>2, <2>3, <2>4, EvolvesQuietly
<1> QED
  BY <1>1, <1>2, <1>3, <1>4, <1>5, <1>6, <1>7

\* An input changes, seen or not.
LEMMA InputsEvolve ==
  ASSUME NEW b, Bounded(b), BoardOK(b), NEW n \in GPIOS, NEW high \in BOOLEAN
  PROVE  Evolves(b, SetInput(b, n, high), {}) /\ Evolves(b, LoseInput(b, n, high), {})
BY WorldTypes, WorldKeeps, WorldTells, EvolvesQuietly DEF Keeps

\* Whatever happens around the thread is such an operation.
LEMMA WorldEvolves ==
  ASSUME BoardInv, World \/ PlugIn
  PROVE  \E kind, b, reset : Happens(kind, b, reset) /\ Evolves(board, b, reset)
<1>1. Bounded(board) /\ BoardOK(board)
  BY DEF BoardInv
<1>2. CASE PlugIn
  BY <1>1, <1>2, OperationsEvolve DEF PlugIn
<1>3. CASE World /\ Inputs
  <2>1. PICK n \in Switches :
          \/ Happens("input", SetInput(board, n, n \notin board.inputs), {})
          \/ Happens("lose", LoseInput(board, n, n \notin board.inputs), {})
    BY <1>3 DEF Inputs
  <2>2. n \in GPIOS /\ (n \notin board.inputs) \in BOOLEAN
    BY WatchAssumption
  <2> QED
    BY <1>1, <2>1, <2>2, InputsEvolve
<1>4. CASE World /\ \E config \in OtherConfigs :
                      Happens("other", WritePinConfig(board, config), {})
  <2>1. PICK config \in OtherConfigs : Happens("other", WritePinConfig(board, config), {})
    BY <1>4
  <2>2. config \in PinConfigs /\ 1 \in 0 .. 255
    BY WatchAssumption
  <2> QED
    BY <1>1, <2>1, <2>2, WriteEvolves DEF WritePinConfig
<1>5. CASE World /\ \/ Happens("fail", [board EXCEPT !.open_error = ~@], {})
                    \/ Happens("fail", [board EXCEPT !.version_ok = ~@], {})
  <2> DEFINE b1 == [board EXCEPT !.open_error = ~@]
             b2 == [board EXCEPT !.version_ok = ~@]
  <2>1. Bounded(b1) /\ Bounded(b2)
    <3>1. (~board.open_error) \in BOOLEAN /\ (~board.version_ok) \in BOOLEAN
      OBVIOUS
    <3> QED
      BY <1>1, <3>1, FieldTypes
  <2>2. /\ b1.handles = board.handles /\ b1.config = board.config
        /\ b2.handles = board.handles /\ b2.config = board.config
        /\ BoardOK(b1) /\ BoardOK(b2)
    BY <1>1 DEF BoardOK, BoardFields
  <2> HIDE DEF b1, b2
  <2>3. Evolves(board, b1, {}) /\ Evolves(board, b2, {})
    BY <2>1, <2>2, ReportsStay, EvolvesQuietly
  <2> QED
    BY <1>5, <2>3 DEF b1, b2
<1>6. CASE World /\ \/ Happens("unplug", Unplug(board), OutputsMask(board.config))
                    \/ Happens("bus", Reenumerate(board), OutputsMask(board.config))
                    \/ Happens("bus", Suspend(board), OutputsMask(board.config))
                    \/ Happens("skip", SkipReports(board, 1), {})
  BY <1>1, <1>6, OperationsEvolve
<1> QED
  BY <1>2, <1>3, <1>4, <1>5, <1>6 DEF World

-----------------------------------------------------------------------------
(***************************************************************************)
(* What the loop knows of its connection, its target and the resets        *)
(***************************************************************************)
TargetOK(target) == target \subseteq PinConfigs /\ \A c, d \in target : c = d

Suited(target) == \A c \in target : Suits(c, Available)

\* Where the thread is and what it is there for.
Phase(l, a, why) ==
  /\ a \in {"idle", "info", "config", "send", "verify", "snapshot", "stopped"}
  /\ why \in {"none", "connect", "changed", "restore", "target"}
  /\ why = "none" <=> a \in {"idle", "snapshot", "stopped"}
  /\ a = "info" => why = "connect"
  /\ why = "connect" => ~l.connected /\ l.scan_at = Never
  /\ a \in {"config", "send", "verify"} => l.met
  /\ why \in {"changed", "restore", "target"} => l.connected
  /\ a = "snapshot" => l.connected
  /\ a \in {"send", "verify"} => why # "changed" /\ l.target # None /\ Suited(l.target)
  /\ why = "target" => Suited(l.target)
  /\ l.connected => l.scan_at = Never /\ l.met /\ l.ever_connected
  /\ ~l.connected => l.restore_at = Never /\ l.settle_at = Never

\* A reset that was not told came after the first connection, and a report
\* that waits in an unbroken queue will tell it.
Resets(l, b, d) ==
  /\ ~l.ever_connected => l.untold = {}
  /\ l.connected /\ Usable(b, Watch) /\ ~d =>
       \A n \in l.untold : \E r \in Waiting(b.handles[Watch]) :
         "OUTPUT_RESET" \in r.reason /\ n \in r.outputs

Announced(b) == \E r \in Waiting(b.handles[Watch]) : "CONFIG_CHANGED" \in r.reason

\* A target that is not on the board will be written: a timer or a report
\* that waits sees to it, or the loop is about to.
Pursues(l, b, a, t, d) ==
  l.connected /\ Usable(b, Watch) /\ ~d =>
    /\ a \in {"idle", "snapshot"} /\ l.target # None /\ b.config \notin l.target
         => l.restore_at # Never \/ Announced(b)
    /\ a = "send" => \/ b.config = t.found /\ t.found \notin l.target
                     \/ Announced(b)
    /\ a = "verify" => Announced(b)

\* The part of the invariant that no failure disturbs.
Sound ==
  /\ Phase(loop, at, task.why)
  /\ TargetOK(loop.target) /\ TargetOK(task.previous) /\ task.id \in 0 .. 255
  /\ left \in [Disturbances -> Nat]
  /\ Resets(loop, board, dropped)

\* No transfer of set_target_pins fails on a device that stays there.
TargetTransferWorks == task.why = "target" => left'.glitch = left.glitch

Pursuing == TargetTransferWorks /\ Pursues(loop, board, at, task, dropped)

\* The pins that a write drove are among those that the loop will tell.
Drives ==
  at = "verify" => task.driven \subseteq DrivenOutputs(task.found, TheTarget)

WatchInv == LoopInv /\ BoardInv /\ Sound /\ Drives

\* What every step has to do.
StepGood ==
  BoardInv' /\ Sound' /\ (Pursuing => Pursues(loop, board, at, task, dropped)')

-----------------------------------------------------------------------------
(***************************************************************************)
(* The helpers of the loop, again                                          *)
(***************************************************************************)

\* A loop with the same connection, target and timers, which has told more.
Same(l, m) ==
  /\ DOMAIN m = DOMAIN l
  /\ m.target = l.target /\ m.restore_at = l.restore_at /\ m.scan_at = l.scan_at
  /\ (m.met <=> l.met) /\ (m.ever_connected <=> l.ever_connected)
  /\ (m.connected <=> l.connected)
  /\ l.connected \/ m.settle_at \in {l.settle_at, Never}
  /\ m.untold \subseteq l.untold

\* One helper after another.
LEMMA SameTransitive ==
  ASSUME NEW l, NEW m, NEW n, Same(l, m), Same(m, n)
  PROVE  Same(l, n)
BY DEF Same

\* What holds of a loop holds of the same.
LEMMA SameKeeps ==
  ASSUME NEW l, NEW m, Same(l, m), NEW b, NEW a, NEW t, NEW d
  PROVE  /\ Phase(l, a, t.why) => Phase(m, a, t.why)
         /\ Resets(l, b, d) => Resets(m, b, d)
         /\ Pursues(l, b, a, t, d) => Pursues(m, b, a, t, d)
         /\ TargetOK(l.target) => TargetOK(m.target)
<1>1. Phase(l, a, t.why) => Phase(m, a, t.why)
  BY DEF Same, Phase
<1>2. Resets(l, b, d) => Resets(m, b, d)
  BY DEF Same, Resets
<1>3. Pursues(l, b, a, t, d) => Pursues(m, b, a, t, d)
  BY DEF Same, Pursues
<1> QED
  BY <1>1, <1>2, <1>3 DEF Same

\* The helpers that change neither connection nor target.
LEMMA HelpersKeepConnection ==
  ASSUME NEW l, DOMAIN l = LoopFields
  PROVE  /\ Same(l, l)
         /\ \A gpios : Same(l, TellReset(l, gpios))
         /\ \A config : Same(l, SetConfig(l, config)) /\ SetConfig(l, config).config = config
         /\ \A report : Same(l, Absorb(l, report))
         /\ \A id : Same(l, [l EXCEPT !.last_request_id = id])
         /\ Same(l, [l EXCEPT !.settle_at = Never, !.awaiting_config = FALSE])
<1>1. Same(l, l)
  BY DEF Same
<1>2. \A gpios : Same(l, TellReset(l, gpios))
  BY DEF Same, TellReset, LoopFields
<1>3. \A config : Same(l, SetConfig(l, config)) /\ SetConfig(l, config).config = config
  BY DEF Same, SetConfig, LoopFields
<1>4. ASSUME NEW report
      PROVE  Same(l, Absorb(l, report))
  <2>1. ASSUME NEW known, NEW counted, NEW k, NEW c,
               k = [l EXCEPT !.known = known, !.counted = counted],
               NEW r, r = AbsorbLevels(k, c)
        PROVE  Same(l, r)
    BY <2>1 DEF Same, AbsorbLevels, LoopFields
  <2> QED
    BY <2>1 DEF Absorb
<1>5. \A id : Same(l, [l EXCEPT !.last_request_id = id])
  BY DEF Same, LoopFields
<1>6. Same(l, [l EXCEPT !.settle_at = Never, !.awaiting_config = FALSE])
  BY DEF Same, LoopFields
<1> QED
  BY <1>1, <1>2, <1>3, <1>4, <1>5, <1>6

\* What a report makes of the loop; a reset in it is told.
LEMMA ReportsKeepConnection ==
  ASSUME NEW l, DOMAIN l = LoopFields, NEW report, NEW stale
  PROVE  /\ Same(l, Noticed(l, report))
         /\ "OUTPUT_RESET" \in report.reason =>
              Noticed(l, report).untold = l.untold \ report.outputs
         /\ Same(l, Used(l, report, stale))
<1>1. /\ Same(l, Noticed(l, report))
      /\ "OUTPUT_RESET" \in report.reason =>
           Noticed(l, report).untold = l.untold \ report.outputs
  <2> DEFINE old == IsStale(l, report)
             changed == "CONFIG_CHANGED" \in report.reason /\ ~old
             snapshot == IF old \/ "HOST_REQUEST" \in report.reason
                         THEN l.snapshot_seq ELSE None
             awaiting == l.awaiting_config /\ ~changed
             settle == IF changed THEN Never ELSE l.settle_at
             told == IF "OUTPUT_RESET" \in report.reason THEN report.outputs ELSE {}
             m == TellReset([l EXCEPT !.snapshot_seq = snapshot,
                                      !.awaiting_config = awaiting,
                                      !.settle_at = settle], told)
  <2>1. Noticed(l, report) = m
    BY DEF Noticed
  <2>2. settle \in {l.settle_at, Never}
    OBVIOUS
  <2>3. "OUTPUT_RESET" \in report.reason => told = report.outputs
    OBVIOUS
  <2> HIDE DEF snapshot, awaiting, settle, told
  <2>4. m = TellReset([l EXCEPT !.snapshot_seq = snapshot,
                                !.awaiting_config = awaiting,
                                !.settle_at = settle], told)
    OBVIOUS
  <2> HIDE DEF m
  <2>5. Same(l, m) /\ m.untold = l.untold \ told
    BY <2>2, <2>4 DEF Same, TellReset, LoopFields
  <2> QED
    BY <2>1, <2>3, <2>5
<1>2. Same(l, Used(l, report, stale))
  BY HelpersKeepConnection DEF Used
<1> QED
  BY <1>1, <1>2

\* A loop without a connection any more.
Ended(l, m) ==
  /\ DOMAIN m = DOMAIN l
  /\ m.target = l.target /\ m.untold = l.untold
  /\ (m.ever_connected <=> l.ever_connected) /\ ~m.connected
  /\ m.restore_at = Never /\ m.settle_at = Never

\* The helpers that end a connection, or an attempt at one.
LEMMA HelpersEndConnection ==
  ASSUME NEW l, DOMAIN l = LoopFields,
         ~l.connected => l.restore_at = Never /\ l.settle_at = Never
  PROVE  /\ Ended(l, DropConnection(l)) /\ Ended(l, Lost(l))
         /\ ~l.connected => \A cause : Ended(l, FailedAttempt(l, cause))
<1>1. Ended(l, DropConnection(l))
  BY DEF Ended, DropConnection, LoopFields
<1>2. Ended(l, Lost(l))
  <2> DEFINE m == DropConnection(l)
  <2>1. Ended(l, m) /\ DOMAIN m = LoopFields
    BY <1>1 DEF Ended
  <2> HIDE DEF m
  <2>2. Ended(l, [m EXCEPT !.scan_at = SCAN_INTERVAL])
    BY <2>1 DEF Ended, LoopFields
  <2>3. Lost(l) = IF ~l.connected THEN l ELSE [m EXCEPT !.scan_at = SCAN_INTERVAL]
    BY DEF Lost, m
  <2> QED
    BY <2>2, <2>3 DEF Ended
<1>3. ~l.connected => \A cause : Ended(l, FailedAttempt(l, cause))
  BY DEF Ended, FailedAttempt, LoopFields
<1> QED
  BY <1>1, <1>2, <1>3

-----------------------------------------------------------------------------
(***************************************************************************)
(* The ends of what the loop does                                          *)
(***************************************************************************)

\* The first state: no connection, and a target of the scenario.
LEMMA InitWatch ==
  Init => BoardInv /\ Sound /\ Drives /\ Pursues(loop, board, at, task, dropped)
<1> SUFFICES ASSUME Init
             PROVE  BoardInv /\ Sound /\ Drives /\ Pursues(loop, board, at, task, dropped)
  OBVIOUS
<1>1. PICK s \in Scenarios : loop = NewLoop(s.target) /\ left = s.budget
  BY DEF Init
<1>2. /\ loop.target = s.target /\ loop.connected = FALSE /\ loop.untold = {}
      /\ loop.restore_at = Never /\ loop.settle_at = Never
  BY <1>1 DEF NewLoop
<1>3. at = "idle" /\ task.why = "none" /\ task.previous = None /\ task.id = 0
  BY DEF Init, NoTask
<1>4. TargetOK(loop.target) /\ left \in [Disturbances -> Nat] /\ TargetOK(None)
  BY <1>1, <1>2, WatchAssumption DEF TargetOK, None
<1>5. Phase(loop, at, task.why)
  BY <1>2, <1>3 DEF Phase
<1>6. Resets(loop, board, dropped) /\ Pursues(loop, board, at, task, dropped)
  BY <1>2 DEF Resets, Pursues
<1>7. BoardInv
  <2>1. Bounded(NewBoard) /\ Bounded(Plug(NewBoard))
    BY PlugTypes
  <2>2. BoardOK(NewBoard) /\ \A c \in Clients : NewBoard.handles[c].gap = 0
    BY DEF NewBoard, BoardOK, BoardFields, HandleFields, Closed
  <2>3. BoardOK(Plug(NewBoard)) /\ Plug(NewBoard).handles = NewBoard.handles
    BY <2>2, PlugOK
  <2> QED
    BY <2>1, <2>2, <2>3, WatchAssumption DEF Init, BoardInv
<1> QED
  BY <1>3, <1>4, <1>5, <1>6, <1>7 DEF Sound, Drives

\* Nothing to do.
LEMMA NoTaskSound ==
  NoTask.why = "none" /\ TargetOK(NoTask.previous) /\ NoTask.id \in 0 .. 255
BY DEF NoTask, TargetOK, None

\* The loop is done with what it did, on a board that is sound.
LEMMA FinishOver ==
  ASSUME WatchInv, NEW l, DOMAIN l = LoopFields, Finish(l),
         left' \in [Disturbances -> Nat], NEW b, board' = b,
         Bounded(b), BoardOK(b), b.handles[Watch].gap # 0 => dropped,
         Phase(l, "idle", "none"), TargetOK(l.target), Resets(l, b, dropped),
         Pursuing => Pursues(l, b, "idle", NoTask, dropped)
  PROVE  StepGood
<1>1. Same(l, loop')
  <2>1. Same(l, l) /\ \A r, stale : Same(l, Used(l, r, stale))
    BY HelpersKeepConnection, ReportsKeepConnection
  <2> QED
    BY <2>1 DEF Finish, Steps
<1>2. at' = "idle" /\ task' = NoTask /\ dropped' = dropped
  BY DEF Finish, Steps, GoTo
<1>3. Phase(loop', "idle", NoTask.why) /\ TargetOK(loop'.target)
  BY <1>1, SameKeeps, NoTaskSound
<1>4. Resets(loop', b, dropped)
  BY <1>1, SameKeeps
<1>5. Pursuing => Pursues(loop', b, "idle", NoTask, dropped)
  BY <1>1, SameKeeps
<1>6. BoardInv'
  BY <1>2 DEF BoardInv
<1>7. Sound'
  BY <1>2, <1>3, <1>4, NoTaskSound DEF Sound
<1> QED
  BY <1>2, <1>5, <1>6, <1>7 DEF StepGood

\* The same on the board there is.
LEMMA FinishGood ==
  ASSUME WatchInv, NEW l, DOMAIN l = LoopFields, Finish(l), board' = board,
         left' \in [Disturbances -> Nat],
         Phase(l, "idle", "none"), TargetOK(l.target), Resets(l, board, dropped),
         Pursuing => Pursues(l, board, "idle", NoTask, dropped)
  PROVE  StepGood
<1>1. Bounded(board) /\ BoardOK(board) /\ (board.handles[Watch].gap # 0 => dropped)
  BY DEF WatchInv, BoardInv
<1> QED
  BY <1>1, FinishOver

\* The connection has ended, and the handle is closed.
LEMMA ClosedGood ==
  ASSUME WatchInv, Ended(loop, loop'), board' = CloseHandle(board, Watch),
         at' \in {"idle", "stopped"}, task' = NoTask, dropped' = dropped,
         left' \in [Disturbances -> Nat]
  PROVE  StepGood
<1>1. Bounded(board) /\ BoardOK(board) /\ Watch \in Clients
  BY WatchAssumption DEF WatchInv, BoardInv
<1>2. /\ Bounded(board') /\ BoardOK(board') /\ board'.config = board.config
  BY <1>1, SmallStepTypes, HandleSteps DEF Keeps
<1>3. board'.handles[Watch].gap = 0
  <2>1. board.handles \in [Clients -> Handles] /\ board \in Boards
    BY <1>1, HandlesOf
  <2> QED
    BY <1>1, <2>1 DEF CloseHandle, Closed, Boards
<1>4. BoardInv'
  BY <1>2, <1>3 DEF BoardInv
<1>5. Phase(loop', at', task'.why)
  BY NoTaskSound DEF Phase, Ended
<1>6. Resets(loop', board', dropped')
  BY <1>2 DEF WatchInv, Sound, Resets, Ended
<1>7. Pursues(loop', board', at', task', dropped')
  BY DEF Pursues, Ended
<1>8. TargetOK(loop'.target)
  BY DEF WatchInv, Sound, Ended
<1> QED
  BY <1>4, <1>5, <1>6, <1>7, <1>8, NoTaskSound DEF StepGood, Sound

\* The shape of the loop, and of one without a connection.
LEMMA LoopShape ==
  ASSUME WatchInv
  PROVE  /\ DOMAIN loop = LoopFields /\ DOMAIN task = TaskFields
         /\ ~loop.connected => loop.restore_at = Never /\ loop.settle_at = Never
         /\ left \in [Disturbances -> Nat] /\ Watch \in Clients
BY WatchAssumption DEF WatchInv, LoopInv, Spaced, Sound, Phase

\* A failed attempt to connect, a lost connection and a fatal error.
LEMMA EndsGood ==
  ASSUME WatchInv, left' \in [Disturbances -> Nat]
  PROVE  /\ ~loop.connected => \A cause : Attempt(cause) => StepGood
         /\ Disconnect => StepGood
         /\ Stop => StepGood
<1>1. ASSUME ~loop.connected, NEW cause, Attempt(cause)
      PROVE  StepGood
  <2>1. Ended(loop, FailedAttempt(loop, cause))
    BY <1>1, LoopShape, HelpersEndConnection
  <2> QED
    BY <1>1, <2>1, ClosedGood DEF Attempt, FinishClosed, GoTo
<1>2. ASSUME Disconnect
      PROVE  StepGood
  <2>1. Ended(loop, Lost(loop))
    BY LoopShape, HelpersEndConnection
  <2> QED
    BY <1>2, <2>1, ClosedGood DEF Disconnect, FinishClosed, GoTo
<1>3. ASSUME Stop
      PROVE  StepGood
  <2>1. Ended(loop, DropConnection(loop))
    BY LoopShape, HelpersEndConnection
  <2> QED
    BY <1>3, <2>1, ClosedGood DEF Stop, Steps, GoTo
<1> QED
  BY <1>1, <1>2, <1>3

\* A loop with nothing to do but what it has been asked, when it returns.
LEMMA CallerIdle ==
  ASSUME WatchInv
  PROVE  /\ Phase(loop, "idle", "none") \/ task.why = "connect"
         /\ task.why = "connect" => ~loop.connected
BY DEF WatchInv, Sound, Phase

\* A transfer that fails; set_target_pins leaves the loop as it is.
LEMMA TransferFailedGood ==
  ASSUME WatchInv, left' \in [Disturbances -> Nat], NEW cause, TransferFailed(cause),
         task.why = "target" /\ Pursuing => Pursues(loop, board, "idle", NoTask, dropped)
  PROVE  StepGood
<1>1. CASE task.why = "connect"
  BY <1>1, EndsGood, CallerIdle DEF TransferFailed
<1>2. CASE task.why = "target"
  <2>1. Finish(loop) /\ board' = board
    BY <1>2 DEF TransferFailed
  <2>2. Phase(loop, "idle", "none")
    BY <1>2, CallerIdle
  <2>3. TargetOK(loop.target) /\ Resets(loop, board, dropped)
    BY DEF WatchInv, Sound
  <2> QED
    BY <1>2, <2>1, <2>2, <2>3, LoopShape, FinishGood
<1>3. CASE task.why \notin {"connect", "target"}
  BY <1>3, EndsGood DEF TransferFailed
<1> QED
  BY <1>1, <1>2, <1>3

\* A target that is rejected: set_target_pins takes the old one back.
LEMMA RejectedGood ==
  ASSUME WatchInv, left' \in [Disturbances -> Nat], Rejected,
         task.why = "target" /\ Pursuing /\ loop.connected /\ Usable(board, Watch)
           /\ ~dropped => Announced(board)
  PROVE  StepGood
<1>1. CASE task.why = "target"
  <2> DEFINE l == [loop EXCEPT !.target = task.previous]
  <2>1. Finish(l) /\ board' = board
    BY <1>1 DEF Rejected
  <2>2. /\ DOMAIN l = LoopFields /\ l.target = task.previous
        /\ l.restore_at = loop.restore_at /\ l.settle_at = loop.settle_at
        /\ l.scan_at = loop.scan_at /\ l.untold = loop.untold
        /\ (l.connected <=> loop.connected) /\ (l.met <=> loop.met)
        /\ (l.ever_connected <=> loop.ever_connected)
    BY LoopShape DEF LoopFields
  <2> HIDE DEF l
  <2>3. Phase(l, "idle", "none")
    BY <1>1, <2>2, CallerIdle DEF Phase
  <2>4. TargetOK(l.target) /\ Resets(l, board, dropped)
    BY <2>2 DEF WatchInv, Sound, Resets
  <2>5. Pursuing => Pursues(l, board, "idle", NoTask, dropped)
    BY <1>1, <2>2 DEF Pursues
  <2> QED
    BY <2>1, <2>2, <2>3, <2>4, <2>5, FinishGood
<1>2. CASE task.why # "target"
  BY <1>2, EndsGood DEF Rejected
<1> QED
  BY <1>1, <1>2

-----------------------------------------------------------------------------
(***************************************************************************)
(* Connecting, and the transfers                                           *)
(***************************************************************************)

\* A transfer fails on a handle that failed, or uses up a glitch.
LEMMA FailsUses ==
  ASSUME WatchInv, Fails
  PROVE  /\ left' \in [Disturbances -> Nat]
         /\ task.why = "target" /\ TargetTransferWorks => ~Usable(board, Watch)
<1>1. left \in [Disturbances -> Nat] /\ "glitch" \in Disturbances
  BY LoopShape DEF Disturbances
<1>2. CASE ~Usable(board, Watch) /\ UNCHANGED left
  BY <1>1, <1>2
<1>3. CASE left.glitch > 0 /\ left' = [left EXCEPT !.glitch = @ - 1]
  <2>1. left.glitch \in Nat /\ left.glitch - 1 \in Nat
    BY <1>1, <1>3
  <2>2. left' \in [Disturbances -> Nat] /\ left'.glitch = left.glitch - 1
    BY <1>1, <1>3, <2>1
  <2>3. left'.glitch # left.glitch
    BY <2>1, <2>2
  <2> QED
    BY <2>2, <2>3 DEF TargetTransferWorks
<1> QED
  BY <1>2, <1>3 DEF Fails

\* A scan, and the device information.
LEMMA ConnectingGood ==
  ASSUME WatchInv, TryConnect \/ ConnectInfo
  PROVE  StepGood
<1>1. /\ Bounded(board) /\ BoardOK(board)
      /\ board.handles[Watch].gap # 0 => dropped
  BY DEF WatchInv, BoardInv
<1>2. CASE TryConnect
  <2>1. /\ ~loop.connected /\ at = "idle" /\ task.why = "none" /\ left' = left
        /\ loop.restore_at = Never /\ loop.settle_at = Never
    BY <1>2 DEF TryConnect, Due, Never, WatchInv, Sound, Phase
  <2>2. CASE board' = board /\ at' = at /\ task' = task /\ dropped' = dropped
             /\ Ended(loop, loop')
    <3>1. Phase(loop', at', task'.why)
      BY <2>1, <2>2 DEF Phase, Ended
    <3>2. Resets(loop', board', dropped') /\ Pursues(loop', board', at', task', dropped')
      BY <2>2 DEF WatchInv, Sound, Resets, Pursues, Ended
    <3>3. TargetOK(loop'.target)
      BY <2>2 DEF WatchInv, Sound, Ended
    <3>4. BoardInv'
      BY <1>1, <2>2 DEF BoardInv
    <3>5. Sound'
      BY <2>1, <2>2, <3>1, <3>2, <3>3 DEF WatchInv, Sound
    <3> QED
      BY <3>2, <3>4, <3>5 DEF StepGood
  <2>3. CASE /\ CanOpen(board) /\ board' = OpenHandle(board, Watch)
             /\ loop' = [loop EXCEPT !.scan_at = Never, !.last_request_id = 0]
             /\ dropped' = FALSE /\ at' = "info"
             /\ task' = [NoTask EXCEPT !.why = "connect"]
    <3>1. /\ loop'.target = loop.target /\ loop'.untold = loop.untold
          /\ (loop'.connected <=> loop.connected) /\ loop'.scan_at = Never
          /\ (loop'.ever_connected <=> loop.ever_connected)
          /\ loop'.restore_at = loop.restore_at /\ loop'.settle_at = loop.settle_at
      BY <2>3, LoopShape DEF LoopFields
    <3>2. task'.why = "connect" /\ TargetOK(task'.previous) /\ task'.id \in 0 .. 255
      BY <2>3 DEF NoTask, TargetOK, None
    <3>3. Phase(loop', at', task'.why)
      BY <2>1, <2>3, <3>1, <3>2 DEF Phase
    <3>4. /\ Bounded(board') /\ BoardOK(board') /\ board'.config = board.config
      BY <1>1, <2>3, LoopShape, SmallStepTypes, HandleSteps
    <3>5. board'.handles[Watch].gap = 0
      <4>1. board.handles \in [Clients -> Handles] /\ board \in Boards
        BY <1>1, HandlesOf
      <4> QED
        BY <2>3, <4>1, LoopShape DEF OpenHandle, Opened, Closed, Boards
    <3>6. Resets(loop', board', dropped') /\ Pursues(loop', board', at', task', dropped')
      BY <2>1, <3>1, <3>4 DEF WatchInv, Sound, Resets, Pursues
    <3>7. BoardInv'
      BY <3>4, <3>5 DEF BoardInv
    <3>8. Sound'
      BY <2>1, <3>1, <3>2, <3>3, <3>6 DEF WatchInv, Sound
    <3> QED
      BY <3>6, <3>7, <3>8 DEF StepGood
  <2>4. Ended(loop, [ResetFailures(loop) EXCEPT !.scan_at = SCAN_INTERVAL])
    BY <2>1, LoopShape DEF Ended, ResetFailures, LoopFields
  <2>5. Ended(loop, FailedAttempt(loop, "open"))
    BY <2>1, LoopShape, HelpersEndConnection
  <2> QED
    BY <1>2, <2>2, <2>3, <2>4, <2>5 DEF TryConnect, Steps, GoTo
<1>3. CASE ConnectInfo
  <2>1. ~loop.connected /\ at = "info" /\ task.why = "connect" /\ loop.scan_at = Never
    BY <1>3 DEF ConnectInfo, WatchInv, Sound, Phase
  <2>2. CASE Fails /\ Attempt("io")
    BY <2>1, <2>2, FailsUses, EndsGood
  <2>3. CASE Attempt("version") /\ left' = left
    BY <2>1, <2>3, LoopShape, EndsGood
  <2>4. CASE /\ Steps([loop EXCEPT !.met = TRUE]) /\ GoTo("config")
             /\ UNCHANGED <<board, task, left>>
    <3>1. /\ loop'.target = loop.target /\ loop'.untold = loop.untold
          /\ (loop'.connected <=> loop.connected) /\ loop'.scan_at = Never
          /\ (loop'.ever_connected <=> loop.ever_connected) /\ loop'.met
          /\ loop'.restore_at = loop.restore_at /\ loop'.settle_at = loop.settle_at
          /\ dropped' = dropped /\ at' = "config"
      BY <2>1, <2>4, LoopShape DEF Steps, GoTo, LoopFields
    <3>2. Phase(loop', at', task'.why)
      BY <2>1, <2>4, <3>1, LoopShape DEF Phase
    <3>3. Resets(loop', board', dropped') /\ Pursues(loop', board', at', task', dropped')
      BY <2>1, <2>4, <3>1 DEF WatchInv, Sound, Resets, Pursues
    <3>4. BoardInv'
      BY <1>1, <2>4, <3>1 DEF BoardInv
    <3>5. Sound'
      BY <2>4, <3>1, <3>2, <3>3 DEF WatchInv, Sound
    <3> QED
      BY <3>3, <3>4, <3>5 DEF StepGood
  <2> QED
    BY <1>3, <2>2, <2>3, <2>4 DEF ConnectInfo
<1> QED
  BY <1>2, <1>3

\* Connected: the outputs of the configuration are told when it is not the
\* first time, and only those that a write drove wait to be told when it is.
LEMMA ConnectedGood ==
  ASSUME WatchInv, task.why = "connect", loop.met, NEW config, config = board.config,
         loop.target = None \/ config \in loop.target, NEW driven,
         NEW awaiting \in BOOLEAN, NEW drove, drove \subseteq driven,
         Connected(config, driven, awaiting, drove), board' = board, left' \in [Disturbances -> Nat]
  PROVE  StepGood
<1> DEFINE r == ResetFailures(loop)
           settle == IF awaiting THEN SETTLE_TIMEOUT ELSE r.settle_at
           untold == (r.untold \cup drove) \cap OutputsMask(config)
           c == [r EXCEPT !.connected = TRUE, !.ever_connected = TRUE,
                          !.awaiting_config = awaiting, !.untold = untold,
                          !.settle_at = settle]
           reset == IF loop.ever_connected THEN OutputsMask(config) ELSE driven
           k == SetConfig(c, config)
<1>1. /\ loop' = TellReset(k, reset) /\ dropped' = dropped /\ task' = NoTask
      /\ at' \in {"idle", "snapshot"}
  BY DEF Connected, Steps, GoTo
<1>2. /\ DOMAIN c = LoopFields /\ c.target = loop.target /\ c.connected
      /\ c.ever_connected /\ (c.met <=> loop.met) /\ c.scan_at = loop.scan_at
      /\ c.untold = (loop.untold \cup drove) \cap OutputsMask(config)
  <2>1. DOMAIN r = LoopFields /\ r.untold = loop.untold /\ r.target = loop.target
        /\ (r.met <=> loop.met) /\ r.scan_at = loop.scan_at
    BY LoopShape DEF ResetFailures, LoopFields
  <2> HIDE DEF r, untold, settle
  <2>2. /\ DOMAIN c = LoopFields /\ c.target = r.target /\ c.connected
        /\ c.ever_connected /\ (c.met <=> r.met) /\ c.scan_at = r.scan_at
        /\ c.untold = untold
    BY <2>1 DEF LoopFields
  <2> HIDE DEF c
  <2> QED
    BY <2>1, <2>2 DEF untold
<1> HIDE DEF c
<1>3. Same(c, k) /\ DOMAIN k = LoopFields
  BY <1>2, HelpersKeepConnection DEF Same
<1> HIDE DEF k, reset
<1>4. Same(k, loop') /\ loop'.untold = k.untold \ reset
  BY <1>1, <1>3 DEF Same, TellReset, LoopFields
<1>5. /\ loop'.target = loop.target /\ loop'.connected /\ loop'.ever_connected
      /\ loop'.met /\ loop'.scan_at = loop.scan_at
      /\ loop'.untold \subseteq
           ((loop.untold \cup drove) \cap OutputsMask(config)) \ reset
  BY <1>2, <1>3, <1>4 DEF Same
<1>6. loop'.untold = {}
  <2>1. CASE loop.ever_connected
    BY <1>5, <2>1 DEF reset
  <2>2. CASE ~loop.ever_connected
    BY <1>5, <2>2 DEF reset, WatchInv, Sound, Resets
  <2> QED
    BY <2>1, <2>2
<1>7. loop.scan_at = Never
  BY DEF WatchInv, Sound, Phase
<1>8. Phase(loop', at', task'.why)
  BY <1>1, <1>5, <1>7, NoTaskSound DEF Phase
<1>9. Resets(loop', board', dropped')
  BY <1>6 DEF Resets
<1>10. Pursues(loop', board', at', task', dropped')
  BY <1>1, <1>5 DEF Pursues
<1>11. BoardInv'
  BY <1>1 DEF WatchInv, BoardInv
<1>12. Sound'
  BY <1>1, <1>5, <1>8, <1>9, NoTaskSound DEF WatchInv, Sound
<1> QED
  BY <1>10, <1>11, <1>12 DEF StepGood

\* Writing the target over another configuration, up to the transfer.
LEMMA SetTargetOverGood ==
  ASSUME WatchInv, at = "config", task.why # "changed", NEW l, Same(loop, l),
         NEW found, found = board.config, loop.target \notin {None, Some(found)},
         SetTargetOver(l, found), left' \in [Disturbances -> Nat]
  PROVE  StepGood
<1>1. CASE \A config \in loop.target : Suits(config, Available)
  <2>0. PICK id : /\ id \in FreshIds(loop.last_request_id)
                  /\ loop' = [l EXCEPT !.last_request_id = id] /\ dropped' = dropped
                  /\ task' = [task EXCEPT !.found = found, !.id = id]
    BY <1>1 DEF SetTargetOver, Steps
  <2>1. /\ loop' = [l EXCEPT !.last_request_id = id] /\ dropped' = dropped
        /\ task' = [task EXCEPT !.found = found, !.id = id]
        /\ at' = "send" /\ board' = board
    BY <1>1, <2>0 DEF SetTargetOver, GoTo, Steps
  <2>2. id \in 0 .. 255
    BY <2>0, RequestIdAssumption DEF FreshIds
  <2>3. /\ task'.why = task.why /\ task'.found = found /\ task'.id = id
        /\ task'.previous = task.previous
    BY <2>1, LoopShape DEF TaskFields
  <2>4. Same(loop, loop')
    <3>1. DOMAIN l = LoopFields
      BY LoopShape DEF Same
    <3>2. Same(l, loop')
      BY <2>1, <3>1, HelpersKeepConnection
    <3> QED
      BY <3>2, SameTransitive
  <2>5. Phase(loop', "config", task.why)
    BY <2>4, SameKeeps DEF WatchInv, Sound
  <2>6. /\ loop'.target = loop.target /\ loop.target # None
        /\ TargetOK(loop.target) /\ Suited(loop.target)
    BY <1>1, <2>4 DEF Same, WatchInv, Sound, Suited
  <2>7. Phase(loop', at', task'.why)
    BY <2>1, <2>3, <2>5, <2>6 DEF Phase
  <2>8. found \notin loop.target
    BY <2>6 DEF TargetOK, Some, None
  <2>9. Resets(loop', board', dropped')
    BY <2>1, <2>4, SameKeeps DEF WatchInv, Sound
  <2>10. Pursues(loop', board', at', task', dropped')
    BY <2>1, <2>3, <2>6, <2>8 DEF Pursues
  <2>11. BoardInv'
    BY <2>1 DEF WatchInv, BoardInv
  <2>12. Sound'
    BY <2>2, <2>3, <2>6, <2>7, <2>9 DEF WatchInv, Sound
  <2> QED
    BY <2>10, <2>11, <2>12 DEF StepGood
<1>2. CASE Rejected /\ ~\A config \in loop.target : Suits(config, Available)
  <2>1. task.why # "target"
    BY <1>2 DEF WatchInv, Sound, Phase, Suited
  <2> QED
    BY <1>2, <2>1, RejectedGood
<1> QED
  BY <1>1, <1>2 DEF SetTargetOver

\* A transfer that fails by itself, or with its handle.
LEMMA FailsGood ==
  ASSUME WatchInv, Fails, TransferFailed("io")
  PROVE  StepGood
<1>1. /\ left' \in [Disturbances -> Nat]
      /\ task.why = "target" /\ TargetTransferWorks => ~Usable(board, Watch)
  BY FailsUses
<1>2. task.why = "target" /\ Pursuing => Pursues(loop, board, "idle", NoTask, dropped)
  BY <1>1 DEF Pursuing, Pursues
<1> QED
  BY <1>1, <1>2, TransferFailedGood

\* A restoration starts.
LEMMA StartRestoreGood ==
  ASSUME WatchInv, NEW l, Same(loop, l), Phase(l, "idle", "none"), l.connected,
         loop' = StartRestore(l), dropped' = dropped, at' = "config",
         board' = board, left' \in [Disturbances -> Nat],
         task'.why = "restore", TargetOK(task'.previous), task'.id \in 0 .. 255
  PROVE  StepGood
<1>1. DOMAIN l = LoopFields /\ TargetOK(l.target) /\ Resets(l, board, dropped)
  BY LoopShape, SameKeeps DEF Same, WatchInv, Sound
<1>2. /\ loop'.target = l.target /\ loop'.restore_at = Never
      /\ loop'.scan_at = l.scan_at /\ loop'.untold = l.untold
      /\ (loop'.connected <=> l.connected) /\ (loop'.met <=> l.met)
      /\ (loop'.ever_connected <=> l.ever_connected)
  BY <1>1 DEF StartRestore, LoopFields
<1>3. Phase(loop', at', task'.why)
  BY <1>2 DEF Phase
<1>4. TargetOK(loop'.target) /\ Resets(loop', board', dropped')
  BY <1>1, <1>2 DEF Resets
<1>5. Pursues(loop', board', at', task', dropped')
  BY DEF Pursues
<1>6. BoardInv'
  BY DEF WatchInv, BoardInv
<1>7. Sound'
  BY <1>3, <1>4 DEF Sound
<1> QED
  BY <1>5, <1>6, <1>7 DEF StepGood

\* After a CONFIG_CHANGED: nothing to do, a timer, or the target at once.
LEMMA ConfigChangedGood ==
  ASSUME WatchInv, at = "config", task.why = "changed", NEW l, Same(loop, l),
         l.since_restore = loop.since_restore, l.config = board.config,
         ConfigChanged(l), board' = board, left' \in [Disturbances -> Nat]
  PROVE  StepGood
<1>1. /\ DOMAIN l = LoopFields /\ l.target = loop.target
      /\ l.since_restore \in 0 .. RESTORE_INTERVAL /\ RESTORE_INTERVAL \in Nat
  BY LoopShape, WatchAssumption DEF Same, WatchInv, LoopInv, Spaced
<1>2. Phase(l, "idle", "none") /\ l.connected /\ l.scan_at = Never /\ l.met /\ l.ever_connected
  <2>1. Phase(loop, "idle", NoTask.why)
    BY CallerIdle, NoTaskSound
  <2>2. Phase(l, "idle", NoTask.why)
    BY <2>1, SameKeeps
  <2>3. loop.connected
    BY DEF WatchInv, Sound, Phase
  <2>4. l.connected
    BY <2>3 DEF Same
  <2> QED
    BY <2>2, <2>4, NoTaskSound DEF Phase
<1>3. TargetOK(l.target) /\ Resets(l, board, dropped)
  BY SameKeeps DEF WatchInv, Sound
<1>4. CASE loop.target \in {None, Some(l.config)}
  <2>1. Finish(l)
    BY <1>4 DEF ConfigChanged
  <2>2. l.target = None \/ board.config \in l.target
    BY <1>1, <1>4 DEF None, Some
  <2>3. Pursues(l, board, "idle", NoTask, dropped)
    BY <2>2 DEF Pursues
  <2> QED
    BY <1>1, <1>2, <1>3, <2>1, <2>3, FinishGood
<1>5. CASE /\ loop.target \notin {None, Some(l.config)}
           /\ l.since_restore < RESTORE_INTERVAL
  <2> DEFINE wait == RESTORE_INTERVAL - l.since_restore
             m == [l EXCEPT !.restore_at = wait]
  <2>1. Finish(m)
    BY <1>5 DEF ConfigChanged
  <2>2. wait # Never
    BY <1>1 DEF Never
  <2> HIDE DEF wait
  <2>3. /\ DOMAIN m = LoopFields /\ m.target = l.target /\ m.restore_at = wait
        /\ m.settle_at = l.settle_at /\ m.scan_at = l.scan_at /\ m.untold = l.untold
        /\ (m.connected <=> l.connected) /\ (m.met <=> l.met)
        /\ (m.ever_connected <=> l.ever_connected)
    BY <1>1 DEF LoopFields
  <2> HIDE DEF m
  <2>4. Phase(m, "idle", "none")
    BY <1>2, <2>3 DEF Phase
  <2>5. TargetOK(m.target) /\ Resets(m, board, dropped)
    BY <1>3, <2>3 DEF Resets
  <2>6. Pursues(m, board, "idle", NoTask, dropped)
    BY <2>2, <2>3 DEF Pursues
  <2> QED
    BY <2>1, <2>3, <2>4, <2>5, <2>6, FinishGood
<1>6. CASE /\ loop.target \notin {None, Some(l.config)}
           /\ ~(l.since_restore < RESTORE_INTERVAL)
  <2>1. /\ loop' = StartRestore(l) /\ dropped' = dropped /\ at' = "config"
        /\ task' = [task EXCEPT !.why = "restore"]
    BY <1>6 DEF ConfigChanged, Steps
  <2>2. /\ task'.why = "restore" /\ TargetOK(task'.previous)
        /\ task'.id \in 0 .. 255
    BY <2>1, LoopShape DEF TaskFields, WatchInv, Sound
  <2> QED
    BY <1>2, <2>1, <2>2, StartRestoreGood
<1> QED
  BY <1>4, <1>5, <1>6

\* Reading the configuration.
LEMMA ReadConfigGood ==
  ASSUME WatchInv, ReadConfig
  PROVE  StepGood
<1> DEFINE found == board.config
           l == SetConfig(loop, found)
           same == loop.target \in {None, Some(found)}
<1>1. /\ Same(loop, loop) /\ Same(loop, l) /\ l.config = found
      /\ KeepsTimers(loop, l) /\ DOMAIN l = LoopFields
  BY LoopShape, HelpersKeepConnection, HelpersKeepTimers DEF Same
<1>2. at = "config" /\ loop.met
  BY DEF ReadConfig, WatchInv, Sound, Phase
<1>3. CASE Fails /\ TransferFailed("io")
  BY <1>3, FailsGood
<1>4. CASE left' = left /\
           CASE task.why = "changed" -> ConfigChanged(l) /\ UNCHANGED board
             [] task.why = "connect" ->
                  IF same THEN Connected(found, {}, FALSE, {}) /\ UNCHANGED board
                          ELSE SetTargetOver(loop, found)
             [] OTHER ->
                  IF same THEN Finish(l) /\ UNCHANGED board
                          ELSE SetTargetOver(l, found)
  <2> HIDE DEF l, same
  <2>1. left' \in [Disturbances -> Nat]
    BY <1>4, LoopShape
  <2>2. CASE task.why = "changed"
    <3>1. ConfigChanged(l) /\ board' = board
      BY <1>4, <2>2
    <3>2. l.since_restore = loop.since_restore
      BY <1>1 DEF KeepsTimers
    <3> QED
      BY <1>1, <1>2, <2>1, <2>2, <3>1, <3>2, ConfigChangedGood
  <2>3. CASE same /\ task.why = "connect"
    <3>1. Connected(found, {}, FALSE, {}) /\ board' = board
      BY <1>4, <2>3
    <3>2. loop.target = None \/ found \in loop.target
      BY <2>3 DEF same, Some
    <3>3. FALSE \in BOOLEAN
      OBVIOUS
    <3> QED
      BY <1>2, <2>1, <2>3, <3>1, <3>2, <3>3, ConnectedGood
  <2>4. CASE same /\ task.why \notin {"changed", "connect"}
    <3>1. Finish(l) /\ board' = board
      BY <1>4, <2>4
    <3>2. Phase(loop, "idle", NoTask.why)
      BY <2>4, CallerIdle, NoTaskSound
    <3>3. Phase(l, "idle", "none")
      BY <1>1, <3>2, SameKeeps, NoTaskSound
    <3>4. TargetOK(l.target) /\ Resets(l, board, dropped)
      BY <1>1, SameKeeps DEF WatchInv, Sound
    <3>5. l.target = None \/ board.config \in l.target
      BY <1>1, <2>4 DEF same, Some, Same
    <3>6. Pursues(l, board, "idle", NoTask, dropped)
      BY <3>5 DEF Pursues
    <3> QED
      BY <1>1, <2>1, <3>1, <3>3, <3>4, <3>6, FinishGood
  <2>5. CASE ~same /\ task.why # "changed"
    <3>1. SetTargetOver(loop, found) \/ SetTargetOver(l, found)
      BY <1>4, <2>5
    <3> QED
      BY <1>1, <1>2, <2>1, <2>5, <3>1, SetTargetOverGood DEF same
  <2> QED
    BY <2>2, <2>3, <2>4, <2>5
<1> QED
  BY <1>3, <1>4 DEF ReadConfig

\* The target while it is written.
LEMMA TargetInHand ==
  ASSUME WatchInv, at \in {"send", "verify"}
  PROVE  /\ TheTarget \in PinConfigs /\ loop.target = {TheTarget}
         /\ Suits(TheTarget, Available) /\ loop.met
         /\ task.why \in {"connect", "restore", "target"}
         /\ task.why # "connect" => loop.connected
         /\ task.why = "connect" => ~loop.connected
<1>1. /\ loop.target # {} /\ TargetOK(loop.target) /\ Suited(loop.target) /\ loop.met
      /\ task.why \in {"connect", "restore", "target"}
      /\ task.why # "connect" => loop.connected
      /\ task.why = "connect" => ~loop.connected
  BY DEF WatchInv, Sound, Phase, None
<1>2. TheTarget \in loop.target
  BY <1>1 DEF TheTarget
<1> QED
  BY <1>1, <1>2 DEF TargetOK, Suited

\* The board takes the target.
LEMMA TargetIsWritten ==
  ASSUME WatchInv, at = "send"
  PROVE  Written.config = TheTarget
<1> DEFINE p == EncodePinConfigSet(TheTarget, task.id)
<1>1. Bounded(board) /\ BoardOK(board) /\ task.id \in 0 .. 255
  BY DEF WatchInv, BoardInv, Sound
<1>2. TheTarget \in PinConfigs /\ Suits(TheTarget, Available)
  BY TargetInHand
<1>3. ValidatePinConfigPayload(p, Available).result = "OK"
  BY <1>1, <1>2, SuitsIsAccepted
<1>4. p.pins = TheTarget
  BY DEF EncodePinConfigSet, Encoded
<1> HIDE DEF p
<1>5. WriteConfig(board, p).config = p.pins
  BY <1>1, <1>3, WriteAnswers
<1> QED
  BY <1>4, <1>5 DEF Written, p

\* The write: a board that takes it tells of the change.
LEMMA SendGood ==
  ASSUME WatchInv, SendTarget
  PROVE  StepGood
<1>1. CASE Fails /\ TransferFailed("io")
  BY <1>1, FailsGood
<1>2. CASE /\ board' = Written /\ at' = "verify" /\ left' = left
           /\ dropped' = (dropped \/ board'.handles[Watch].gap > 0)
           /\ loop' = loop /\ \E x : task' = [task EXCEPT !.driven = x]
  <2>1. at = "send"
    BY DEF SendTarget
  <2>2. /\ TheTarget \in PinConfigs /\ loop.target = {TheTarget}
        /\ Suits(TheTarget, Available)
    BY <2>1, TargetInHand
  <2>3. Bounded(board) /\ BoardOK(board) /\ task.id \in 0 .. 255 /\ Watch \in Clients
    BY LoopShape DEF WatchInv, BoardInv, Sound
  <2>4. Evolves(board, board', {})
    BY <1>2, <2>2, <2>3, WriteEvolves DEF Written
  <2>5. board'.config = TheTarget
    BY <1>2, <2>1, TargetIsWritten
  <2>6. /\ loop'.target = loop.target /\ loop'.restore_at = loop.restore_at
        /\ loop'.settle_at = loop.settle_at /\ loop'.scan_at = loop.scan_at
        /\ (loop'.connected <=> loop.connected) /\ (loop'.met <=> loop.met)
        /\ (loop'.ever_connected <=> loop.ever_connected)
        /\ loop'.untold = loop.untold
        /\ task'.why = task.why /\ task'.previous = task.previous
        /\ task'.id = task.id
    BY <1>2, LoopShape DEF TaskFields
  <2>7. Phase(loop', at', task'.why)
    BY <1>2, <2>1, <2>6 DEF WatchInv, Sound, Phase
  <2>8. /\ board'.handles[Watch].gap \in Nat /\ (~dropped' => ~dropped)
        /\ board'.handles[Watch].gap # 0 => dropped'
    <3>1. board'.handles[Watch] \in Handles
      BY <2>3, <2>4, HandlesOf DEF Evolves
    <3>2. board'.handles[Watch].gap \in Nat
      BY <3>1 DEF Handles
    <3>3. dropped' <=> (dropped \/ board'.handles[Watch].gap > 0)
      BY <1>2, Zenon
    <3>4. board'.handles[Watch].gap # 0 => board'.handles[Watch].gap > 0
      BY <3>2
    <3> QED
      BY <3>2, <3>3, <3>4
  <2>9. BoardInv'
    BY <2>4, <2>8 DEF BoardInv, Evolves
  <2>10. Usable(board', Watch) =>
           /\ Usable(board, Watch)
           /\ Waiting(board.handles[Watch]) \subseteq Waiting(board'.handles[Watch])
    BY <2>3, <2>4 DEF Evolves, KeepsReports, Usable
  <2>11. Resets(loop', board', dropped')
    BY <2>6, <2>8, <2>10 DEF WatchInv, Sound, Resets
  <2>12. Sound'
    BY <1>2, <2>6, <2>7, <2>11 DEF WatchInv, Sound
  <2>13. ASSUME Pursuing
         PROVE  Pursues(loop', board', at', task', dropped')
    <3> SUFFICES ASSUME loop.connected, Usable(board', Watch), ~dropped'
                 PROVE  Announced(board')
      BY <1>2, <2>6 DEF Pursues
    <3>1. CASE Announced(board)
      BY <2>10, <3>1 DEF Announced
    <3>2. CASE ~Announced(board)
      <4>1. board.config \notin loop.target
        BY <2>1, <2>8, <2>10, <2>13, <3>2 DEF Pursuing, Pursues
      <4>2. board'.config # board.config
        BY <2>2, <2>5, <4>1
      <4>3. Tells(board', Watch, "CONFIG_CHANGED")
        BY <2>4, <2>8, <4>2 DEF Evolves
      <4> QED
        BY <4>3 DEF Tells, Announced
    <3> QED
      BY <3>1, <3>2
  <2> QED
    BY <2>9, <2>12, <2>13 DEF StepGood
<1> QED
  BY <1>1, <1>2 DEF SendTarget, GoTo

\* The readback: the target is in force, or a timer or a CONFIG_CHANGED that
\* waits takes the loop back to it.
LEMMA VerifyGood ==
  ASSUME WatchInv, VerifyTarget
  PROVE  StepGood
<1> DEFINE outcome == SetOutcome(PinConfigReport(board), task.id, TheTarget)
           later == [loop EXCEPT !.restore_at = RESTORE_INTERVAL]
           driven == DrivenOutputs(task.found, TheTarget)
           drove == [loop EXCEPT !.untold = loop.untold \cup task.driven]
           w == Wrote(drove, task.found, TheTarget)
<1>1. at = "verify" /\ task.driven \subseteq driven
  BY DEF VerifyTarget, WatchInv, Drives
<1>2. /\ loop.target = {TheTarget} /\ loop.met
      /\ task.why \in {"connect", "restore", "target"}
      /\ task.why # "connect" => loop.connected
      /\ task.why = "connect" => ~loop.connected
  BY <1>1, TargetInHand
<1>3. Pursuing /\ loop.connected /\ Usable(board, Watch) /\ ~dropped => Announced(board)
  BY <1>1 DEF Pursuing, Pursues
<1>4. /\ TargetOK(loop.target) /\ Resets(loop, board, dropped)
      /\ task.why # "connect" => Phase(loop, "idle", "none")
  BY CallerIdle DEF WatchInv, Sound
<1>5. CASE Fails /\ TransferFailed("io")
  BY <1>5, FailsGood
<1>6. CASE outcome = "ok" /\ left' = left /\ board' = board
           /\ IF task.why = "connect" THEN Connected(TheTarget, driven, TRUE, task.driven) ELSE Finish(w)
  <2>1. board.config = TheTarget
    BY <1>6 DEF SetOutcome, PinConfigReport
  <2>2. left' \in [Disturbances -> Nat]
    BY <1>6, LoopShape
  <2>3. CASE task.why = "connect"
    <3>1. Connected(TheTarget, driven, TRUE, task.driven) /\ board' = board
      BY <1>6, <2>3
    <3>2. loop.target = None \/ TheTarget \in loop.target
      BY <1>2
    <3>3. TRUE \in BOOLEAN
      OBVIOUS
    <3> DEFINE drawn == task.driven
    <3>4. drawn \subseteq driven /\ TheTarget = board.config /\ loop.met
      BY <1>1, <1>2, <2>1
    <3>5. Connected(TheTarget, driven, TRUE, drawn) /\ board' = board
      BY <3>1
    <3> HIDE DEF driven, drawn
    <3> QED
      BY <2>2, <2>3, <3>2, <3>3, <3>4, <3>5, ConnectedGood
  <2>4. CASE task.why # "connect"
    <3> DEFINE c == SetConfig(drove, TheTarget)
               e == [c EXCEPT !.awaiting_config = TRUE, !.settle_at = SETTLE_TIMEOUT]
    <3> HIDE DEF driven
    <3>0. /\ DOMAIN drove = LoopFields /\ drove.target = loop.target
          /\ drove.restore_at = loop.restore_at /\ drove.scan_at = loop.scan_at
          /\ drove.untold \subseteq loop.untold \cup driven
          /\ (drove.connected <=> loop.connected) /\ (drove.met <=> loop.met)
          /\ (drove.ever_connected <=> loop.ever_connected)
      BY <1>1, LoopShape DEF LoopFields
    <3> HIDE DEF drove
    <3>1. Same(drove, c) /\ DOMAIN c = LoopFields
      BY <3>0, HelpersKeepConnection DEF Same
    <3> HIDE DEF c
    <3>2. /\ DOMAIN e = LoopFields /\ e.target = c.target /\ e.restore_at = c.restore_at
          /\ e.scan_at = c.scan_at /\ e.untold = c.untold
          /\ (e.connected <=> c.connected) /\ (e.met <=> c.met)
          /\ (e.ever_connected <=> c.ever_connected)
      BY <3>1 DEF LoopFields
    <3>3. w = TellReset(e, driven)
      BY DEF Wrote, c, driven
    <3> HIDE DEF e, w
    <3>4. Same(e, w) /\ w.untold = e.untold \ driven
      <4>1. Same(e, w)
        BY <3>2, <3>3, HelpersKeepConnection
      <4>2. w.untold = e.untold \ driven
        BY <3>2, <3>3 DEF TellReset, LoopFields
      <4> QED
        BY <4>1, <4>2
    <3>5. /\ DOMAIN w = LoopFields /\ w.target = loop.target /\ w.connected /\ w.met
          /\ w.ever_connected /\ w.scan_at = loop.scan_at /\ w.untold \subseteq loop.untold
      BY <1>2, <1>4, <2>4, <3>0, <3>1, <3>2, <3>4 DEF Same, Phase
    <3>6. Phase(w, "idle", "none")
      BY <1>2, <1>4, <2>4, <3>5 DEF Phase
    <3>7. TargetOK(w.target) /\ Resets(w, board, dropped)
      BY <1>2, <1>4, <2>4, <3>5 DEF Resets
    <3>8. Pursues(w, board, "idle", NoTask, dropped)
      BY <1>2, <2>1, <3>5 DEF Pursues
    <3>9. Finish(w) /\ board' = board
      BY <1>6, <2>4
    <3> QED
      BY <2>2, <3>5, <3>6, <3>7, <3>8, <3>9, FinishGood
  <2> QED
    BY <2>3, <2>4
<1>7. CASE left' = left /\ (Rejected \/ TransferFailed("mismatch"))
  <2>1. left' \in [Disturbances -> Nat]
    BY <1>7, LoopShape
  <2>2. Pursuing => Pursues(loop, board, "idle", NoTask, dropped)
    BY <1>3 DEF Pursues
  <2> QED
    BY <1>3, <1>7, <2>1, <2>2, RejectedGood, TransferFailedGood
<1>8. CASE task.why # "connect" /\ Finish(later) /\ board' = board /\ left' = left
  <2>1. /\ DOMAIN later = LoopFields /\ later.target = loop.target
        /\ later.restore_at = RESTORE_INTERVAL /\ later.settle_at = loop.settle_at
        /\ later.scan_at = loop.scan_at /\ later.untold = loop.untold
        /\ (later.connected <=> loop.connected) /\ (later.met <=> loop.met)
        /\ (later.ever_connected <=> loop.ever_connected)
    BY LoopShape DEF LoopFields
  <2> HIDE DEF later
  <2>2. RESTORE_INTERVAL # Never
    BY WatchAssumption DEF Never
  <2>3. Phase(later, "idle", "none")
    BY <1>2, <1>4, <1>8, <2>1 DEF Phase
  <2>4. TargetOK(later.target) /\ Resets(later, board, dropped)
    BY <1>4, <2>1 DEF Resets
  <2>5. Pursues(later, board, "idle", NoTask, dropped)
    BY <2>1, <2>2 DEF Pursues
  <2>6. left' \in [Disturbances -> Nat]
    BY <1>8, LoopShape
  <2> QED
    BY <1>8, <2>1, <2>3, <2>4, <2>5, <2>6, FinishGood
<1>9. CASE task.why = "connect" /\ Attempt("conflict") /\ left' = left
  BY <1>2, <1>9, LoopShape, EndsGood
<1>10. outcome \in {"ok", "rejected", "conflict", "mismatch"}
  BY DEF SetOutcome
<1>11. \/ Fails /\ TransferFailed("io")
       \/ left' = left /\
          CASE outcome = "ok" /\ task.why = "connect" ->
                 Connected(TheTarget, driven, TRUE, task.driven) /\ UNCHANGED board
            [] outcome = "ok" /\ task.why # "connect" ->
                 Finish(w) /\ UNCHANGED board
            [] outcome = "rejected" -> Rejected
            [] outcome = "conflict" /\ task.why # "connect" ->
                 Finish(later) /\ UNCHANGED board
            [] outcome = "conflict" /\ task.why = "connect" ->
                 Attempt("conflict")
            [] outcome = "mismatch" -> TransferFailed("mismatch")
  BY Zenon DEF VerifyTarget
<1> HIDE DEF outcome, w, later, driven, drove
<1> QED
  BY <1>5, <1>6, <1>7, <1>8, <1>9, <1>10, <1>11

-----------------------------------------------------------------------------
(***************************************************************************)
(* Timers, requests and reports                                            *)
(***************************************************************************)

\* The timers that are due, and snapshots.
LEMMA TimersGood ==
  ASSUME WatchInv, RestoreDue \/ SettleDue \/ TakeSnapshot
  PROVE  StepGood
<1>1. CASE RestoreDue
  <2>1. /\ loop' = StartRestore(loop) /\ dropped' = dropped /\ at' = "config"
        /\ board' = board /\ left' = left
        /\ task' = [NoTask EXCEPT !.why = "restore"]
    BY <1>1 DEF RestoreDue, Steps, GoTo
  <2>2. loop.connected /\ at = "idle" /\ Phase(loop, "idle", "none")
    <3>1. loop.restore_at # Never /\ at = "idle"
      BY <1>1 DEF RestoreDue, Due, Never
    <3> QED
      BY <3>1 DEF WatchInv, Sound, Phase
  <2>3. Same(loop, loop) /\ left' \in [Disturbances -> Nat]
    BY <2>1, LoopShape, HelpersKeepConnection
  <2>4. task'.why = "restore" /\ TargetOK(task'.previous) /\ task'.id \in 0 .. 255
    BY <2>1 DEF NoTask, TargetOK, None
  <2> QED
    BY <2>1, <2>2, <2>3, <2>4, StartRestoreGood
<1>2. CASE SettleDue
  <2>1. /\ loop' = [loop EXCEPT !.settle_at = Never, !.awaiting_config = FALSE]
        /\ dropped' = dropped /\ at' = "snapshot" /\ board' = board /\ task' = task
        /\ left' = left
    BY <1>2 DEF SettleDue, Steps, GoTo
  <2>2. loop.connected /\ at = "idle" /\ task.why = "none"
    <3>1. loop.settle_at # Never /\ at = "idle"
      BY <1>2 DEF SettleDue, Due, Never
    <3> QED
      BY <3>1 DEF WatchInv, Sound, Phase
  <2>3. Same(loop, loop')
    BY <2>1, LoopShape, HelpersKeepConnection
  <2>4. /\ Phase(loop', at, task.why) /\ TargetOK(loop'.target)
        /\ Resets(loop', board, dropped)
        /\ Pursuing => Pursues(loop', board, at, task, dropped)
    BY <2>3, SameKeeps DEF WatchInv, Sound, Pursuing
  <2>5. loop'.connected
    BY <2>2, <2>3 DEF Same
  <2>6. Phase(loop', at', task'.why)
    BY <2>1, <2>2, <2>4, <2>5 DEF Phase
  <2>7. Pursuing => Pursues(loop', board', at', task', dropped')
    BY <2>1, <2>2, <2>4 DEF Pursues
  <2>8. BoardInv'
    BY <2>1 DEF WatchInv, BoardInv
  <2>9. Sound'
    BY <2>1, <2>4, <2>6 DEF WatchInv, Sound
  <2> QED
    BY <2>7, <2>8, <2>9 DEF StepGood
<1>3. CASE TakeSnapshot
  <2>1. CASE Fails /\ Disconnect
    BY <2>1, FailsUses, EndsGood
  <2> DEFINE report == StatusNow(board)
             seq == SnapshotSeq(report)
             blind == loop.blind \/ (report.seq = 0 /\ Reports # <<>>)
             l == [loop EXCEPT !.snapshot_seq = seq, !.blind = blind]
             n == Noticed(l, report)
             u == Used(n, report, FALSE)
  <2>2. CASE Finish(u) /\ board' = board /\ left' = left
    <3> HIDE DEF seq, blind, report
    <3>1. /\ DOMAIN l = LoopFields /\ l.target = loop.target
          /\ l.restore_at = loop.restore_at /\ l.settle_at = loop.settle_at
          /\ l.scan_at = loop.scan_at /\ l.untold = loop.untold
          /\ (l.connected <=> loop.connected) /\ (l.met <=> loop.met)
          /\ (l.ever_connected <=> loop.ever_connected)
      BY LoopShape DEF LoopFields
    <3> HIDE DEF l
    <3>2. Same(loop, l) /\ Same(l, n) /\ DOMAIN n = LoopFields
      BY LoopShape, <3>1, ReportsKeepConnection DEF Same
    <3> HIDE DEF n
    <3>3. Same(n, u) /\ DOMAIN u = LoopFields
      <4>1. Same(n, u)
        BY <3>2, ReportsKeepConnection
      <4> HIDE DEF u
      <4> QED
        BY <3>2, <4>1 DEF Same
    <3> HIDE DEF u
    <3>4. Same(loop, u)
      BY <3>2, <3>3, SameTransitive
    <3>5. at = "snapshot" /\ task.why = "none"
      BY <1>3 DEF TakeSnapshot, WatchInv, Sound, Phase
    <3>6. /\ Phase(loop, "idle", NoTask.why) /\ TargetOK(loop.target)
          /\ Resets(loop, board, dropped)
          /\ Pursuing => Pursues(loop, board, "idle", NoTask, dropped)
      <4>1. Phase(loop, "idle", NoTask.why)
        BY <3>5, CallerIdle, NoTaskSound
      <4>2. Pursuing => Pursues(loop, board, "idle", NoTask, dropped)
        BY <3>5 DEF Pursuing, Pursues
      <4> QED
        BY <4>1, <4>2 DEF WatchInv, Sound
    <3>7. /\ Phase(u, "idle", "none") /\ TargetOK(u.target)
          /\ Resets(u, board, dropped)
          /\ Pursuing => Pursues(u, board, "idle", NoTask, dropped)
      <4>1. Phase(u, "idle", NoTask.why)
        BY <3>4, <3>6, SameKeeps
      <4>2. /\ TargetOK(u.target) /\ Resets(u, board, dropped)
            /\ Pursuing => Pursues(u, board, "idle", NoTask, dropped)
        BY <3>4, <3>6, SameKeeps
      <4> QED
        BY <4>1, <4>2, NoTaskSound
    <3> QED
      BY <2>2, <3>3, <3>7, LoopShape, FinishGood
  <2> QED
    BY <1>3, <2>1, <2>2 DEF TakeSnapshot
<1> QED
  BY <1>1, <1>2, <1>3

\* Reading a report: one that tells of a reset or of a configuration is gone
\* from the queue, and what it tells is known.
LEMMA ReadReportGood ==
  ASSUME WatchInv, ReadReport
  PROVE  StepGood
<1> DEFINE report == Head(Reports)
           stale == IsStale(loop, report)
           l == Noticed(loop, report)
           b == [board EXCEPT !.handles[Watch].reports = Tail(@)]
<1>1. at = "idle" /\ loop.connected /\ task.why = "none"
  BY DEF ReadReport, WatchInv, Sound, Phase
<1>2. CASE left' = left /\ Disconnect
  BY <1>2, LoopShape, EndsGood
<1>3. CASE /\ Usable(board, Watch) /\ Reports # <<>> /\ board' = b /\ left' = left
           /\ IF "CONFIG_CHANGED" \in report.reason
              THEN /\ Steps(l) /\ GoTo("config")
                   /\ task' = [NoTask EXCEPT !.why = "changed",
                                 !.report = Some(report), !.stale = stale]
              ELSE Finish(Used(l, report, stale))
  <2>1. /\ Bounded(board) /\ BoardOK(board) /\ Watch \in Clients
        /\ board.handles[Watch].gap # 0 => dropped
    BY LoopShape DEF WatchInv, BoardInv
  <2>2. BoardOK(b)
    <3>1. \A x : BoardOK([board EXCEPT !.handles[Watch].reports = x])
      BY <2>1, HandleSteps
    <3> QED
      BY <3>1, Zenon
  <2>3. /\ Bounded(b) /\ b.config = board.config
        /\ b.handles[Watch].gap = board.handles[Watch].gap
        /\ Waiting(board.handles[Watch]) \subseteq Waiting(b.handles[Watch]) \cup {report}
    <3>1. board.handles[Watch].reports # <<>>
      BY <1>3 DEF Reports
    <3>2. /\ Bounded(b) /\ b.config = board.config
          /\ b.handles[Watch].gap = board.handles[Watch].gap
          /\ Waiting(board.handles[Watch])
               \subseteq Waiting(b.handles[Watch]) \cup {Head(board.handles[Watch].reports)}
      BY <2>1, <3>1, ReadTakes, Zenon
    <3>3. report = Head(board.handles[Watch].reports)
      BY DEF Reports
    <3> HIDE DEF b, report
    <3> QED
      BY <3>2, <3>3
  <2> HIDE DEF b, report, stale
  <2>4. /\ Same(loop, l) /\ DOMAIN l = LoopFields
        /\ "OUTPUT_RESET" \in report.reason => l.untold = loop.untold \ report.outputs
    <3>1. DOMAIN loop = LoopFields
      BY LoopShape
    <3>2. /\ Same(loop, Noticed(loop, report))
          /\ "OUTPUT_RESET" \in report.reason =>
               Noticed(loop, report).untold = loop.untold \ report.outputs
      BY <3>1, ReportsKeepConnection, Zenon
    <3>3. DOMAIN l = DOMAIN loop
      BY <3>2 DEF Same
    <3> QED
      BY <3>1, <3>2, <3>3
  <2> HIDE DEF l
  <2>5. Resets(l, b, dropped)
    <3>1. Resets(loop, board, dropped) /\ l.untold \subseteq loop.untold
      BY <2>4 DEF WatchInv, Sound, Same
    <3>2. ~dropped => \A n \in l.untold : \E r \in Waiting(b.handles[Watch]) :
                        "OUTPUT_RESET" \in r.reason /\ n \in r.outputs
      <4> SUFFICES ASSUME ~dropped, NEW n \in l.untold
                   PROVE  \E r \in Waiting(b.handles[Watch]) :
                            "OUTPUT_RESET" \in r.reason /\ n \in r.outputs
        OBVIOUS
      <4>1. PICK r \in Waiting(board.handles[Watch]) :
              "OUTPUT_RESET" \in r.reason /\ n \in r.outputs
        BY <1>1, <1>3, <3>1 DEF Resets
      <4>2. r # report
        BY <2>4, <4>1
      <4> QED
        BY <2>3, <4>1, <4>2
    <3>3. ~l.ever_connected => l.untold = {}
      BY <2>4, <3>1 DEF Resets, Same
    <3> QED
      BY <2>3, <3>1, <3>2, <3>3 DEF Resets
  <2>6. TargetOK(l.target) /\ Phase(l, "idle", "none") /\ l.connected
    <3>1. Phase(loop, "idle", NoTask.why)
      BY <1>1, CallerIdle, NoTaskSound
    <3>2. Phase(l, "idle", NoTask.why) /\ TargetOK(l.target)
      BY <2>4, <3>1, SameKeeps DEF WatchInv, Sound
    <3> QED
      BY <1>1, <2>4, <3>2, NoTaskSound DEF Same
  <2>7. CASE "CONFIG_CHANGED" \in report.reason
    <3>1. /\ loop' = l /\ dropped' = dropped /\ at' = "config"
          /\ task' = [NoTask EXCEPT !.why = "changed",
                        !.report = Some(report), !.stale = stale]
      BY <1>3, <2>7 DEF Steps, GoTo
    <3>2. task'.why = "changed" /\ TargetOK(task'.previous) /\ task'.id \in 0 .. 255
      <4>1. task'.why = "changed" /\ task'.previous = NoTask.previous /\ task'.id = NoTask.id
        BY <3>1 DEF NoTask
      <4> QED
        BY <4>1, NoTaskSound
    <3>3. Phase(loop', at', task'.why)
      BY <2>6, <3>1, <3>2 DEF Phase
    <3>4. Pursues(loop', board', at', task', dropped')
      BY <3>1 DEF Pursues
    <3>5. BoardInv'
      BY <1>3, <2>1, <2>2, <2>3, <3>1 DEF BoardInv
    <3>6. Sound'
      BY <1>3, <2>5, <2>6, <3>1, <3>2, <3>3 DEF WatchInv, Sound
    <3> QED
      BY <3>4, <3>5, <3>6 DEF StepGood
  <2>8. CASE "CONFIG_CHANGED" \notin report.reason
    <3> DEFINE u == Used(l, report, stale)
    <3>1. Finish(u) /\ board' = b
      BY <1>3, <2>8
    <3>2. Same(l, u) /\ DOMAIN u = LoopFields
      BY <2>4, ReportsKeepConnection DEF Same
    <3> HIDE DEF u
    <3>3. Pursuing => Pursues(loop, b, "idle", NoTask, dropped)
      <4> SUFFICES ASSUME Pursuing, loop.connected, ~dropped, loop.target # None,
                          b.config \notin loop.target
                   PROVE  loop.restore_at # Never \/ Announced(b)
        BY DEF Pursues
      <4>1. loop.restore_at # Never \/ Announced(board)
        BY <1>1, <1>3, <2>3 DEF Pursuing, Pursues
      <4>2. Announced(board) => Announced(b)
        BY <2>3, <2>8 DEF Announced
      <4> QED
        BY <4>1, <4>2
    <3>4. Pursuing => Pursues(u, b, "idle", NoTask, dropped)
      <4>1. Same(loop, u)
        BY <2>4, <3>2, SameTransitive
      <4> QED
        BY <3>3, <4>1, SameKeeps
    <3>5. Phase(u, "idle", "none")
      <4>1. Phase(u, "idle", NoTask.why)
        BY <2>6, <3>2, SameKeeps, NoTaskSound
      <4> QED
        BY <4>1, NoTaskSound
    <3>6. TargetOK(u.target) /\ Resets(u, b, dropped)
      BY <2>5, <2>6, <3>2, SameKeeps
    <3>7. left' \in [Disturbances -> Nat]
      BY <1>3, LoopShape
    <3> QED
      BY <2>1, <2>2, <2>3, <3>1, <3>2, <3>4, <3>5, <3>6, <3>7, FinishOver
  <2> QED
    BY <2>7, <2>8
<1> QED
  BY <1>2, <1>3 DEF ReadReport

-----------------------------------------------------------------------------
(***************************************************************************)
(* The application, the board and time                                     *)
(***************************************************************************)

\* set_target_pins: a new target, which a connected loop writes at once.
LEMMA SetTargetGood ==
  ASSUME WatchInv, SetTarget
  PROVE  StepGood
<1>1. PICK config \in Targets :
        /\ loop.met => Suits(config, Available)
        /\ loop' = [loop EXCEPT !.target = Some(config),
                                !.restore_at = IF loop.connected THEN Never ELSE loop.restore_at]
        /\ dropped' = dropped /\ board' = board
        /\ IF loop.connected
           THEN /\ at' = "config"
                /\ task' = [NoTask EXCEPT !.why = "target", !.previous = loop.target]
           ELSE at' = at /\ task' = task
  BY DEF SetTarget, Steps, GoTo
<1>2. at = "idle" /\ task.why = "none"
  BY DEF SetTarget, WatchInv, Sound, Phase
<1>3. left' \in [Disturbances -> Nat]
  <2>1. left.target \in Nat /\ left.target > 0 /\ "target" \in Disturbances
    BY LoopShape DEF SetTarget, Disturbances
  <2>2. left.target - 1 \in Nat
    BY <2>1
  <2> QED
    BY <2>1, <2>2, LoopShape DEF SetTarget
<1>4. /\ loop'.target = Some(config) /\ loop'.settle_at = loop.settle_at
      /\ loop'.restore_at = (IF loop.connected THEN Never ELSE loop.restore_at)
      /\ loop'.scan_at = loop.scan_at /\ loop'.untold = loop.untold
      /\ (loop'.connected <=> loop.connected) /\ (loop'.met <=> loop.met)
      /\ (loop'.ever_connected <=> loop.ever_connected)
  <2> DEFINE timer == IF loop.connected THEN Never ELSE loop.restore_at
  <2>1. loop' = [loop EXCEPT !.target = Some(config), !.restore_at = timer]
    BY <1>1
  <2> HIDE DEF timer
  <2>2. /\ loop'.target = Some(config) /\ loop'.settle_at = loop.settle_at
        /\ loop'.restore_at = timer
        /\ loop'.scan_at = loop.scan_at /\ loop'.untold = loop.untold
        /\ (loop'.connected <=> loop.connected) /\ (loop'.met <=> loop.met)
        /\ (loop'.ever_connected <=> loop.ever_connected)
    BY <2>1, LoopShape DEF LoopFields
  <2> QED
    BY <2>2 DEF timer
<1>5. TargetOK(loop'.target) /\ (loop.met => Suited(loop'.target))
  BY <1>1, <1>4, WatchAssumption DEF TargetOK, Suited, Some
<1>6. Resets(loop', board', dropped')
  BY <1>1, <1>4 DEF WatchInv, Sound, Resets
<1>7. BoardInv'
  BY <1>1 DEF WatchInv, BoardInv
<1>8. Phase(loop, "idle", "none") /\ TargetOK(loop.target)
  BY <1>2 DEF WatchInv, Sound
<1>9. CASE loop.connected
  <2>1. /\ at' = "config" /\ task'.why = "target" /\ task'.previous = loop.target
        /\ task'.id \in 0 .. 255
    <3>1. /\ at' = "config"
          /\ task' = [NoTask EXCEPT !.why = "target", !.previous = loop.target]
      BY <1>1, <1>9, Zenon
    <3> QED
      BY <3>1 DEF NoTask
  <2>2. Phase(loop', at', task'.why)
    BY <1>4, <1>5, <1>8, <1>9, <2>1 DEF Phase
  <2>3. Pursues(loop', board', at', task', dropped')
    BY <2>1 DEF Pursues
  <2>4. Sound'
    BY <1>3, <1>5, <1>6, <1>8, <2>1, <2>2 DEF Sound
  <2> QED
    BY <1>7, <2>3, <2>4 DEF StepGood
<1>10. CASE ~loop.connected
  <2>1. at' = at /\ task' = task
    BY <1>1, <1>10
  <2>2. Phase(loop', at', task'.why)
    BY <1>2, <1>4, <1>8, <1>10, <2>1 DEF Phase
  <2>3. Pursues(loop', board', at', task', dropped')
    BY <1>4, <1>10 DEF Pursues
  <2>4. Sound'
    BY <1>3, <1>5, <1>6, <2>1, <2>2 DEF WatchInv, Sound
  <2> QED
    BY <1>7, <2>3, <2>4 DEF StepGood
<1> QED
  BY <1>9, <1>10

\* An operation of the board while the loop stays where it is.
LEMMA EvolvedGood ==
  ASSUME WatchInv, NEW reset, Evolves(board, board', reset),
         loop'.target = loop.target, loop'.restore_at = loop.restore_at,
         loop'.settle_at = loop.settle_at, loop'.scan_at = loop.scan_at,
         loop'.connected <=> loop.connected, loop'.met <=> loop.met,
         loop'.ever_connected <=> loop.ever_connected,
         loop'.untold \subseteq (loop.untold \cup IF loop.ever_connected THEN reset ELSE {}),
         dropped' <=> (dropped \/ board'.handles[Watch].gap > 0),
         at' = at, task' = task, left' \in [Disturbances -> Nat]
  PROVE  StepGood
<1>1. /\ board'.handles[Watch].gap \in Nat
      /\ board'.handles[Watch].gap # 0 => dropped'
      /\ ~dropped' => ~dropped /\ board'.handles[Watch].gap = 0
  <2>1. board'.handles[Watch] \in Handles
    BY LoopShape, HandlesOf DEF Evolves
  <2>2. board'.handles[Watch].gap \in Nat
    BY <2>1 DEF Handles
  <2>3. board'.handles[Watch].gap # 0 <=> board'.handles[Watch].gap > 0
    BY <2>2
  <2> QED
    BY <2>2, <2>3
<1>2. BoardInv'
  BY <1>1 DEF BoardInv, Evolves
<1>3. Usable(board', Watch) =>
        /\ Usable(board, Watch)
        /\ Waiting(board.handles[Watch]) \subseteq Waiting(board'.handles[Watch])
  BY LoopShape DEF Evolves, KeepsReports, Usable
<1>4. Phase(loop', at', task'.why)
  BY DEF WatchInv, Sound, Phase
<1>5. Resets(loop', board', dropped')
  <2>1. Resets(loop, board, dropped)
    BY DEF WatchInv, Sound
  <2>2. ASSUME loop'.connected, Usable(board', Watch), ~dropped', NEW n \in loop'.untold
        PROVE  \E r \in Waiting(board'.handles[Watch]) :
                 "OUTPUT_RESET" \in r.reason /\ n \in r.outputs
    <3>1. CASE n \in loop.untold
      BY <1>1, <1>3, <2>1, <2>2, <3>1 DEF Resets
    <3>2. CASE n \in reset
      <4>1. Tells(board', Watch, "OUTPUT_RESET") /\ reset = OutputsMask(board'.config)
        BY <1>1, <2>2, <3>2 DEF Evolves
      <4> QED
        BY <3>2, <4>1 DEF Tells
    <3> QED
      BY <2>2, <3>1, <3>2
  <2>3. ~loop'.ever_connected => loop'.untold = {}
    BY <2>1 DEF Resets
  <2> QED
    BY <2>2, <2>3 DEF Resets
<1>6. Sound'
  BY <1>4, <1>5 DEF WatchInv, Sound
<1>7. ASSUME Pursuing
      PROVE  Pursues(loop', board', at', task', dropped')
  <2> SUFFICES ASSUME loop.connected, Usable(board', Watch), ~dropped', ~Announced(board')
               PROVE  Pursues(loop', board', at', task', dropped')
    BY DEF Pursues
  <2>1. ~Announced(board)
    BY <1>3 DEF Announced
  <2>2. board'.config = board.config
    BY <1>1 DEF Evolves, Tells, Announced
  <2>3. Pursues(loop, board, at, task, dropped) /\ Usable(board, Watch) /\ ~dropped
    BY <1>1, <1>3, <1>7 DEF Pursuing
  <2> QED
    BY <2>1, <2>2, <2>3 DEF Pursues
<1> QED
  BY <1>2, <1>6, <1>7 DEF StepGood

\* What happens around the thread, and what the application writes.
LEMMA AroundGood ==
  ASSUME WatchInv, World \/ PlugIn \/ SetOutputs \/ Heartbeat
  PROVE  StepGood
<1>1. Bounded(board) /\ BoardOK(board) /\ BoardInv
  BY DEF WatchInv, BoardInv
<1>2. CASE World \/ PlugIn
  <2>1. PICK kind, b, reset : Happens(kind, b, reset) /\ Evolves(board, b, reset)
    BY <1>1, <1>2, WorldEvolves
  <2> DEFINE new == IF loop.ever_connected THEN reset ELSE {}
             untold == loop.untold \cup new
  <2>2. /\ board' = b /\ at' = at /\ task' = task
        /\ loop' = [loop EXCEPT !.untold = untold]
        /\ left[kind] > 0 /\ left' = [left EXCEPT ![kind] = left[kind] - 1]
    BY <2>1 DEF Happens
  <2>3. dropped' <=> (dropped \/ b.handles[Watch].gap > 0)
    BY <2>1 DEF Happens
  <2>4. left' \in [Disturbances -> Nat]
    <3>1. CASE kind \in Disturbances
      <4>1. left[kind] \in Nat /\ left[kind] - 1 \in Nat
        BY <2>2, <3>1, LoopShape
      <4> QED
        BY <2>2, <4>1, LoopShape
    <3>2. CASE kind \notin Disturbances
      BY <2>2, <3>2, LoopShape
    <3> QED
      BY <3>1, <3>2
  <2>5. untold \subseteq loop.untold \cup new
    OBVIOUS
  <2> HIDE DEF untold
  <2>6. /\ loop'.target = loop.target /\ loop'.restore_at = loop.restore_at
        /\ loop'.settle_at = loop.settle_at /\ loop'.scan_at = loop.scan_at
        /\ (loop'.connected <=> loop.connected) /\ (loop'.met <=> loop.met)
        /\ (loop'.ever_connected <=> loop.ever_connected)
        /\ loop'.untold = untold
    BY <2>2, LoopShape DEF LoopFields
  <2> QED
    BY <2>1, <2>2, <2>3, <2>4, <2>5, <2>6, EvolvedGood
<1>3. ASSUME Evolves(board, board', {}), board'.config = board.config, loop' = loop,
             dropped' <=> (dropped \/ board'.handles[Watch].gap > 0),
             at' = at, task' = task, left' \in [Disturbances -> Nat]
      PROVE  StepGood
  <2>1. loop'.untold \subseteq (loop.untold \cup IF loop.ever_connected THEN {} ELSE {})
    BY <1>3
  <2> QED
    BY <1>3, <2>1, EvolvedGood
<1>4. CASE SetOutputs
  <2>1. Evolves(board, board', {}) /\ board'.config = board.config
    BY <1>1, <1>4, OperationsEvolve DEF SetOutputs
  <2>2. dropped' <=> (dropped \/ board'.handles[Watch].gap > 0)
    BY <1>4 DEF SetOutputs
  <2>3. left' \in [Disturbances -> Nat]
    <3>1. left.outputs \in Nat /\ left.outputs > 0 /\ "outputs" \in Disturbances
      BY <1>4, LoopShape DEF SetOutputs, Disturbances
    <3>2. left.outputs - 1 \in Nat
      BY <3>1
    <3> QED
      BY <1>4, <3>1, <3>2, LoopShape DEF SetOutputs
  <2> QED
    BY <1>3, <1>4, <2>1, <2>2, <2>3 DEF SetOutputs
<1>5. CASE Heartbeat
  <2>1. /\ board' = Periodic(board) /\ Reports = <<>> /\ dropped' = dropped
        /\ Usable(board, Watch)
    BY <1>5 DEF Heartbeat
  <2>2. Evolves(board, board', {}) /\ board'.config = board.config
    BY <1>1, <2>1, OperationsEvolve
  <2>3. board'.handles[Watch].gap = 0
    <3>1. "PERIODIC" \in Reasons
      BY DEF Reasons
    <3>2. /\ Periodic(board).handles[Watch].state = "open" =>
               Periodic(board).handles[Watch].gap = 0
      BY <1>1, <2>1, <3>1, LoopShape, SendTells, EventLists DEF Periodic, Reports
    <3>3. Periodic(board).handles[Watch].state = "open"
      <4>1. Periodic(board).handles[Watch] =
              Queued(board.handles[Watch],
                     Status(board, {"PERIODIC"}, <<>>, board.next_seq,
                            IF board.overflow THEN {"OVERFLOW"} ELSE {}, 0))
        BY <1>1, LoopShape, HandlesOf DEF Periodic, Send, Boards
      <4>2. DOMAIN board.handles[Watch] = HandleFields
        BY <1>1, LoopShape DEF BoardOK
      <4>3. Periodic(board).handles[Watch].state = board.handles[Watch].state
        BY <4>1, <4>2, QueuedKeeps
      <4> QED
        BY <2>1, <4>3 DEF Usable
    <3> QED
      BY <2>1, <3>2, <3>3
  <2>4. dropped' <=> (dropped \/ board'.handles[Watch].gap > 0)
    BY <2>1, <2>3
  <2> QED
    BY <1>3, <1>5, <2>2, <2>4, LoopShape DEF Heartbeat
<1> QED
  BY <1>2, <1>4, <1>5

\* A tick sets no timer, and unsets none.
LEMMA TickGood ==
  ASSUME WatchInv, Tick
  PROVE  StepGood
<1> DEFINE since == IF loop.since_restore < RESTORE_INTERVAL
                    THEN loop.since_restore + 1 ELSE loop.since_restore
           scan == Later(loop.scan_at)
           restore == Later(loop.restore_at)
           settle == Later(loop.settle_at)
<1>1. /\ loop' = [loop EXCEPT !.scan_at = scan, !.restore_at = restore,
                              !.settle_at = settle, !.since_restore = since]
      /\ board' = board /\ at' = at /\ task' = task /\ left' = left
      /\ dropped' = dropped
  BY DEF Tick
<1>2. /\ loop.scan_at = Never => scan = Never
      /\ loop.settle_at = Never => settle = Never
      /\ restore = Never <=> loop.restore_at = Never
  <2>1. loop.restore_at = Never \/ loop.restore_at \in Nat
    BY DEF WatchInv, LoopInv, Spaced
  <2> QED
    BY <2>1 DEF Later, Never
<1> HIDE DEF since, scan, restore, settle
<1>3. /\ loop'.target = loop.target /\ loop'.untold = loop.untold
      /\ loop'.scan_at = scan /\ loop'.restore_at = restore /\ loop'.settle_at = settle
      /\ (loop'.connected <=> loop.connected) /\ (loop'.met <=> loop.met)
      /\ (loop'.ever_connected <=> loop.ever_connected)
  BY <1>1, LoopShape DEF LoopFields
<1>4. Phase(loop', at', task'.why)
  BY <1>1, <1>2, <1>3 DEF WatchInv, Sound, Phase
<1>5. Resets(loop', board', dropped')
  BY <1>1, <1>3 DEF WatchInv, Sound, Resets
<1>6. Pursuing => Pursues(loop', board', at', task', dropped')
  BY <1>1, <1>2, <1>3 DEF Pursuing, Pursues
<1>7. BoardInv'
  BY <1>1 DEF WatchInv, BoardInv
<1>8. Sound'
  BY <1>1, <1>3, <1>4, <1>5 DEF WatchInv, Sound
<1> QED
  BY <1>6, <1>7, <1>8 DEF StepGood

\* The transfers and the other steps of the thread but one do not lead to a
\* readback.
LEMMA EndsElsewhere ==
  /\ \A l : Finish(l) \/ FinishClosed(l) => at' = "idle"
  /\ Stop => at' = "stopped"
  /\ \A cause : Attempt(cause) \/ TransferFailed(cause) => at' = "idle"
  /\ Disconnect => at' = "idle"
  /\ Rejected => at' \in {"idle", "stopped"}
  /\ \A l, found : SetTargetOver(l, found) => at' \in {"idle", "stopped", "send"}
  /\ \A config, driven, awaiting, drove :
       Connected(config, driven, awaiting, drove) => at' \in {"idle", "snapshot"}
<1>1. \A l : Finish(l) \/ FinishClosed(l) => at' = "idle"
  BY DEF Finish, FinishClosed, GoTo
<1>2. Stop => at' = "stopped"
  BY DEF Stop, GoTo
<1>3. Disconnect => at' = "idle"
  BY <1>1 DEF Disconnect
<1>4. \A cause : Attempt(cause) => at' = "idle"
  BY <1>1 DEF Attempt
<1>5. \A cause : TransferFailed(cause) => at' = "idle"
  BY <1>1, <1>3, <1>4 DEF TransferFailed
<1>6. Rejected => at' \in {"idle", "stopped"}
  BY <1>1, <1>2 DEF Rejected
<1>7. \A l, found : SetTargetOver(l, found) => at' \in {"idle", "stopped", "send"}
  BY <1>6 DEF SetTargetOver, GoTo
<1>8. \A config, driven, awaiting, drove :
        Connected(config, driven, awaiting, drove) => at' \in {"idle", "snapshot"}
  BY DEF Connected, GoTo
<1> QED
  BY <1>1, <1>2, <1>3, <1>4, <1>5, <1>6, <1>7, <1>8

\* No step but the write leads to a readback.
LEMMA OthersLeave ==
  ASSUME WatchInv,
         \/ TryConnect \/ ConnectInfo \/ ReadConfig \/ VerifyTarget
         \/ RestoreDue \/ SettleDue \/ TakeSnapshot \/ ReadReport \/ SetTarget
  PROVE  at' # "verify"
<1>1. CASE TryConnect \/ ConnectInfo
  BY <1>1, EndsElsewhere DEF TryConnect, ConnectInfo, GoTo
<1>2. CASE ReadConfig
  <2>1. \A l : ConfigChanged(l) => at' \in {"idle", "config"}
    BY <1>2, EndsElsewhere DEF ConfigChanged, ReadConfig
  <2>2. \/ TransferFailed("io")
        \/ \E l : ConfigChanged(l) \/ Finish(l)
        \/ \E l, found : SetTargetOver(l, found)
        \/ Connected(board.config, {}, FALSE, {})
    BY <1>2 DEF ReadConfig
  <2> QED
    BY <2>1, <2>2, EndsElsewhere
<1>3. CASE VerifyTarget
  <2> DEFINE outcome == SetOutcome(PinConfigReport(board), task.id, TheTarget)
             driven == DrivenOutputs(task.found, TheTarget)
  <2>1. outcome \in {"ok", "rejected", "conflict", "mismatch"}
    BY DEF SetOutcome
  <2>2. \/ TransferFailed("io")
        \/ CASE outcome = "ok" /\ task.why = "connect" ->
                  Connected(TheTarget, driven, TRUE, task.driven) /\ UNCHANGED board
             [] outcome = "ok" /\ task.why # "connect" ->
                  Finish(Wrote([loop EXCEPT !.untold = loop.untold \cup task.driven],
                               task.found, TheTarget)) /\ UNCHANGED board
             [] outcome = "rejected" -> Rejected
             [] outcome = "conflict" /\ task.why # "connect" ->
                  Finish([loop EXCEPT !.restore_at = RESTORE_INTERVAL]) /\ UNCHANGED board
             [] outcome = "conflict" /\ task.why = "connect" -> Attempt("conflict")
             [] outcome = "mismatch" -> TransferFailed("mismatch")
    BY <1>3, Zenon DEF VerifyTarget
  <2> HIDE DEF outcome, driven
  <2>3. \/ \E cause : TransferFailed(cause)
        \/ Connected(TheTarget, driven, TRUE, task.driven)
        \/ \E l : Finish(l)
        \/ Rejected \/ Attempt("conflict")
    BY <2>1, <2>2
  <2> QED
    BY <2>3, EndsElsewhere
<1>4. CASE RestoreDue \/ SettleDue \/ TakeSnapshot
  BY <1>4, EndsElsewhere DEF RestoreDue, SettleDue, TakeSnapshot, GoTo
<1>5. CASE ReadReport \/ SetTarget
  BY <1>5, EndsElsewhere DEF ReadReport, SetTarget, GoTo
<1> QED
  BY <1>1, <1>2, <1>3, <1>4, <1>5

\* The pins that a write drove, at every step.
LEMMA NextDrives == WatchInv /\ [Next]_vars => Drives'
<1> SUFFICES ASSUME WatchInv, [Next]_vars
             PROVE  Drives'
  OBVIOUS
<1>1. CASE SendTarget
  <2>1. CASE TransferFailed("io")
    BY <2>1, EndsElsewhere DEF Drives
  <2>2. CASE ~TransferFailed("io")
    <3> DEFINE x == IF board.config = task.found
                    THEN DrivenOutputs(board.config, board'.config) ELSE {}
    <3>1. at = "send" /\ board' = Written /\ loop' = loop
          /\ task' = [task EXCEPT !.driven = x]
      BY <1>1, <2>2 DEF SendTarget
    <3>2. board'.config = TheTarget /\ TheTarget' = TheTarget
      BY <3>1, TargetIsWritten DEF TheTarget
    <3>3. task'.driven = x /\ task'.found = task.found
      BY <3>1, LoopShape DEF TaskFields
    <3>4. x \subseteq DrivenOutputs(task.found, TheTarget)
      BY <3>2
    <3> QED
      BY <3>2, <3>3, <3>4 DEF Drives
  <2> QED
    BY <2>1, <2>2
<1>2. CASE \/ TryConnect \/ ConnectInfo \/ ReadConfig \/ VerifyTarget
           \/ RestoreDue \/ SettleDue \/ TakeSnapshot \/ ReadReport \/ SetTarget
  BY <1>2, OthersLeave DEF Drives
<1>3. ASSUME at' = at, task' = task, loop'.target = loop.target
      PROVE  Drives'
  BY <1>3 DEF WatchInv, Drives, TheTarget
<1>4. CASE World \/ PlugIn
  <2>1. PICK kind, b, reset : Happens(kind, b, reset)
    BY <1>4 DEF World, Inputs, PlugIn
  <2>2. at' = at /\ task' = task /\ \E x : loop' = [loop EXCEPT !.untold = x]
    BY <2>1 DEF Happens
  <2>3. loop'.target = loop.target
    BY <2>2, LoopShape DEF LoopFields
  <2> QED
    BY <1>3, <2>2, <2>3
<1>5. CASE SetOutputs \/ Heartbeat \/ UNCHANGED vars
  BY <1>3, <1>5 DEF SetOutputs, Heartbeat, vars
<1>6. CASE Tick
  <2>1. at' = at /\ task' = task
        /\ \E a, b, c, d : loop' = [loop EXCEPT !.scan_at = a, !.restore_at = b,
                                              !.settle_at = c, !.since_restore = d]
    BY <1>6 DEF Tick
  <2>2. loop'.target = loop.target
    BY <2>1, LoopShape DEF LoopFields
  <2> QED
    BY <1>3, <2>1, <2>2
<1> QED
  BY <1>1, <1>2, <1>4, <1>5, <1>6 DEF Next, ThreadStep

\* Every step.
LEMMA NextGood == WatchInv /\ [Next]_vars => WatchInv' /\ StepGood
<1> SUFFICES ASSUME WatchInv, [Next]_vars
             PROVE  WatchInv' /\ StepGood
  OBVIOUS
<1>1. ThreadStep => StepGood
  BY ConnectingGood, ReadConfigGood, SendGood, VerifyGood, TimersGood,
     ReadReportGood DEF ThreadStep
<1>2. UNCHANGED vars => StepGood
  BY DEF vars, WatchInv, BoardInv, Sound, StepGood, Pursuing
<1>3. StepGood
  BY <1>1, <1>2, SetTargetGood, AroundGood, TickGood DEF Next
<1>4. LoopInv'
  BY NextOK DEF WatchInv, StepOK
<1> QED
  BY <1>3, <1>4, NextDrives DEF StepGood, WatchInv

(***************************************************************************)
(* The application is told of every reset of its outputs: a watcher that   *)
(* has read everything, from a handle that lost nothing, has told all that *)
(* went back to their initial level since the first connection, by a USB   *)
(* suspend or re-enumeration, a loss of power, or a write of the target    *)
(* that its readback confirmed and no other write preceded since the       *)
(* configuration was read (watch.rs status, connect and wrote).  A reset   *)
(* that was not told yet is in a report that waits, or the thread is       *)
(* before the readback or the reconnection that will tell it.              *)
(***************************************************************************)
THEOREM ResetsAreTold == Spec => []ResetTold
<1>1. Init => WatchInv
  BY InitLoop, InitWatch DEF WatchInv
<1>2. WatchInv /\ [Next]_vars => WatchInv'
  BY NextGood
<1>3. WatchInv => ResetTold
  <2> SUFFICES ASSUME WatchInv, Quiet, ~dropped
               PROVE  loop.untold = {}
    BY DEF ResetTold
  <2>1. Waiting(board.handles[Watch]) = {}
    BY DEF Quiet, Reports, Waiting
  <2> QED
    BY <2>1 DEF Quiet, WatchInv, Sound, Resets
<1> QED
  BY <1>1, <1>2, <1>3, PTL DEF Spec

(***************************************************************************)
(* The loop comes back to its target (watch.rs config_changed,             *)
(* restore_target and connect): as long as no transfer of set_target_pins  *)
(* fails on a device that stays there, a watcher that has read everything, *)
(* from a handle that lost nothing, has its target on the board or a timer *)
(* to write it.  A report of the change that took the target off the board *)
(* waits until the timer is set.  Without the hypothesis the run           *)
(* failed_target shows a behaviour where it is never written.              *)
(***************************************************************************)
THEOREM TargetIsPursued == Spec /\ [][TargetTransferWorks]_vars => []TargetPursued
<1> DEFINE Inv == WatchInv /\ Pursues(loop, board, at, task, dropped)
<1>1. Init => Inv
  BY InitLoop, InitWatch DEF WatchInv
<1>2. Inv /\ [Next]_vars /\ [TargetTransferWorks]_vars => Inv'
  <2> SUFFICES ASSUME Inv, [Next]_vars, [TargetTransferWorks]_vars
               PROVE  Inv'
    OBVIOUS
  <2>1. WatchInv' /\ StepGood
    BY NextGood
  <2>2. CASE TargetTransferWorks
    BY <2>1, <2>2 DEF StepGood, Pursuing
  <2>3. CASE UNCHANGED vars
    BY <2>1, <2>3 DEF vars
  <2> QED
    BY <2>2, <2>3
<1>3. Inv => TargetPursued
  <2> SUFFICES ASSUME Inv, Quiet, ~dropped, loop.target # None,
                      board.config \notin loop.target
               PROVE  loop.restore_at # Never
    BY DEF TargetPursued
  <2>1. ~Announced(board)
    BY DEF Quiet, Reports, Waiting, Announced
  <2> QED
    BY <2>1 DEF Quiet, Pursues
<1> HIDE DEF Inv
<1> QED
  BY <1>1, <1>2, <1>3, PTL DEF Spec
-----------------------------------------------------------------------------
(***************************************************************************)
(* The changes of one pin, and the reports that tell of them               *)
(***************************************************************************)

\* Whether an input that changed m times is HIGH.
High(n, m) == (n \in Available) <=> (m % 2 = 0)

\* The report tells a change of this pin: a report has one event at most.
Moves(r, n) == r.events # <<>> /\ r.events[1].gpio = n

\* What the report says of the pin agrees with m changes of it.
Shown(r, n, m) == n \in r.monitored => (n \in r.levels <=> High(n, m))

\* The report may be the next one of a pin whose changes went from before to
\* after, some of them without a report.
Fits(r, n, before, after) ==
  /\ before <= after /\ Shown(r, n, after)
  /\ Moves(r, n) => before < after

\* The reports of q that come after its first k are about a pin that changed c
\* times before them and m times by now, in an order in which no event is told of
\* a change that was not there.
Rides(n, q, k, c, m) ==
  \E ms :
    /\ \A i \in 0 .. Len(q) : ms[i] \in Nat
    /\ c <= ms[k] /\ \A i \in k .. Len(q) : ms[i] <= m
    /\ \A i \in k + 1 .. Len(q) : Fits(q[i], n, ms[i - 1], ms[i])

\* The same when each of its changes is in a report of its own, none left out.
Climbs(n, q, c, m) ==
  \E ms :
    /\ \A i \in 0 .. Len(q) : ms[i] \in Nat
    /\ ms[0] = c /\ ms[Len(q)] = m
    /\ \A i \in 1 .. Len(q) : /\ Shown(q[i], n, ms[i])
                              /\ ms[i] = ms[i - 1] + IF Moves(q[i], n) THEN 1 ELSE 0

\* A longer sequence.
LEMMA Appended ==
  ASSUME NEW S, NEW q \in Seq(S), NEW r \in S
  PROVE  /\ Append(q, r) \in Seq(S) /\ Append(q, r) # <<>>
         /\ Len(q) \in Nat /\ Len(Append(q, r)) = Len(q) + 1
         /\ Append(q, r)[Len(q) + 1] = r
         /\ \A i \in 1 .. Len(q) : Append(q, r)[i] = q[i] /\ q[i] \in S
OBVIOUS

\* A shorter one.
LEMMA Tailed ==
  ASSUME NEW S, NEW q \in Seq(S), q # <<>>
  PROVE  /\ Tail(q) \in Seq(S) /\ Len(q) \in Nat /\ Len(q) > 0
         /\ Len(Tail(q)) = Len(q) - 1 /\ Head(q) = q[1] /\ Head(q) \in S
         /\ \A i \in 1 .. Len(Tail(q)) : Tail(q)[i] = q[i + 1]
OBVIOUS

\* When no report is left, what is left to say is c <= m.
LEMMA RidesEnd ==
  ASSUME NEW n, NEW q \in Seq(StatusReports), NEW c \in Nat, NEW m \in Nat
  PROVE  /\ c <= m => Rides(n, q, Len(q), c, m)
         /\ \A k \in 0 .. Len(q) : Rides(n, q, k, c, m) => c <= m
<1>1. c <= m => Rides(n, q, Len(q), c, m)
  <2> DEFINE ms == [i \in 0 .. Len(q) |-> m]
  <2> SUFFICES ASSUME c <= m PROVE Rides(n, q, Len(q), c, m)
    OBVIOUS
  <2>1. Len(q) \in Nat /\ \A i \in 0 .. Len(q) : ms[i] = m
    OBVIOUS
  <2> HIDE DEF ms
  <2>2. /\ c <= ms[Len(q)] /\ \A i \in Len(q) .. Len(q) : ms[i] <= m
        /\ \A i \in Len(q) + 1 .. Len(q) : Fits(q[i], n, ms[i - 1], ms[i])
    BY <2>1
  <2> QED
    BY <2>1, <2>2 DEF Rides
<1>2. ASSUME NEW k \in 0 .. Len(q), Rides(n, q, k, c, m) PROVE c <= m
  <2>1. PICK ms : (\A i \in 0 .. Len(q) : ms[i] \in Nat) /\ c <= ms[k] /\ \A i \in k .. Len(q) : ms[i] <= m
    BY <1>2 DEF Rides
  <2>2. Len(q) \in Nat /\ k \in Nat /\ k \in k .. Len(q)
    OBVIOUS
  <2> QED
    BY <2>1, <2>2
<1> QED
  BY <1>1, <1>2

\* A change without a report, and a report.
LEMMA RidesAppend ==
  ASSUME NEW n, NEW q \in Seq(StatusReports), NEW k \in 0 .. Len(q),
         NEW c \in Nat, NEW m \in Nat, Rides(n, q, k, c, m)
  PROVE  /\ \A d \in Nat : m <= d => Rides(n, q, k, c, d)
         /\ \A r \in StatusReports, d \in Nat :
              Fits(r, n, m, d) => Rides(n, Append(q, r), k, c, d)
<1>1. PICK ms :
        /\ \A i \in 0 .. Len(q) : ms[i] \in Nat
        /\ c <= ms[k] /\ \A i \in k .. Len(q) : ms[i] <= m
        /\ \A i \in k + 1 .. Len(q) : Fits(q[i], n, ms[i - 1], ms[i])
  BY DEF Rides
<1>2. ASSUME NEW d \in Nat, m <= d PROVE Rides(n, q, k, c, d)
  <2>1. \A i \in k .. Len(q) : ms[i] <= d
    BY <1>1, <1>2
  <2> QED
    BY <1>1, <2>1 DEF Rides
<1>3. ASSUME NEW r \in StatusReports, NEW d \in Nat, Fits(r, n, m, d)
      PROVE  Rides(n, Append(q, r), k, c, d)
  <2> DEFINE e == Append(q, r)
             p == [i \in 0 .. Len(q) + 1 |-> IF i <= Len(q) THEN ms[i] ELSE d]
  <2>1. /\ Len(q) \in Nat /\ Len(e) = Len(q) + 1 /\ e[Len(q) + 1] = r
        /\ \A i \in 1 .. Len(q) : e[i] = q[i]
    BY Appended
  <2>2. /\ \A i \in 0 .. Len(q) : p[i] = ms[i]
        /\ p[Len(q) + 1] = d
    BY <2>1
  <2> HIDE DEF e, p
  <2>3. m <= d /\ Shown(r, n, d) /\ (Moves(r, n) => m < d)
    BY <1>3 DEF Fits
  <2>4. /\ \A i \in 0 .. Len(e) : p[i] \in Nat
        /\ c <= p[k] /\ \A i \in k .. Len(e) : p[i] <= d
    <3>1. ASSUME NEW i \in 0 .. Len(e) PROVE i \in 0 .. Len(q) \/ i = Len(q) + 1
      BY <2>1
    <3>2. ASSUME NEW i \in 0 .. Len(e) PROVE p[i] \in Nat
      BY <1>1, <2>2, <3>1
    <3>3. k \in 0 .. Len(q) /\ c <= p[k]
      BY <1>1, <2>2
    <3>4. ASSUME NEW i \in k .. Len(e) PROVE p[i] <= d
      <4>1. i \in k .. Len(q) \/ i = Len(q) + 1
        BY <2>1
      <4>2. CASE i \in k .. Len(q)
        <5>1. p[i] = ms[i] /\ ms[i] \in Nat /\ ms[i] <= m
          BY <1>1, <2>2, <4>2
        <5> QED
          BY <2>3, <5>1
      <4>3. CASE i = Len(q) + 1
        BY <2>2, <4>3
      <4> QED
        BY <4>1, <4>2, <4>3
    <3> QED
      BY <3>2, <3>3, <3>4
  <2>5. ASSUME NEW i \in k + 1 .. Len(e) PROVE Fits(e[i], n, p[i - 1], p[i])
    <3>1. CASE i <= Len(q)
      <4>1. i \in k + 1 .. Len(q) /\ i - 1 \in 0 .. Len(q) /\ i \in 1 .. Len(q)
        BY <2>1, <3>1
      <4> QED
        BY <1>1, <2>1, <2>2, <4>1
    <3>2. CASE i > Len(q)
      <4>1. i = Len(q) + 1 /\ i - 1 = Len(q) /\ Len(q) \in k .. Len(q)
        BY <2>1, <3>2
      <4>2. p[i - 1] = ms[Len(q)] /\ p[i] = d /\ e[i] = r /\ ms[Len(q)] <= m
            /\ ms[Len(q)] \in Nat
        BY <1>1, <2>1, <2>2, <4>1
      <4> QED
        BY <2>3, <4>2 DEF Fits
    <3> QED
      BY <2>1, <3>1, <3>2
  <2>6. Rides(n, e, k, c, d)
    BY <2>2, <2>4, <2>5 DEF Rides
  <2> QED
    BY <2>6 DEF e
<1> QED
  BY <1>2, <1>3

\* The first report is used, or shed.
LEMMA RidesTail ==
  ASSUME NEW n, NEW q \in Seq(StatusReports), q # <<>>, NEW k \in 0 .. Len(q),
         NEW c \in Nat, NEW m \in Nat, Rides(n, q, k, c, m)
  PROVE  /\ k > 0 => Rides(n, Tail(q), k - 1, c, m)
         /\ k = 0 => \E d \in Nat : Fits(Head(q), n, c, d) /\ Rides(n, Tail(q), 0, d, m)
<1>1. PICK ms :
        /\ \A i \in 0 .. Len(q) : ms[i] \in Nat
        /\ c <= ms[k] /\ \A i \in k .. Len(q) : ms[i] <= m
        /\ \A i \in k + 1 .. Len(q) : Fits(q[i], n, ms[i - 1], ms[i])
  BY DEF Rides
<1> DEFINE t == Tail(q)
           p == [i \in 0 .. Len(q) - 1 |-> ms[i + 1]]
<1>2. /\ Len(q) \in Nat /\ Len(q) > 0 /\ Len(t) = Len(q) - 1 /\ Head(q) = q[1]
      /\ \A i \in 1 .. Len(t) : t[i] = q[i + 1]
  BY Tailed
<1>3. \A i \in 0 .. Len(t) : p[i] = ms[i + 1] /\ p[i] \in Nat
  BY <1>1, <1>2
<1> HIDE DEF t, p
<1>4. ASSUME NEW j \in 0 .. Len(t), k <= j + 1, NEW d \in Nat, d <= ms[j + 1]
      PROVE  Rides(n, t, j, d, m)
  <2>1. d <= p[j] /\ \A i \in j .. Len(t) : p[i] <= m
    <3>1. \A i \in j .. Len(t) : i + 1 \in k .. Len(q) /\ i \in 0 .. Len(t)
      BY <1>2, <1>4
    <3> QED
      BY <1>1, <1>3, <1>4, <3>1
  <2>2. ASSUME NEW i \in j + 1 .. Len(t) PROVE Fits(t[i], n, p[i - 1], p[i])
    <3>1. /\ i + 1 \in k + 1 .. Len(q) /\ i \in 1 .. Len(t) /\ i \in 0 .. Len(t) /\ i - 1 \in 0 .. Len(t)
          /\ (i + 1) - 1 = i /\ (i - 1) + 1 = i
      BY <1>2, <1>4
    <3>2. t[i] = q[i + 1] /\ p[i] = ms[i + 1] /\ p[i - 1] = ms[i]
      BY <1>2, <1>3, <3>1
    <3>3. Fits(q[i + 1], n, ms[(i + 1) - 1], ms[i + 1])
      BY <1>1, <3>1
    <3> QED
      BY <3>1, <3>2, <3>3
  <2> QED
    BY <1>3, <2>1, <2>2 DEF Rides
<1>5. CASE k > 0
  <2>1. k - 1 \in 0 .. Len(t) /\ k <= (k - 1) + 1 /\ (k - 1) + 1 = k
    BY <1>2, <1>5
  <2>2. c <= ms[(k - 1) + 1]
    BY <1>1, <2>1
  <2>3. Rides(n, t, k - 1, c, m)
    BY <1>4, <2>1, <2>2
  <2> QED
    BY <1>5, <2>3 DEF t
<1>6. CASE k = 0
  <2>1. 0 \in 0 .. Len(t) /\ k <= 0 + 1 /\ ms[1] \in Nat /\ ms[1] <= ms[0 + 1]
    BY <1>1, <1>2, <1>6
  <2>2. Rides(n, t, 0, ms[1], m)
    BY <1>4, <2>1
  <2>3. Fits(q[1], n, ms[0], ms[1]) /\ c <= ms[0] /\ ms[0] \in Nat
    BY <1>1, <1>2, <1>6
  <2>4. Fits(Head(q), n, c, ms[1])
    BY <1>2, <2>1, <2>3 DEF Fits
  <2> QED
    BY <1>6, <2>1, <2>2, <2>4 DEF t
<1> QED
  BY <1>5, <1>6

\* When no report waits, every change has been told.
LEMMA ClimbsEmpty ==
  ASSUME NEW n, NEW c \in Nat, NEW m \in Nat
  PROVE  /\ Climbs(n, <<>>, c, c)
         /\ Climbs(n, <<>>, c, m) => c = m
<1>1. Len(<<>>) = 0 /\ 1 .. 0 = {} /\ 0 .. 0 = {0}
  OBVIOUS
<1> DEFINE ms == [i \in {0} |-> c]
<1>2. ms[0] = c
  OBVIOUS
<1> HIDE DEF ms
<1>3. Climbs(n, <<>>, c, c)
  BY <1>1, <1>2 DEF Climbs
<1>4. Climbs(n, <<>>, c, m) => c = m
  BY <1>1 DEF Climbs
<1> QED
  BY <1>3, <1>4

\* A report more, with the change it is about.
LEMMA ClimbsAppend ==
  ASSUME NEW n, NEW q \in Seq(StatusReports), NEW c \in Nat, NEW m \in Nat,
         Climbs(n, q, c, m), NEW r \in StatusReports, NEW d \in Nat,
         Shown(r, n, d), d = m + IF Moves(r, n) THEN 1 ELSE 0
  PROVE  Climbs(n, Append(q, r), c, d)
<1>1. PICK ms :
        /\ \A i \in 0 .. Len(q) : ms[i] \in Nat
        /\ ms[0] = c /\ ms[Len(q)] = m
        /\ \A i \in 1 .. Len(q) : /\ Shown(q[i], n, ms[i])
                                  /\ ms[i] = ms[i - 1] + IF Moves(q[i], n) THEN 1 ELSE 0
  BY DEF Climbs
<1> DEFINE e == Append(q, r)
           p == [i \in 0 .. Len(q) + 1 |-> IF i <= Len(q) THEN ms[i] ELSE d]
<1>2. /\ Len(q) \in Nat /\ Len(e) = Len(q) + 1 /\ e[Len(q) + 1] = r
      /\ \A i \in 1 .. Len(q) : e[i] = q[i]
  BY Appended
<1>3. /\ \A i \in 0 .. Len(q) : p[i] = ms[i]
      /\ p[Len(q) + 1] = d
  BY <1>2
<1> HIDE DEF e, p
<1>4. /\ \A i \in 0 .. Len(e) : p[i] \in Nat
      /\ p[0] = c /\ p[Len(e)] = d
  <2>1. 0 \in 0 .. Len(q) /\ \A i \in 0 .. Len(e) : i \in 0 .. Len(q) \/ i = Len(q) + 1
    BY <1>2
  <2>2. \A i \in 0 .. Len(q) : p[i] = ms[i] /\ ms[i] \in Nat
    BY <1>1, <1>3, Zenon
  <2>3. p[0] = c /\ p[Len(e)] = d
    BY <1>1, <1>2, <1>3, <2>1
  <2> QED
    BY <1>3, <2>1, <2>2, <2>3, Zenon
<1>5. ASSUME NEW i \in 1 .. Len(e)
      PROVE  /\ Shown(e[i], n, p[i])
             /\ p[i] = p[i - 1] + IF Moves(e[i], n) THEN 1 ELSE 0
  <2>1. CASE i <= Len(q)
    <3>1. i \in 1 .. Len(q) /\ i - 1 \in 0 .. Len(q) /\ i \in 0 .. Len(q)
      BY <1>2, <2>1
    <3>2. e[i] = q[i] /\ p[i] = ms[i] /\ p[i - 1] = ms[i - 1]
      BY <1>2, <1>3, <3>1
    <3> QED
      BY <1>1, <3>1, <3>2
  <2>2. CASE i > Len(q)
    <3>1. i = Len(q) + 1 /\ i - 1 = Len(q) /\ Len(q) \in 0 .. Len(q)
      BY <1>2, <2>2
    <3>2. e[i] = r /\ p[i] = d /\ p[i - 1] = m
      BY <1>1, <1>2, <1>3, <3>1
    <3> QED
      BY <3>2
  <2> QED
    BY <1>2, <2>1, <2>2
<1>6. Climbs(n, e, c, d)
  BY <1>4, <1>5 DEF Climbs
<1> QED
  BY <1>6 DEF e

\* A report less.
LEMMA ClimbsTail ==
  ASSUME NEW n, NEW q \in Seq(StatusReports), q # <<>>, NEW c \in Nat,
         NEW m \in Nat, Climbs(n, q, c, m),
         NEW d, d = c + IF Moves(Head(q), n) THEN 1 ELSE 0
  PROVE  Shown(Head(q), n, d) /\ Climbs(n, Tail(q), d, m)
<1>1. PICK ms :
        /\ \A i \in 0 .. Len(q) : ms[i] \in Nat
        /\ ms[0] = c /\ ms[Len(q)] = m
        /\ \A i \in 1 .. Len(q) : /\ Shown(q[i], n, ms[i])
                                  /\ ms[i] = ms[i - 1] + IF Moves(q[i], n) THEN 1 ELSE 0
  BY DEF Climbs
<1> DEFINE t == Tail(q)
           p == [i \in 0 .. Len(q) - 1 |-> ms[i + 1]]
<1>2. /\ Len(q) \in Nat /\ Len(q) > 0 /\ Len(t) = Len(q) - 1 /\ Head(q) = q[1]
      /\ \A i \in 1 .. Len(t) : t[i] = q[i + 1]
  BY Tailed
<1>3. \A i \in 0 .. Len(t) : p[i] = ms[i + 1] /\ p[i] \in Nat
  BY <1>1, <1>2
<1> HIDE DEF t, p
<1>4. Shown(q[1], n, ms[1]) /\ ms[1] = ms[0] + IF Moves(q[1], n) THEN 1 ELSE 0
  <2>1. 1 \in 1 .. Len(q) /\ 1 - 1 = 0
    BY <1>2
  <2> QED
    BY <1>1, <2>1
<1>5. ms[1] = d
  BY <1>1, <1>2, <1>4
<1>6. p[0] = d /\ p[Len(t)] = m
  BY <1>1, <1>2, <1>3, <1>5
<1>7. ASSUME NEW i \in 1 .. Len(t)
      PROVE  /\ Shown(t[i], n, p[i])
             /\ p[i] = p[i - 1] + IF Moves(t[i], n) THEN 1 ELSE 0
  <2>1. /\ i + 1 \in 1 .. Len(q) /\ i \in 0 .. Len(t) /\ i - 1 \in 0 .. Len(t)
        /\ (i + 1) - 1 = i /\ (i - 1) + 1 = i
    BY <1>2
  <2>2. t[i] = q[i + 1] /\ p[i] = ms[i + 1] /\ p[i - 1] = ms[i]
    BY <1>2, <1>3, <2>1
  <2>3. /\ Shown(q[i + 1], n, ms[i + 1])
        /\ ms[i + 1] = ms[(i + 1) - 1] + IF Moves(q[i + 1], n) THEN 1 ELSE 0
    BY <1>1, <2>1
  <2> QED
    BY <2>1, <2>2, <2>3
<1>8. Climbs(n, t, d, m)
  BY <1>3, <1>6, <1>7 DEF Climbs
<1> QED
  BY <1>2, <1>4, <1>5, <1>8 DEF t

\* Reports that tell no change of the pin.
LEMMA ClimbsStill ==
  ASSUME NEW n, NEW q \in Seq(StatusReports), NEW c \in Nat, NEW m \in Nat,
         Climbs(n, q, c, m), \A i \in 1 .. Len(q) : ~Moves(q[i], n)
  PROVE  c = m
<1>1. PICK ms :
        /\ \A i \in 0 .. Len(q) : ms[i] \in Nat
        /\ ms[0] = c /\ ms[Len(q)] = m
        /\ \A i \in 1 .. Len(q) : /\ Shown(q[i], n, ms[i])
                                  /\ ms[i] = ms[i - 1] + IF Moves(q[i], n) THEN 1 ELSE 0
  BY DEF Climbs
<1>2. Len(q) \in Nat
  OBVIOUS
<1> DEFINE S == {i \in Nat : i <= Len(q) /\ ms[i] # c}
<1>3. S = {}
  <2> SUFFICES ASSUME S # {} PROVE FALSE
    OBVIOUS
  <2>1. PICK i \in S : \A j \in S : i <= j
    BY LeastExists
  <2>2. i \in Nat /\ i <= Len(q) /\ ms[i] # c /\ i # 0
    BY <1>1, <2>1
  <2>3. i - 1 \in Nat /\ i - 1 \notin S /\ i \in 1 .. Len(q) /\ i - 1 \in 0 .. Len(q)
    BY <1>2, <2>1, <2>2
  <2>4. ms[i - 1] = c
    BY <1>2, <2>2, <2>3
  <2>5. ms[i] = ms[i - 1] + 0
    BY <1>1, <2>3
  <2> QED
    BY <2>2, <2>4, <2>5
<1> QED
  BY <1>1, <1>2, <1>3

\* Fewer changes are known to have happened before the reports.
LEMMA RidesLess ==
  ASSUME NEW n, NEW q \in Seq(StatusReports), NEW c \in Nat, NEW d \in Nat, NEW m,
         c <= d, Rides(n, q, 0, d, m)
  PROVE  Rides(n, q, 0, c, m)
<1>1. PICK ms :
        /\ \A i \in 0 .. Len(q) : ms[i] \in Nat
        /\ d <= ms[0] /\ \A i \in 0 .. Len(q) : ms[i] <= m
        /\ \A i \in 0 + 1 .. Len(q) : Fits(q[i], n, ms[i - 1], ms[i])
  BY DEF Rides
<1>2. 0 \in 0 .. Len(q)
  OBVIOUS
<1>3. c <= ms[0]
  BY <1>1, <1>2
<1> QED
  BY <1>1, <1>3 DEF Rides

-----------------------------------------------------------------------------
(***************************************************************************)
(* What absorb does with a report                                          *)
(***************************************************************************)

\* A report as the board sends it by itself: at most one event, of a monitored
\* pin, whose level is the one that the report shows, and none with CONFIG_CHANGED.
Plain(r) ==
  /\ "HOST_REQUEST" \notin r.reason
  /\ \/ r.events = <<>>
     \/ /\ "CONFIG_CHANGED" \notin r.reason
        /\ \E n \in r.monitored : r.events = <<[gpio |-> n, level |-> n \in r.levels]>>

\* The types of what a loop learns from reports.
Learned(l) ==
  /\ DOMAIN l = LoopFields
  /\ l.config \in ValidConfigs
  /\ DOMAIN l.known \subseteq GPIOS /\ l.known \in [DOMAIN l.known -> BOOLEAN]
  /\ l.counted \in [GPIOS -> Nat]
  /\ l.snapshot_seq \subseteq SeqNumbers
  /\ {l.scan_at, l.settle_at} \subseteq {Never} \cup Nat

\* What a report tells of a pin, and by how much it makes its count grow.
On(l, r, n) == (n \in r.levels) # ActiveLow(Overrides, l.config, n)

\* By how many changes absorb makes the count of a pin grow.
Change(l, r, n) ==
  IF n \notin DOMAIN l.known \cap r.monitored THEN 0
  ELSE IF On(l, r, n) # l.known[n] THEN 1
  ELSE IF Moves(r, n) THEN 2 ELSE 0

\* The events of a report with one event.
LEMMA FoldOne ==
  ASSUME NEW l, NEW e
  PROVE  FoldLeft(AbsorbEvent, l, <<e>>) = AbsorbEvent(l, e)
<1> DEFINE seq == <<e>>
           G(f) == f = [s \in SUBSET {1} |->
                          IF s = {} THEN l ELSE AbsorbEvent(f[s \ {Max(s)}], seq[Max(s)])]
           one == AbsorbEvent(l, e)
           w == [s \in SUBSET {1} |-> IF s = {} THEN l ELSE one]
<1>1. Max({1}) = 1
  BY DEF Max
<1>2. DOMAIN seq = {1} /\ seq[1] = e
  OBVIOUS
<1>3. \A s \in SUBSET {1} : s # {} => s = {1} /\ s \ {Max(s)} = {}
  BY <1>1
<1>4. \A f : G(f) => f[{1}] = one
  <2> SUFFICES ASSUME NEW f, G(f) PROVE f[{1}] = one
    OBVIOUS
  <2>1. f[{}] = l
    BY Zenon
  <2>2. f[{1}] = AbsorbEvent(f[{1} \ {Max({1})}], seq[Max({1})])
    BY Zenon
  <2> QED
    BY <1>1, <1>2, <1>3, <2>1, <2>2
<1>5. G(w)
  <2>1. \A s \in SUBSET {1} : w[s] = IF s = {} THEN l ELSE AbsorbEvent(w[s \ {Max(s)}], seq[Max(s)])
    <3> SUFFICES ASSUME NEW s \in SUBSET {1}, s # {}
                 PROVE  w[s] = AbsorbEvent(w[s \ {Max(s)}], seq[Max(s)])
      OBVIOUS
    <3>1. s = {1} /\ s \ {Max(s)} = {} /\ Max(s) = 1
      BY <1>1, <1>3
    <3> QED
      BY <1>2, <3>1
  <2> HIDE DEF seq
  <2> QED
    BY <2>1
<1> HIDE DEF G, w, one
<1>6. G(CHOOSE f : G(f))
  BY <1>5
<1>7. (CHOOSE f : G(f))[{1}] = one
  BY <1>4, <1>6
<1>8. FoldLeft(AbsorbEvent, l, seq) = (CHOOSE f : G(f))[{1}]
  <2> USE DEF G
  <2>1. DOMAIN seq = {1}
    BY <1>2
  <2> QED
  BY <2>1 DEF FoldLeft, MapThenFoldSet
<1> QED
  BY <1>7, <1>8 DEF one

\* The events of a report without any.
LEMMA FoldNone ==
  ASSUME NEW l
  PROVE  FoldLeft(AbsorbEvent, l, <<>>) = l
<1> DEFINE D == DOMAIN <<>>
           G(f) == f = [s \in SUBSET D |-> IF s = {} THEN l
                                           ELSE AbsorbEvent(f[s \ {Max(s)}], <<>>[Max(s)])]
<1>1. D = {}
  OBVIOUS
<1>2. G([s \in SUBSET D |-> l])
  BY <1>1
<1>3. FoldLeft(AbsorbEvent, l, <<>>) = (CHOOSE f : G(f))[D]
  BY DEF FoldLeft, MapThenFoldSet
<1> QED
  BY <1>1, <1>2, <1>3

\* absorb after the events: the levels of the report (watch.rs:841).
LEMMA LevelsAbsorbed ==
  ASSUME NEW l, DOMAIN l = LoopFields, l.counted \in [GPIOS -> Nat], NEW r \in StatusReports
  PROVE  LET m == AbsorbLevels(l, r)
             new(n) == IF n \in DOMAIN l.known \cap r.monitored /\ On(l, r, n) # l.known[n]
                       THEN 1 ELSE 0
         IN  /\ m.known = OnOff(Overrides, l.config, r)
             /\ m.counted \in [GPIOS -> Nat]
             /\ \A n \in GPIOS : m.counted[n] = l.counted[n] + new(n)
             /\ \A f \in LoopFields \ {"known", "counted"} : m[f] = l[f]
             /\ DOMAIN m = LoopFields
<1> DEFINE on == OnOff(Overrides, l.config, r)
           changes == {n \in DOMAIN on \cap DOMAIN l.known : on[n] # l.known[n]}
           m == AbsorbLevels(l, r)
           new(n) == IF n \in DOMAIN l.known \cap r.monitored /\ On(l, r, n) # l.known[n]
                       THEN 1 ELSE 0
<1>1. m = [l EXCEPT !.known = on,
                !.counted = [n \in GPIOS |-> l.counted[n] + IF n \in changes THEN 1 ELSE 0]]
  BY DEF AbsorbLevels
<1>2. /\ DOMAIN on = r.monitored
      /\ \A n \in r.monitored : on[n] = On(l, r, n)
  BY DEF OnOff, On
<1>3. \A n \in GPIOS : (IF n \in changes THEN 1 ELSE 0) = new(n)
  BY <1>2
<1> HIDE DEF on, changes
<1>4. /\ DOMAIN m = LoopFields /\ m.known = on
      /\ m.counted = [n \in GPIOS |-> l.counted[n] + IF n \in changes THEN 1 ELSE 0]
      /\ \A f \in LoopFields \ {"known", "counted"} : m[f] = l[f]
  BY <1>1 DEF LoopFields
<1> HIDE DEF m
<1>5. m.counted \in [GPIOS -> Nat]
  BY <1>4
<1>6. \A n \in GPIOS : m.counted[n] = l.counted[n] + new(n)
  BY <1>3, <1>4, Zenon
<1> QED
  BY <1>4, <1>5, <1>6 DEF m, on

\* absorb of a report with at most one event: what is known afterwards is what
\* the report shows, and each pin is told at most two changes (a missed one and the
\* one of the event).
LEMMA Absorbed ==
  ASSUME NEW l, DOMAIN l = LoopFields, l.counted \in [GPIOS -> Nat],
         l.known \in [DOMAIN l.known -> BOOLEAN],
         NEW r \in StatusReports, Plain(r) \/ r.events = <<>>
  PROVE  LET m == Absorb(l, r)
         IN  /\ m.known = OnOff(Overrides, l.config, r)
             /\ m.counted \in [GPIOS -> Nat]
             /\ \A n \in GPIOS : m.counted[n] = l.counted[n] + Change(l, r, n)
             /\ \A f \in LoopFields \ {"known", "counted"} : m[f] = l[f]
             /\ DOMAIN m = LoopFields
<1> DEFINE told == FoldLeft(AbsorbEvent, l, r.events)
           t == [l EXCEPT !.known = told.known, !.counted = told.counted]
<1>1. Absorb(l, r) = AbsorbLevels(t, r)
  BY DEF Absorb
<1>2. /\ DOMAIN t = LoopFields /\ t.known = told.known /\ t.counted = told.counted
      /\ \A f \in LoopFields \ {"known", "counted"} : t[f] = l[f]
  BY DEF LoopFields
<1>3. t.config = l.config
  BY <1>2 DEF LoopFields
<1>4. ASSUME told.known = l.known, told.counted = l.counted,
             \A n \in DOMAIN l.known \cap r.monitored : ~Moves(r, n)
      PROVE  LET m == Absorb(l, r)
             IN  /\ m.known = OnOff(Overrides, l.config, r)
                 /\ m.counted \in [GPIOS -> Nat]
                 /\ \A n \in GPIOS : m.counted[n] = l.counted[n] + Change(l, r, n)
                 /\ \A f \in LoopFields \ {"known", "counted"} : m[f] = l[f]
                 /\ DOMAIN m = LoopFields
  <2> HIDE DEF told, t
  <2>1. t.known = l.known /\ t.counted = l.counted
    BY <1>2, <1>4
  <2> DEFINE m == AbsorbLevels(t, r)
             new(n) == IF n \in DOMAIN t.known \cap r.monitored /\ On(t, r, n) # t.known[n]
                       THEN 1 ELSE 0
  <2>2. /\ m.known = OnOff(Overrides, t.config, r)
        /\ m.counted \in [GPIOS -> Nat]
        /\ \A n \in GPIOS : m.counted[n] = t.counted[n] + new(n)
        /\ \A f \in LoopFields \ {"known", "counted"} : m[f] = t[f]
        /\ DOMAIN m = LoopFields
    BY <1>2, <2>1, LevelsAbsorbed
  <2>3. \A n \in GPIOS : new(n) = Change(l, r, n)
    BY <1>3, <1>4, <2>1 DEF Change, On
  <2> HIDE DEF m, new
  <2>4. \A n \in GPIOS : m.counted[n] = l.counted[n] + Change(l, r, n)
    BY <2>1, <2>2, <2>3, Zenon
  <2>5. \A f \in LoopFields \ {"known", "counted"} : m[f] = l[f]
    BY <1>2, <2>2, Zenon
  <2> QED
    BY <1>1, <1>3, <2>2, <2>4, <2>5 DEF m
<1>5. CASE r.events = <<>>
  <2>1. told = l
    BY <1>5, FoldNone
  <2>2. \A n : ~Moves(r, n)
    BY <1>5 DEF Moves
  <2> QED
    BY <1>4, <2>1, <2>2
<1>6. CASE r.events # <<>>
  <2>1. PICK g \in r.monitored : r.events = <<[gpio |-> g, level |-> g \in r.levels]>>
    BY <1>6 DEF Plain
  <2> DEFINE e == [gpio |-> g, level |-> g \in r.levels]
             on == e.level # ActiveLow(Overrides, l.config, e.gpio)
  <2>2. told = AbsorbEvent(l, e)
    BY <2>1, FoldOne
  <2>3. e.gpio = g /\ (e.level <=> g \in r.levels) /\ on = On(l, r, g)
    BY DEF On
  <2>4. \A n : Moves(r, n) <=> n = g
    BY <2>1, <2>3, <1>6 DEF Moves
  <2>5. g \in GPIOS
    BY <2>1 DEF StatusReports
  <2>6. CASE g \notin DOMAIN l.known
    <3>1. told = l
      BY <2>2, <2>3, <2>6 DEF AbsorbEvent
    <3> QED
      BY <1>4, <2>4, <2>6, <3>1
  <2>7. CASE g \in DOMAIN l.known
    <3> DEFINE up == IF on = l.known[g] THEN 2 ELSE 1
    <3>1. told = [l EXCEPT !.counted[e.gpio] = @ + up, !.known[e.gpio] = on]
      BY <2>2, <2>3, <2>7 DEF AbsorbEvent
    <3> HIDE DEF on, e
    <3>2. /\ told.counted = [l.counted EXCEPT ![g] = @ + up]
          /\ told.known = [l.known EXCEPT ![g] = on]
      BY <2>3, <3>1 DEF LoopFields
    <3> HIDE DEF told, t, up
    <3>3. /\ \A n \in GPIOS : told.counted[n] = l.counted[n] + IF n = g THEN up ELSE 0
          /\ told.counted \in [GPIOS -> Nat]
      BY <2>5, <3>2 DEF up
    <3>4. /\ DOMAIN told.known = DOMAIN l.known /\ told.known[g] = on
          /\ \A n \in DOMAIN l.known : n # g => told.known[n] = l.known[n]
      BY <2>7, <3>2
    <3> DEFINE m == AbsorbLevels(t, r)
               new(n) == IF n \in DOMAIN t.known \cap r.monitored /\ On(t, r, n) # t.known[n]
                         THEN 1 ELSE 0
    <3>5. /\ m.known = OnOff(Overrides, t.config, r)
          /\ m.counted \in [GPIOS -> Nat]
          /\ \A n \in GPIOS : m.counted[n] = t.counted[n] + new(n)
          /\ \A f \in LoopFields \ {"known", "counted"} : m[f] = t[f]
          /\ DOMAIN m = LoopFields
      BY <1>2, <3>3, LevelsAbsorbed
    <3>6. \A n : On(t, r, n) = On(l, r, n)
      BY <1>3 DEF On
    <3>7. ASSUME NEW n \in GPIOS PROVE (IF n = g THEN up ELSE 0) + new(n) = Change(l, r, n)
      <4>1. CASE n = g
        <5>1. On(t, r, n) = t.known[n]
          BY <1>2, <2>3, <3>4, <3>6, <4>1
        <5>2. new(n) = 0
          BY <5>1
        <5>3. Change(l, r, n) = IF On(l, r, g) # l.known[g] THEN 1 ELSE 2
          BY <2>1, <2>4, <2>7, <4>1 DEF Change
        <5> QED
          BY <2>3, <4>1, <5>2, <5>3 DEF up
      <4>2. CASE n # g
        <5>1. (n \in DOMAIN t.known <=> n \in DOMAIN l.known)
              /\ (n \in DOMAIN l.known => t.known[n] = l.known[n])
          BY <1>2, <3>4, <4>2
        <5>2. new(n) = Change(l, r, n)
          BY <2>4, <3>6, <4>2, <5>1 DEF Change
        <5>3. new(n) \in Nat
          OBVIOUS
        <5> QED
          BY <4>2, <5>2, <5>3
      <4> QED
        BY <4>1, <4>2
    <3> HIDE DEF m
    <3>8. ASSUME NEW n \in GPIOS PROVE m.counted[n] = l.counted[n] + Change(l, r, n)
      <4>1. m.counted[n] = (l.counted[n] + IF n = g THEN up ELSE 0) + new(n)
        BY <1>2, <3>3, <3>5
      <4>2. l.counted[n] \in Nat /\ (IF n = g THEN up ELSE 0) \in Nat /\ new(n) \in Nat
        BY DEF up
      <4> HIDE DEF new
      <4> QED
        BY <3>7, <4>1, <4>2
    <3>9. \A f \in LoopFields \ {"known", "counted"} : m[f] = l[f]
      BY <1>2, <3>5, Zenon
    <3> QED
      BY <1>1, <1>3, <3>5, <3>8, <3>9 DEF m
  <2> QED
    BY <2>6, <2>7
<1> QED
  BY <1>5, <1>6

-----------------------------------------------------------------------------
(***************************************************************************)
(* The story of the loop, the reports that wait and the board              *)
(***************************************************************************)

\* What is known of a pin is what c changes of it make of it.
Parity(l, n, c) ==
  n \in DOMAIN l.known =>
    l.known[n] = (High(n, c) # ActiveLow(Overrides, l.config, n))

\* Nothing is told that did not happen, nor will the reports that wait lead to it:
\* every pin changed at least as often as the loop has told, an even number of
\* times more or less by what is known of it, and the reports after the first k
\* continue from there.
Ghost(l, moved, q, k) ==
  \A n \in GPIOS :
    \E c \in Nat : /\ l.counted[n] <= c /\ Parity(l, n, c)
                   /\ Rides(n, q, k, c, moved[n])

\* The loop uses every report that it reads.
Listening(l, a) ==
  l.connected /\ ~l.awaiting_config /\ a \notin {"snapshot", "verify"}

\* Each change is told, or is told by the report of it that waits.
Exact(l, D, a, moved, q, k) ==
  \A n \in GPIOS :
    /\ Parity(l, n, l.counted[n])
    /\ Climbs(n, q, l.counted[n], moved[n])
    /\ \A i \in 1 .. Len(q) : Moves(q[i], n) => i > k /\ n \in D /\ Listening(l, a)

\* The reports that the queue of the watcher dropped since the last one in it.
Gap(b) == b.handles[Watch].gap

\* A sequence number after s, with no more than gap reports lost between them.
After(s, seq, gap) == \E d \in 1 .. gap + 1 : seq = (s + d) % SEQ_MOD

\* The first report that is not from before the snapshot comes after it: the loop
\* will not take it for an old one (watch.rs:770).
Reference(l, b, q, k) ==
  \A s \in l.snapshot_seq :
    IF k < Len(q) THEN After(s, q[k + 1].seq, q[k + 1].gap)
                  ELSE Usable(b, Watch) => After(s, b.next_seq, Gap(b))

\* The report shows the board as it is.
Shows(b, r) ==
  /\ r.monitored = MonitoredMask(b.config)
  /\ ~b.overflow => \A n \in r.monitored : n \in r.levels <=> n \in b.levels

\* The last report that waits does, when none was dropped after it.
Latest(b, q) == Usable(b, Watch) /\ Gap(b) = 0 /\ q # <<>> => Shows(b, q[Len(q)])

\* What is known of the pins is true, and for x complete.
Matches(l, D, b, x) ==
  /\ DOMAIN l.known \subseteq MonitoredMask(b.config)
  /\ x => D = MonitoredMask(b.config)
  /\ ~b.overflow =>
       \A n \in DOMAIN l.known :
         l.known[n] = ((n \in b.levels) # ActiveLow(Overrides, l.config, n))

\* It is when nothing waits that has not been used.
Known(l, D, b, a, q, k, x) ==
  Usable(b, Watch) /\ Gap(b) = 0 /\ k = Len(q) /\ l.connected
    /\ ~l.awaiting_config /\ a # "snapshot" => Matches(l, D, b, x)

\* What a loop knows, has told and takes as reference agrees with the reports that
\* wait and with the board: the first k reports are from before the snapshot and
\* will be shed, and the others tell the story of each pin from what is known to
\* the board as it is.  x says that each change is told, and not only no more.
Story(l, D, b, a, q, k, x) ==
  /\ k \in 0 .. Len(q)
  /\ \A i \in 1 .. k : IsStale(l, q[i])
  /\ Reference(l, b, q, k) /\ Latest(b, q) /\ Known(l, D, b, a, q, k, x)
  /\ ~l.blind => Ghost(l, b.moved, q, k)
  /\ x => Exact(l, D, a, b.moved, q, k)

\* A queue of such reports.
PlainQueue(q) == q \in Seq(StatusReports) /\ \A i \in 1 .. Len(q) : Plain(q[i])

\* The loop forgets pins at most, and of the others nothing.
Trims(l, m) ==
  /\ m.counted = l.counted /\ (m.blind <=> l.blind)
  /\ DOMAIN m.known \subseteq DOMAIN l.known
  /\ \A n \in DOMAIN m.known :
       /\ m.known[n] = l.known[n]
       /\ ActiveLow(Overrides, m.config, n) = ActiveLow(Overrides, l.config, n)

\* Whether a pin is active low.
LEMMA OverridesType ==
  ASSUME NEW config, NEW n
  PROVE  ActiveLow(Overrides, config, n) \in BOOLEAN
BY WatchAssumption DEF ActiveLow

\* What is still known is as true as before.
LEMMA TrimsParity ==
  ASSUME NEW l, NEW m, Trims(l, m), NEW n, NEW c, Parity(l, n, c)
  PROVE  Parity(m, n, c)
BY DEF Trims, Parity

\* The loop forgets, disconnects, waits for a CONFIG_CHANGED or goes on with its
\* work, with no report read.
LEMMA StoryTrims ==
  ASSUME NEW l, NEW m, Trims(l, m), NEW D, NEW b, NEW a, NEW z,
         NEW q \in Seq(StatusReports), NEW k, NEW x, Story(l, D, b, a, q, k, x),
         NEW y, y => x,
         m.snapshot_seq = l.snapshot_seq \/ (k = 0 /\ m.snapshot_seq = None),
         \/ ~m.connected \/ m.awaiting_config \/ z = "snapshot"
         \/ k # Len(q)
         \/ l.connected /\ ~l.awaiting_config /\ a # "snapshot",
         \/ ~y
         \/ Listening(l, a) => Listening(m, z)
         \/ \A i \in 1 .. Len(q) : q[i].events = <<>>
  PROVE  Story(m, D, b, z, q, k, y)
<1>1. k \in 0 .. Len(q) /\ Len(q) \in Nat
  BY DEF Story
<1>2. \A i \in 1 .. k : IsStale(m, q[i])
  <2>1. CASE m.snapshot_seq = l.snapshot_seq
    BY <2>1 DEF Story, IsStale
  <2>2. CASE k = 0
    BY <2>2
  <2> QED
    BY <2>1, <2>2
<1>3. Reference(m, b, q, k)
  BY DEF Story, Reference, None
<1>4. Latest(b, q)
  BY DEF Story
<1>5. Known(m, D, b, z, q, k, y)
  <2>1. ASSUME Matches(l, D, b, x) PROVE Matches(m, D, b, y)
    BY <2>1 DEF Matches, Trims
  <2> QED
    BY <2>1 DEF Story, Known
<1>6. ~m.blind => Ghost(m, b.moved, q, k)
  <2>1. ASSUME Ghost(l, b.moved, q, k) PROVE Ghost(m, b.moved, q, k)
    BY <2>1, TrimsParity DEF Ghost, Trims
  <2> QED
    BY <2>1 DEF Story, Trims
<1>7. y => Exact(m, D, z, b.moved, q, k)
  <2> SUFFICES ASSUME y, Exact(l, D, a, b.moved, q, k), NEW n \in GPIOS
               PROVE  /\ Parity(m, n, m.counted[n])
                      /\ Climbs(n, q, m.counted[n], b.moved[n])
                      /\ \A i \in 1 .. Len(q) : Moves(q[i], n) => i > k /\ n \in D /\ Listening(m, z)
    BY DEF Story, Exact
  <2>1. m.counted = l.counted
    BY DEF Trims
  <2>2. /\ Parity(l, n, l.counted[n]) /\ Climbs(n, q, l.counted[n], b.moved[n])
        /\ \A i \in 1 .. Len(q) : Moves(q[i], n) => i > k /\ n \in D /\ Listening(l, a)
    BY DEF Exact
  <2>3. ASSUME NEW i \in 1 .. Len(q), Moves(q[i], n) PROVE Listening(m, z)
    BY <2>2, <2>3 DEF Moves
  <2> QED
    BY <2>1, <2>2, <2>3, TrimsParity
<1> QED
  BY <1>1, <1>2, <1>3, <1>4, <1>5, <1>6, <1>7 DEF Story

\* Two changes at least lie between two moments at which a pin has the same level.
LEMMA Alternates ==
  ASSUME NEW n, NEW c \in Nat, NEW d \in Nat, c < d, High(n, c) <=> High(n, d)
  PROVE  c + 2 <= d
<1>1. (c % 2 = 0) <=> (d % 2 = 0)
  BY DEF High
<1>2. c % 2 = 0 => (c + 1) % 2 # 0
  OBVIOUS
<1>3. c % 2 # 0 => (c + 1) % 2 = 0
  OBVIOUS
<1>4. d # c + 1
  BY <1>1, <1>2, <1>3
<1> QED
  BY <1>4

\* An event is about a monitored pin.
LEMMA PlainMoves ==
  ASSUME NEW r, Plain(r) \/ r.events = <<>>, NEW n, Moves(r, n)
  PROVE  n \in r.monitored
<1>1. PICK m \in r.monitored : r.events = <<[gpio |-> m, level |-> m \in r.levels]>>
  BY DEF Plain, Moves
<1>2. r.events[1] = [gpio |-> m, level |-> m \in r.levels]
  BY <1>1
<1>3. r.events[1].gpio = m
  BY <1>2
<1> QED
  BY <1>3 DEF Moves

\* What a report tells of a pin is what its changes make of it.
LEMMA OnTells ==
  ASSUME NEW l, NEW r, NEW n, n \in r.monitored, NEW d, Shown(r, n, d)
  PROVE  On(l, r, n) = (High(n, d) # ActiveLow(Overrides, l.config, n))
<1> DEFINE low == ActiveLow(Overrides, l.config, n)
           H == High(n, d)
<1>1. low \in BOOLEAN /\ H \in BOOLEAN
  BY OverridesType DEF High
<1>2. n \in r.levels <=> H
  BY DEF Shown
<1>3. On(l, r, n) = ((n \in r.levels) # low)
  BY DEF On
<1> HIDE DEF low, H
<1>4. ((n \in r.levels) # low) = (H # low)
  BY <1>1, <1>2
<1> QED
  BY <1>3, <1>4, Zenon DEF low, H

\* The changes that absorb tells of a pin did happen before the report, and are
\* all of them when each one has a report.
LEMMA ChangeFits ==
  ASSUME NEW l, l.known \in [DOMAIN l.known -> BOOLEAN],
         NEW r \in StatusReports, Plain(r) \/ r.events = <<>>, NEW n \in GPIOS,
         NEW c \in Nat, NEW d \in Nat, Parity(l, n, c), Fits(r, n, c, d)
  PROVE  /\ c + Change(l, r, n) <= d /\ Change(l, r, n) \in Nat
         /\ (Moves(r, n) => n \in DOMAIN l.known)
            /\ d = c + (IF Moves(r, n) THEN 1 ELSE 0) => d = c + Change(l, r, n)
<1> DEFINE low == ActiveLow(Overrides, l.config, n)
<1>1. low \in BOOLEAN
  BY OverridesType
<1>2. c <= d /\ Shown(r, n, d) /\ (Moves(r, n) => c < d)
  BY DEF Fits
<1>3. Moves(r, n) => n \in r.monitored
  BY PlainMoves
<1> HIDE DEF low
<1>4. n \in r.monitored => On(l, r, n) = (High(n, d) # low)
  BY <1>2, OnTells, Zenon DEF low
<1>5. CASE n \notin DOMAIN l.known \cap r.monitored
  <2>1. Change(l, r, n) = 0
    BY <1>5 DEF Change
  <2>2. Moves(r, n) => n \notin DOMAIN l.known
    BY <1>3, <1>5
  <2> QED
    <3>1. c + Change(l, r, n) <= d /\ Change(l, r, n) \in Nat
      BY <1>2, <2>1
    <3> QED
      BY <2>1, <2>2, <3>1
<1>6. CASE n \in DOMAIN l.known \cap r.monitored
  <2>1. l.known[n] = (High(n, c) # low)
    BY <1>6 DEF Parity, low
  <2>2. On(l, r, n) = (High(n, d) # low)
    BY <1>4, <1>6
  <2>3. (On(l, r, n) # l.known[n]) <=> ~(High(n, c) <=> High(n, d))
    <3> DEFINE H == High(n, c)
               I == High(n, d)
    <3>1. H \in BOOLEAN /\ I \in BOOLEAN
      BY DEF High
    <3>2. l.known[n] = (H # low) /\ On(l, r, n) = (I # low)
      BY <2>1, <2>2
    <3> HIDE DEF H, I
    <3>3. ((I # low) # (H # low)) <=> ~(H <=> I)
      BY <1>1, <3>1
    <3> QED
      BY <3>2, <3>3, Zenon DEF H, I
  <2>4. Change(l, r, n) = IF ~(High(n, c) <=> High(n, d)) THEN 1
                          ELSE IF Moves(r, n) THEN 2 ELSE 0
    BY <1>6, <2>3 DEF Change
  <2>5. CASE ~(High(n, c) <=> High(n, d))
    <3>1. c # d
      BY <2>5
    <3>2. Change(l, r, n) = 1
      BY <2>4, <2>5
    <3>3. c + Change(l, r, n) <= d /\ Change(l, r, n) \in Nat
      BY <1>2, <3>1, <3>2
    <3>4. d = c + (IF Moves(r, n) THEN 1 ELSE 0) => d = c + Change(l, r, n)
      BY <3>1, <3>2
    <3> QED
      BY <3>3, <3>4
  <2>6. CASE High(n, c) <=> High(n, d)
    <3>1. c < d => c + 2 <= d
      BY <2>6, Alternates
    <3>2. Change(l, r, n) = IF Moves(r, n) THEN 2 ELSE 0
      BY <2>4, <2>6
    <3>3. c + Change(l, r, n) <= d /\ Change(l, r, n) \in Nat
      BY <1>2, <3>1, <3>2
    <3>4. d = c + (IF Moves(r, n) THEN 1 ELSE 0) => d = c + Change(l, r, n)
      <4>1. Moves(r, n) => d # c + 1
        BY <1>2, <3>1
      <4> QED
        BY <3>2, <4>1
    <3> QED
      BY <3>3, <3>4
  <2> QED
    BY <2>5, <2>6
<1> QED
  BY <1>5, <1>6

-----------------------------------------------------------------------------
(***************************************************************************)
(* A report is used, or dropped                                            *)
(***************************************************************************)

\* After a report is used, the pin is known as the report shows it.
LEMMA AbsorbParity ==
  ASSUME NEW l, Learned(l), NEW r \in StatusReports, Plain(r) \/ r.events = <<>>,
         NEW n, NEW d, Shown(r, n, d)
  PROVE  Parity(Absorb(l, r), n, d)
<1> DEFINE m == Absorb(l, r)
<1>1. m.known = OnOff(Overrides, l.config, r) /\ m.config = l.config
  <2>1. /\ m.known = OnOff(Overrides, l.config, r)
        /\ \A f \in LoopFields \ {"known", "counted"} : m[f] = l[f]
    BY Absorbed DEF Learned
  <2> HIDE DEF m
  <2> QED
    BY <2>1 DEF LoopFields
<1> HIDE DEF m
<1>2. DOMAIN m.known = r.monitored /\ \A o \in r.monitored : m.known[o] = On(l, r, o)
  BY <1>1 DEF OnOff, On
<1>3. n \in r.monitored =>
        On(l, r, n) = (High(n, d) # ActiveLow(Overrides, l.config, n))
  BY OnTells
<1>4. Parity(m, n, d)
  BY <1>1, <1>2, <1>3, Zenon DEF Parity
<1> QED
  BY <1>4 DEF m

\* After a report that shows the board as it is, what is known is true.
LEMMA AbsorbMatches ==
  ASSUME NEW l, Learned(l), NEW r \in StatusReports, Plain(r) \/ r.events = <<>>,
         NEW b, Shows(b, r), NEW x
  PROVE  Matches(Absorb(l, r), r.monitored, b, x)
<1> DEFINE m == Absorb(l, r)
<1>1. m.known = OnOff(Overrides, l.config, r) /\ m.config = l.config
  <2>1. /\ m.known = OnOff(Overrides, l.config, r)
        /\ \A f \in LoopFields \ {"known", "counted"} : m[f] = l[f]
    BY Absorbed DEF Learned
  <2> HIDE DEF m
  <2> QED
    BY <2>1 DEF LoopFields
<1> HIDE DEF m
<1>2. DOMAIN m.known = r.monitored /\ \A n \in r.monitored : m.known[n] = On(l, r, n)
  BY <1>1 DEF OnOff, On
<1>3. ASSUME ~b.overflow, NEW n \in r.monitored
      PROVE  m.known[n] = ((n \in b.levels) # ActiveLow(Overrides, m.config, n))
  <2> DEFINE low == ActiveLow(Overrides, l.config, n)
  <2>1. low \in BOOLEAN
    BY OverridesType
  <2>2. m.known[n] = ((n \in r.levels) # low)
    BY <1>2 DEF On
  <2>3. n \in r.levels <=> n \in b.levels
    BY <1>3 DEF Shows
  <2> HIDE DEF low
  <2>4. ((n \in r.levels) # low) = ((n \in b.levels) # low)
    BY <2>1, <2>3
  <2> QED
    BY <1>1, <2>2, <2>4, Zenon DEF low
<1>4. r.monitored = MonitoredMask(b.config)
  BY DEF Shows
<1>5. Matches(m, r.monitored, b, x)
  BY <1>2, <1>3, <1>4 DEF Matches
<1> QED
  BY <1>5 DEF m

\* The last report stays the last.
LEMMA TailLatest ==
  ASSUME NEW q \in Seq(StatusReports), q # <<>>, NEW b, Latest(b, q)
  PROVE  Latest(b, Tail(q))
<1>1. ASSUME Tail(q) # <<>> PROVE Tail(q)[Len(Tail(q))] = q[Len(q)]
  <2> DEFINE t == Tail(q)
  <2>0. t \in Seq(StatusReports) /\ Len(t) = Len(q) - 1 /\ Len(q) \in Nat
    BY Tailed
  <2> HIDE DEF t
  <2>1. Len(t) # 0 /\ Len(t) = Len(q) - 1 /\ Len(q) \in Nat
    BY <1>1, <2>0 DEF t
  <2>2. Len(t) \in 1 .. Len(t) /\ Len(t) + 1 = Len(q)
    BY <2>0, <2>1
  <2> QED
    BY <2>2, Tailed DEF t
<1> QED
  BY <1>1 DEF Latest

\* The first report that waits is used.
LEMMA StoryAbsorb ==
  ASSUME NEW l, Learned(l), NEW D, NEW b, Bounded(b), NEW a, NEW q \in Seq(StatusReports),
         q # <<>>, Plain(Head(q)), NEW x, Story(l, D, b, a, q, 0, x),
         l.snapshot_seq = None, Listening(l, a) => Listening(l, "idle"),
         Head(q).events = <<>> \/ D = DOMAIN l.known,
         NEW y, y => x /\ D \subseteq Head(q).monitored
  PROVE  LET m == Absorb(l, Head(q))
         IN  Story(m, DOMAIN m.known, b, "idle", Tail(q), 0, y)
<1> DEFINE r == Head(q)
           t == Tail(q)
           m == Absorb(l, r)
<1>1. /\ t \in Seq(StatusReports) /\ Len(q) \in Nat /\ Len(q) > 0
      /\ Len(t) = Len(q) - 1 /\ r = q[1] /\ r \in StatusReports
      /\ \A i \in 1 .. Len(t) : t[i] = q[i + 1]
  BY Tailed
<1>2. Plain(r)
  OBVIOUS
<1> HIDE DEF r
<1>3. /\ m.known = OnOff(Overrides, l.config, r)
      /\ m.counted \in [GPIOS -> Nat]
      /\ \A n \in GPIOS : m.counted[n] = l.counted[n] + Change(l, r, n)
      /\ \A f \in LoopFields \ {"known", "counted"} : m[f] = l[f]
      /\ DOMAIN m = LoopFields
  BY <1>1, <1>2, Absorbed DEF Learned
<1>4. DOMAIN m.known = r.monitored
  BY <1>3 DEF OnOff
<1> HIDE DEF m, t
<1>5. /\ m.snapshot_seq = None /\ m.config = l.config /\ m.blind = l.blind
      /\ m.connected = l.connected /\ m.awaiting_config = l.awaiting_config
  BY <1>3 DEF LoopFields
<1>6. Reference(m, b, t, 0)
  BY <1>5 DEF Reference, None
<1>7. Latest(b, t)
  BY TailLatest DEF Story, t
<1>8. Known(m, r.monitored, b, "idle", t, 0, y)
  <2> SUFFICES ASSUME Usable(b, Watch), Gap(b) = 0, 0 = Len(t)
               PROVE  Matches(m, r.monitored, b, y)
    BY DEF Known
  <2>1. Len(q) = 1 /\ q[Len(q)] = r
    BY <1>1
  <2>2. Shows(b, r)
    BY <2>1 DEF Story, Latest
  <2>3. Matches(Absorb(l, r), r.monitored, b, y)
    BY <1>1, <1>2, <2>2, AbsorbMatches
  <2> QED
    BY <2>3 DEF m
<1>9. b.moved \in [GPIOS -> Nat] /\ l.counted \in [GPIOS -> Nat]
      /\ l.known \in [DOMAIN l.known -> BOOLEAN]
  BY DEF Bounded, Boards, Learned
<1>10. ASSUME Ghost(l, b.moved, q, 0) PROVE Ghost(m, b.moved, t, 0)
  <2> SUFFICES ASSUME NEW n \in GPIOS
               PROVE  \E d \in Nat : /\ m.counted[n] <= d /\ Parity(m, n, d)
                                     /\ Rides(n, t, 0, d, b.moved[n])
    BY DEF Ghost
  <2>1. PICK c \in Nat : /\ l.counted[n] <= c /\ Parity(l, n, c)
                         /\ Rides(n, q, 0, c, b.moved[n])
    BY <1>10 DEF Ghost
  <2>2. b.moved[n] \in Nat /\ l.counted[n] \in Nat /\ 0 \in 0 .. Len(q)
    BY <1>1, <1>9
  <2>3. PICK d \in Nat : Fits(r, n, c, d) /\ Rides(n, t, 0, d, b.moved[n])
    BY <2>1, <2>2, RidesTail DEF r, t
  <2>4. c + Change(l, r, n) <= d /\ Change(l, r, n) \in Nat
    BY <1>1, <1>2, <1>9, <2>1, <2>3, ChangeFits
  <2>5. m.counted[n] <= d
    BY <1>3, <2>1, <2>2, <2>4
  <2>6. Parity(m, n, d)
    BY <1>1, <1>2, <2>3, AbsorbParity DEF Fits, m
  <2> QED
    BY <2>3, <2>5, <2>6
<1>11. ASSUME x, D \subseteq r.monitored, Exact(l, D, a, b.moved, q, 0)
       PROVE  Exact(m, r.monitored, "idle", b.moved, t, 0)
  <2> SUFFICES ASSUME NEW n \in GPIOS
               PROVE  /\ Parity(m, n, m.counted[n])
                      /\ Climbs(n, t, m.counted[n], b.moved[n])
                      /\ \A i \in 1 .. Len(t) : Moves(t[i], n) =>
                           i > 0 /\ n \in r.monitored /\ Listening(m, "idle")
    BY DEF Exact
  <2> DEFINE c == l.counted[n]
             d == c + IF Moves(r, n) THEN 1 ELSE 0
  <2>1. /\ Parity(l, n, c) /\ Climbs(n, q, c, b.moved[n])
        /\ \A i \in 1 .. Len(q) : Moves(q[i], n) => i > 0 /\ n \in D /\ Listening(l, a)
    BY <1>11 DEF Exact
  <2>2. b.moved[n] \in Nat /\ c \in Nat /\ d \in Nat
    BY <1>9
  <2>3. Shown(r, n, d) /\ Climbs(n, t, d, b.moved[n])
    BY <2>1, <2>2, ClimbsTail DEF r, t
  <2>4. Fits(r, n, c, d)
    BY <2>2, <2>3 DEF Fits
  <2>5. Moves(r, n) => n \in DOMAIN l.known
    <3>1. Moves(r, n) => n \in D /\ r.events # <<>>
      BY <1>1, <2>1 DEF Moves
    <3> QED
      BY <3>1 DEF r
  <2>6. d = c + Change(l, r, n)
    BY <1>1, <1>2, <1>9, <2>1, <2>2, <2>4, <2>5, ChangeFits
  <2>7. m.counted[n] = d
    BY <1>3, <2>6
  <2>8. Parity(m, n, d)
    BY <1>1, <1>2, <2>3, AbsorbParity DEF m
  <2>9. ASSUME NEW i \in 1 .. Len(t), Moves(t[i], n)
        PROVE  i > 0 /\ n \in r.monitored /\ Listening(m, "idle")
    <3>1. i + 1 \in 1 .. Len(q) /\ Moves(q[i + 1], n)
      BY <1>1, <2>9
    <3>2. n \in D /\ Listening(l, "idle")
      BY <2>1, <3>1
    <3> QED
      BY <1>5, <1>11, <3>2 DEF Listening
  <2> HIDE DEF d
  <2> QED
    BY <2>3, <2>7, <2>8, <2>9
<1>12. (~m.blind => Ghost(m, b.moved, t, 0)) /\ (y => Exact(m, r.monitored, "idle", b.moved, t, 0))
  BY <1>5, <1>10, <1>11 DEF Story, r
<1>13. Story(m, DOMAIN m.known, b, "idle", t, 0, y)
  BY <1>1, <1>4, <1>6, <1>7, <1>8, <1>12 DEF Story
<1> QED
  BY <1>13 DEF m, r, t

\* The first report that waits is dropped: it is from before the snapshot, or the
\* loop waits for a CONFIG_CHANGED.
LEMMA StoryShed ==
  ASSUME NEW l, Learned(l), NEW D, NEW b, Bounded(b), NEW a, NEW q \in Seq(StatusReports),
         q # <<>>, NEW k, NEW x, Story(l, D, b, a, q, k, x),
         \/ k > 0
         \/ /\ l.snapshot_seq = None /\ (l.awaiting_config \/ ~l.connected)
            /\ Head(q).events = <<>> \/ ~Listening(l, a)
  PROVE  Story(l, D, b, a, Tail(q), IF k > 0 THEN k - 1 ELSE 0, x)
<1> DEFINE r == Head(q)
           t == Tail(q)
           j == IF k > 0 THEN k - 1 ELSE 0
<1>1. /\ t \in Seq(StatusReports) /\ Len(q) \in Nat /\ Len(q) > 0
      /\ Len(t) = Len(q) - 1 /\ r = q[1] /\ r \in StatusReports
      /\ \A i \in 1 .. Len(t) : t[i] = q[i + 1]
  BY Tailed
<1>2. k \in 0 .. Len(q)
  BY DEF Story
<1>3. /\ j \in 0 .. Len(t) /\ (k > 0 => j = k - 1) /\ (k = 0 => j = 0)
      /\ k \in Nat /\ j \in Nat
  BY <1>1, <1>2
<1>4. k = 0 => /\ l.snapshot_seq = None /\ (l.awaiting_config \/ ~l.connected)
               /\ r.events = <<>> \/ ~Listening(l, a)
  OBVIOUS
<1> HIDE DEF r, t, j
<1>5. \A i \in 1 .. j : IsStale(l, t[i])
  <2> SUFFICES ASSUME NEW i \in 1 .. j PROVE IsStale(l, t[i])
    OBVIOUS
  <2>1. i + 1 \in 1 .. k /\ i \in 1 .. Len(t)
    BY <1>1, <1>3
  <2> QED
    BY <1>1, <2>1 DEF Story
<1>6. Reference(l, b, t, j)
  <2>1. CASE k = 0
    BY <1>4, <2>1 DEF Reference, None
  <2>2. CASE k > 0
    <3>1. (j < Len(t) <=> k < Len(q)) /\ (k < Len(q) => t[j + 1] = q[k + 1])
      <4>1. j < Len(t) <=> k < Len(q)
        BY <1>1, <1>3, <2>2
      <4>2. ASSUME k < Len(q) PROVE j + 1 \in 1 .. Len(t) /\ (j + 1) + 1 = k + 1
        BY <1>1, <1>3, <2>2, <4>2
      <4> QED
        BY <1>1, <4>1, <4>2
    <3> QED
      BY <3>1 DEF Story, Reference
  <2> QED
    BY <1>3, <2>1, <2>2
<1>7. Latest(b, t)
  BY TailLatest DEF Story, t
<1>8. Known(l, D, b, a, t, j, x)
  <2>1. CASE k = 0
    BY <1>4, <2>1 DEF Known
  <2>2. CASE k > 0
    <3>1. j = Len(t) <=> k = Len(q)
      BY <1>1, <1>3, <2>2
    <3> QED
      BY <3>1 DEF Story, Known
  <2> QED
    BY <1>3, <2>1, <2>2
<1>9. b.moved \in [GPIOS -> Nat] /\ l.counted \in [GPIOS -> Nat]
  BY DEF Bounded, Boards, Learned
<1>10. ASSUME Ghost(l, b.moved, q, k) PROVE Ghost(l, b.moved, t, j)
  <2> SUFFICES ASSUME NEW n \in GPIOS
               PROVE  \E c \in Nat : /\ l.counted[n] <= c /\ Parity(l, n, c)
                                     /\ Rides(n, t, j, c, b.moved[n])
    BY DEF Ghost
  <2>1. PICK c \in Nat : /\ l.counted[n] <= c /\ Parity(l, n, c)
                         /\ Rides(n, q, k, c, b.moved[n])
    BY <1>10 DEF Ghost
  <2>2. b.moved[n] \in Nat
    BY <1>9
  <2>3. CASE k > 0
    <3>1. Rides(n, t, k - 1, c, b.moved[n])
      BY <1>2, <2>1, <2>2, <2>3, RidesTail DEF t
    <3> QED
      BY <1>3, <2>1, <2>3, <3>1
  <2>4. CASE k = 0
    <3>1. PICK d \in Nat : Fits(r, n, c, d) /\ Rides(n, t, 0, d, b.moved[n])
      BY <1>2, <2>1, <2>2, <2>4, RidesTail DEF t, r
    <3>2. c <= d
      BY <3>1 DEF Fits
    <3>3. Rides(n, t, 0, c, b.moved[n])
      BY <1>1, <2>2, <3>1, <3>2, RidesLess
    <3> QED
      BY <1>3, <2>1, <2>4, <3>3
  <2> QED
    BY <1>3, <2>3, <2>4
<1>11. ASSUME Exact(l, D, a, b.moved, q, k) PROVE Exact(l, D, a, b.moved, t, j)
  <2> SUFFICES ASSUME NEW n \in GPIOS
               PROVE  /\ Parity(l, n, l.counted[n])
                      /\ Climbs(n, t, l.counted[n], b.moved[n])
                      /\ \A i \in 1 .. Len(t) : Moves(t[i], n) =>
                           i > j /\ n \in D /\ Listening(l, a)
    BY DEF Exact
  <2> DEFINE c == l.counted[n]
  <2>1. /\ Parity(l, n, c) /\ Climbs(n, q, c, b.moved[n])
        /\ \A i \in 1 .. Len(q) : Moves(q[i], n) => i > k /\ n \in D /\ Listening(l, a)
    BY <1>11 DEF Exact
  <2>2. b.moved[n] \in Nat /\ c \in Nat
    BY <1>9
  <2>3. ~Moves(r, n)
    <3>1. CASE k > 0
      BY <1>1, <1>3, <2>1, <3>1
    <3>2. CASE k = 0
      <4>1. 1 \in 1 .. Len(q)
        BY <1>1
      <4> QED
        BY <1>1, <1>4, <2>1, <3>2, <4>1 DEF Moves
    <3> QED
      BY <1>3, <3>1, <3>2
  <2>4. c = c + IF Moves(r, n) THEN 1 ELSE 0
    BY <2>2, <2>3
  <2>5. Climbs(n, t, c, b.moved[n])
    BY <2>1, <2>2, <2>4, ClimbsTail DEF r, t
  <2>6. ASSUME NEW i \in 1 .. Len(t), Moves(t[i], n)
        PROVE  i > j /\ n \in D /\ Listening(l, a)
    <3>1. i + 1 \in 1 .. Len(q) /\ Moves(q[i + 1], n)
      BY <1>1, <2>6
    <3>2. i + 1 > k /\ n \in D /\ Listening(l, a)
      BY <2>1, <3>1
    <3>3. i > j
      BY <1>3, <3>1, <3>2
    <3> QED
      BY <3>2, <3>3
  <2> QED
    BY <2>1, <2>5, <2>6
<1>12. Story(l, D, b, a, t, j, x)
  BY <1>3, <1>5, <1>6, <1>7, <1>8, <1>10, <1>11 DEF Story
<1> QED
  BY <1>12 DEF t, j

\* No report waits any more: the handle is closed, or its queue is left behind.
LEMMA StoryGone ==
  ASSUME NEW l, Learned(l), NEW m, Trims(l, m), NEW D, NEW b, Bounded(b), NEW a,
         NEW q \in Seq(StatusReports), NEW k, NEW x, Story(l, D, b, a, q, k, x),
         NEW c, Bounded(c), \A n \in GPIOS : b.moved[n] <= c.moved[n],
         m.snapshot_seq = None \/ ~Usable(c, Watch),
         ~m.connected \/ ~Usable(c, Watch), NEW E, NEW z, NEW y,
         y => /\ x /\ c.moved = b.moved
              /\ \A i \in 1 .. Len(q) : q[i].events = <<>>
  PROVE  Story(m, E, c, z, <<>>, 0, y)
<1>1. Len(<<>>) = 0 /\ <<>> \in Seq(StatusReports) /\ 1 .. 0 = {} /\ 0 \in 0 .. 0
  OBVIOUS
<1>2. Reference(m, c, <<>>, 0)
  BY <1>1 DEF Reference, None
<1>3. Latest(c, <<>>)
  BY DEF Latest
<1>4. Known(m, E, c, z, <<>>, 0, y)
  BY DEF Known
<1>5. /\ b.moved \in [GPIOS -> Nat] /\ c.moved \in [GPIOS -> Nat]
      /\ l.counted \in [GPIOS -> Nat] /\ m.counted = l.counted
  BY DEF Bounded, Boards, Learned, Trims
<1>6. ASSUME Ghost(l, b.moved, q, k) PROVE Ghost(m, c.moved, <<>>, 0)
  <2> SUFFICES ASSUME NEW n \in GPIOS
               PROVE  \E d \in Nat : /\ m.counted[n] <= d /\ Parity(m, n, d)
                                     /\ Rides(n, <<>>, 0, d, c.moved[n])
    BY DEF Ghost
  <2>1. PICK d \in Nat : /\ l.counted[n] <= d /\ Parity(l, n, d)
                         /\ Rides(n, q, k, d, b.moved[n])
    BY <1>6 DEF Ghost
  <2>2. b.moved[n] \in Nat /\ c.moved[n] \in Nat /\ k \in 0 .. Len(q)
    BY <1>5 DEF Story
  <2>3. d <= b.moved[n]
    BY <2>1, <2>2, RidesEnd
  <2>4. d <= c.moved[n]
    BY <2>2, <2>3
  <2>5. Rides(n, <<>>, Len(<<>>), d, c.moved[n])
    BY <1>1, <2>2, <2>4, RidesEnd
  <2> QED
    BY <1>1, <1>5, <2>1, <2>5, TrimsParity
<1>7. ASSUME y, Exact(l, D, a, b.moved, q, k) PROVE Exact(m, E, z, c.moved, <<>>, 0)
  <2> SUFFICES ASSUME NEW n \in GPIOS
               PROVE  Parity(m, n, m.counted[n]) /\ Climbs(n, <<>>, m.counted[n], c.moved[n])
    BY <1>1 DEF Exact
  <2>1. Parity(l, n, l.counted[n]) /\ Climbs(n, q, l.counted[n], b.moved[n])
    BY <1>7 DEF Exact
  <2>2. \A i \in 1 .. Len(q) : ~Moves(q[i], n)
    BY <1>7 DEF Moves
  <2>3. l.counted[n] = b.moved[n] /\ l.counted[n] \in Nat /\ b.moved[n] = c.moved[n]
    BY <1>5, <1>7, <2>1, <2>2, ClimbsStill
  <2>4. Climbs(n, <<>>, l.counted[n], l.counted[n])
    BY <2>3, ClimbsEmpty
  <2> QED
    BY <1>5, <2>1, <2>3, <2>4, TrimsParity
<1> QED
  BY <1>1, <1>2, <1>3, <1>4, <1>6, <1>7 DEF Story, Trims

-----------------------------------------------------------------------------
(***************************************************************************)
(* What the operations of the board send to the watcher                    *)
(***************************************************************************)

\* The reports that wait for the watcher.
Queue(b) == b.handles[Watch].reports

\* The handle is of no use, and its queue is gone.
Ends(d) == ~Usable(d, Watch) /\ Queue(d) = <<>> /\ Gap(d) = 0

\* The watcher is sent nothing.
Silent(b, d) ==
  /\ d.handles[Watch] = b.handles[Watch]
  /\ Usable(b, Watch) =>
       /\ d.next_seq = b.next_seq /\ d.config = b.config
       /\ d.levels = b.levels \/ d.overflow
       /\ b.overflow => d.overflow

\* Reports are sent, and the full queue of the watcher drops them.
Drops(b, d) ==
  /\ Usable(b, Watch) /\ Usable(d, Watch) /\ Queue(d) = Queue(b)
  /\ \E j \in Nat \ {0} : /\ Gap(d) = Gap(b) + j
                          /\ d.next_seq = (b.next_seq + j) % SEQ_MOD

\* A report is sent, and waits.
Appends(b, d, r) ==
  /\ Usable(b, Watch) /\ Usable(d, Watch)
  /\ Queue(d) = Append(Queue(b), r) /\ Gap(d) = 0
  /\ Plain(r) /\ r.seq = b.next_seq /\ r.gap = Gap(b)
  /\ r.levels = d.levels /\ r.monitored = MonitoredMask(d.config)
  /\ ~d.overflow
  /\ \A n \in GPIOS : d.moved[n] = b.moved[n] + IF Moves(r, n) THEN 1 ELSE 0

\* What an operation of the board means for the watcher.  x says that it changed
\* no input without sending a report of it.
Grows(b, d, x) ==
  /\ \A n \in GPIOS : b.moved[n] <= d.moved[n]
  /\ \/ Ends(d) /\ ~x
     \/ Silent(b, d) /\ (x => d.moved = b.moved)
     \/ Drops(b, d)
     \/ \E r \in StatusReports : Appends(b, d, r)

\* Queueing a report.
LEMMA SendGrows ==
  ASSUME NEW b, Bounded(b), NEW m, Bounded(m), m.handles = b.handles,
         m.next_seq = b.next_seq, NEW reason \in Reasons \ {"HOST_REQUEST"},
         NEW edges \in Seq(EdgeEvents),
         \/ edges = <<>> /\ m.moved = b.moved
         \/ /\ reason # "CONFIG_CHANGED"
            /\ \E n \in MonitoredMask(m.config) :
                 /\ edges = <<[gpio |-> n, level |-> n \in m.levels]>>
                 /\ \A o \in GPIOS : m.moved[o] = b.moved[o] + IF o = n THEN 1 ELSE 0
  PROVE  LET d == Send(m, reason, edges)
         IN  /\ \/ ~Usable(b, Watch) /\ d.handles[Watch] = b.handles[Watch]
                \/ Drops(b, d)
                \/ \E r \in StatusReports : Appends(b, d, r)
             /\ d.last_seq = b.next_seq /\ d.next_seq = (b.next_seq + 1) % SEQ_MOD
             /\ d.levels = m.levels /\ d.config = m.config /\ d.moved = m.moved
             /\ d.inputs = m.inputs /\ d.powered = m.powered
<1> DEFINE flags  == IF m.overflow THEN {"OVERFLOW"} ELSE {}
           report == Status(m, {reason}, edges, m.next_seq, flags, 0)
           h      == b.handles[Watch]
           d      == Send(m, reason, edges)
<1>1. /\ m \in Boards /\ h \in Handles /\ Watch \in Clients /\ DOMAIN m = BoardFields
      /\ DOMAIN h = HandleFields /\ b.moved \in [GPIOS -> Nat] /\ m.handles \in [Clients -> Handles]
      /\ h.reports \in Seq(StatusReports) /\ h.gap \in Nat
  BY WatchAssumption DEF Bounded, Boards, BoardFields, Handles, HandleFields
<1>2. report \in StatusReports
  <2>1. m.next_seq \in SeqNumbers /\ flags \in SUBSET Flags /\ {reason} \in SUBSET Reasons
    BY <1>1 DEF Boards, Flags
  <2> QED
    BY <1>1, <2>1, StatusType
<1>3. /\ report.seq = b.next_seq /\ report.reason = {reason} /\ report.events = edges
      /\ report.monitored = MonitoredMask(m.config) /\ report.levels = m.levels
  BY DEF Status
<1>4. /\ d.last_seq = b.next_seq /\ d.next_seq = (b.next_seq + 1) % SEQ_MOD
      /\ d.levels = m.levels /\ d.config = m.config /\ d.moved = m.moved
      /\ d.inputs = m.inputs /\ d.powered = m.powered /\ d.overflow = FALSE
      /\ d.handles[Watch] = Queued(h, report)
  BY <1>1 DEF Send, BoardFields
<1> HIDE DEF report, h, d, flags
<1>5. CASE ~Usable(b, Watch)
  <2>1. Queued(h, report) = h
    BY <1>5 DEF Queued, Usable, h
  <2> QED
    BY <1>4, <1>5, <2>1 DEF h, d
<1>6. CASE Usable(b, Watch) /\ ~(Len(h.reports) < QUEUE_LEN)
  <2>1. Queued(h, report) = [h EXCEPT !.gap = @ + 1]
    BY <1>6 DEF Queued, Usable, h
  <2>2. /\ d.handles[Watch].state = h.state /\ d.handles[Watch].reports = h.reports
        /\ d.handles[Watch].gap = h.gap + 1
    BY <1>1, <1>4, <2>1 DEF HandleFields
  <2>3. 1 \in Nat \ {0}
    OBVIOUS
  <2>4. Drops(b, d)
    BY <1>4, <1>6, <2>2, <2>3 DEF Drops, Usable, Queue, Gap, h
  <2> QED
    BY <1>4, <2>4 DEF d
<1>7. CASE Usable(b, Watch) /\ Len(h.reports) < QUEUE_LEN
  <2> DEFINE r == [report EXCEPT !.gap = h.gap]
  <2>1. Queued(h, report) = [h EXCEPT !.reports = Append(@, r), !.gap = 0]
    BY <1>7 DEF Queued, Usable, h
  <2>2. /\ r \in StatusReports /\ r.gap = h.gap /\ r.seq = report.seq
        /\ r.reason = report.reason /\ r.events = report.events
        /\ r.monitored = report.monitored /\ r.levels = report.levels
    BY <1>1, <1>2 DEF StatusReports
  <2> HIDE DEF r
  <2>3. /\ d.handles[Watch].state = h.state /\ d.handles[Watch].gap = 0
        /\ d.handles[Watch].reports = Append(h.reports, r)
    BY <1>1, <1>4, <2>1 DEF HandleFields
  <2>4. /\ Plain(r)
        /\ \A n \in GPIOS : d.moved[n] = b.moved[n] + IF Moves(r, n) THEN 1 ELSE 0
    <3>1. CASE edges = <<>> /\ m.moved = b.moved
      <4>1. \A n \in GPIOS : ~Moves(r, n) /\ b.moved[n] \in Nat
        BY <1>1, <1>3, <2>2, <3>1 DEF Moves
      <4>2. Plain(r)
        BY <1>3, <2>2, <3>1 DEF Plain
      <4> QED
        BY <1>4, <3>1, <4>1, <4>2
    <3>2. ASSUME reason # "CONFIG_CHANGED", NEW n \in MonitoredMask(m.config),
                 edges = <<[gpio |-> n, level |-> n \in m.levels]>>,
                 \A o \in GPIOS : m.moved[o] = b.moved[o] + IF o = n THEN 1 ELSE 0
          PROVE  /\ Plain(r)
                 /\ \A o \in GPIOS : d.moved[o] = b.moved[o] + IF Moves(r, o) THEN 1 ELSE 0
      <4>1. r.events # <<>> /\ r.events[1] = [gpio |-> n, level |-> n \in m.levels]
        BY <1>3, <2>2, <3>2
      <4>2. \A o : Moves(r, o) <=> o = n
        <5>1. r.events[1].gpio = n
          BY <4>1
        <5> QED
          BY <4>1, <5>1 DEF Moves
      <4>3. Plain(r)
        BY <1>3, <2>2, <3>2 DEF Plain
      <4> QED
        BY <1>4, <3>2, <4>2, <4>3
    <3> QED
      BY <3>1, <3>2
  <2>5. Appends(b, d, r)
    BY <1>3, <1>4, <1>7, <2>2, <2>3, <2>4 DEF Appends, Usable, Queue, Gap, h
  <2> QED
    BY <1>4, <2>2, <2>5 DEF d
<1> QED
  BY <1>5, <1>6, <1>7

\* An operation that puts nothing into the queue.
LEMMA StillGrows ==
  ASSUME NEW b, Bounded(b), NEW d, d.moved = b.moved, NEW x,
         \/ Ends(d) /\ ~x
         \/ d.handles = b.handles /\ ~Usable(b, Watch)
         \/ /\ d.handles = b.handles /\ d.next_seq = b.next_seq /\ d.config = b.config
            /\ d.levels = b.levels /\ d.overflow = b.overflow
  PROVE  Grows(b, d, x)
<1>1. \A n \in GPIOS : b.moved[n] <= d.moved[n]
  BY DEF Bounded, Boards
<1>2. (Ends(d) /\ ~x) \/ Silent(b, d)
  BY DEF Silent
<1> QED
  BY <1>1, <1>2 DEF Grows

\* A report of the board that tells no change.
LEMMA TellsGrows ==
  ASSUME NEW b, Bounded(b), NEW m, Bounded(m), m.handles = b.handles,
         m.next_seq = b.next_seq, m.moved = b.moved,
         NEW reason \in Reasons \ {"HOST_REQUEST"}
  PROVE  /\ Grows(b, Send(m, reason, <<>>), TRUE)
         /\ \A n \in GPIOS : b.moved[n] \in Nat
<1> DEFINE d == Send(m, reason, <<>>)
<1>1. /\ \/ ~Usable(b, Watch) /\ d.handles[Watch] = b.handles[Watch]
         \/ Drops(b, d)
         \/ \E r \in StatusReports : Appends(b, d, r)
      /\ d.moved = b.moved
  BY EventLists, SendGrows, ZenonT(30)
<1>2. \A n \in GPIOS : b.moved[n] \in Nat
  BY DEF Bounded, Boards
<1> HIDE DEF d
<1>3. Grows(b, d, TRUE)
  BY <1>1, <1>2 DEF Grows, Silent
<1> QED
  BY <1>2, <1>3 DEF d

\* A board that goes away takes the queue with it.
LEMMA FailedHandle ==
  ASSUME NEW b, Bounded(b), NEW d, d.handles = FailHandles(b).handles, d.moved = b.moved
  PROVE  Grows(b, d, FALSE)
<1>1. /\ b \in Boards /\ Watch \in Clients /\ DOMAIN b = BoardFields
      /\ b.handles \in [Clients -> Handles]
  BY WatchAssumption DEF Bounded, Boards, BoardFields
<1>2. d.handles[Watch] = IF Usable(b, Watch) THEN Failed ELSE b.handles[Watch]
  BY <1>1 DEF FailHandles, BoardFields, Usable
<1>3. Failed.state = "failed" /\ Failed.reports = <<>> /\ Failed.gap = 0
  BY DEF Failed, Closed
<1>4. CASE Usable(b, Watch)
  <2>1. Ends(d)
    BY <1>2, <1>3, <1>4 DEF Ends, Queue, Gap, Usable
  <2> QED
    BY <2>1, StillGrows
<1>5. CASE ~Usable(b, Watch)
  <2>1. Silent(b, d)
    BY <1>2, <1>5 DEF Silent
  <2>2. \A n \in GPIOS : b.moved[n] <= d.moved[n]
    BY <1>1 DEF Boards
  <2> QED
    BY <2>1, <2>2 DEF Grows
<1> QED
  BY <1>4, <1>5

\* The operations that concern no single pin.
LEMMA OperationsGrow ==
  ASSUME NEW b, Bounded(b), BoardOK(b)
  PROVE  /\ ~b.powered => Grows(b, Plug(b), FALSE)
         /\ Grows(b, Unplug(b), FALSE)
         /\ Grows(b, Reenumerate(b), FALSE)
         /\ Grows(b, Suspend(b), TRUE)
         /\ Grows(b, SkipReports(b, 1), FALSE)
         /\ Grows(b, Periodic(b), TRUE)
         /\ Grows(b, WriteOutputs(b, GPIOS, GPIOS), TRUE)
         /\ Grows(b, [b EXCEPT !.open_error = ~@], TRUE)
         /\ Grows(b, [b EXCEPT !.version_ok = ~@], TRUE)
<1>1. /\ b \in Boards /\ Watch \in Clients /\ DOMAIN b = BoardFields
      /\ b.handles \in [Clients -> Handles] /\ b.moved \in [GPIOS -> Nat]
      /\ b.next_seq \in SeqNumbers
  BY WatchAssumption DEF Bounded, Boards, BoardFields
<1>2. ASSUME ~b.powered PROVE Grows(b, Plug(b), FALSE)
  <2>1. ~Usable(b, Watch)
    BY <1>1, <1>2 DEF BoardOK, Usable
  <2>2. Plug(b).handles = b.handles /\ Plug(b).moved = b.moved
    BY <1>1 DEF Plug, BoardFields
  <2> QED
    BY <2>1, <2>2, StillGrows
<1>3. Grows(b, Unplug(b), FALSE)
  <2>1. Unplug(b).handles = FailHandles(b).handles /\ Unplug(b).moved = b.moved
    BY <1>1 DEF Unplug, FailHandles, BoardFields
  <2> QED
    BY <2>1, FailedHandle
<1>4. Grows(b, Reenumerate(b), FALSE)
  <2>1. /\ Reenumerate(b).handles = FailHandles(b).handles
        /\ Reenumerate(b).moved = b.moved
    BY <1>1 DEF Reenumerate, OutputsReset, FailHandles, BoardFields
  <2> QED
    BY <2>1, FailedHandle
<1>5. Grows(b, Suspend(b), TRUE)
  <2>1. CASE OutputsMask(b.config) = {}
    BY <2>1, StillGrows DEF Suspend
  <2>2. CASE OutputsMask(b.config) # {}
    <3>1. /\ OutputsReset(b).handles = b.handles /\ OutputsReset(b).moved = b.moved
          /\ OutputsReset(b).next_seq = b.next_seq
      BY <1>1 DEF OutputsReset, BoardFields
    <3>2. Bounded(OutputsReset(b)) /\ "OUTPUT_RESET" \in Reasons \ {"HOST_REQUEST"}
      BY SmallStepTypes DEF Reasons
    <3> QED
      BY <2>2, <3>1, <3>2, TellsGrows DEF Suspend
  <2> QED
    BY <2>1, <2>2
<1>6. Grows(b, SkipReports(b, 1), FALSE)
  <2> DEFINE d == SkipReports(b, 1)
  <2>1. /\ d.handles[Watch] = Skipped(b.handles[Watch], 1) /\ d.moved = b.moved
        /\ d.next_seq = (b.next_seq + 1) % SEQ_MOD
    BY <1>1 DEF SkipReports, BoardFields
  <2> HIDE DEF d
  <2>2. CASE ~Usable(b, Watch)
    <3>1. Silent(b, d)
      BY <2>1, <2>2 DEF Skipped, Usable, Silent
    <3>2. Grows(b, d, FALSE)
      BY <1>1, <2>1, <3>1 DEF Grows
    <3> QED
      BY <3>2 DEF d
  <2>3. CASE Usable(b, Watch)
    <3>1. /\ d.handles[Watch].state = "open" /\ d.handles[Watch].reports = b.handles[Watch].reports
          /\ d.handles[Watch].gap = b.handles[Watch].gap + 1
      BY <1>1, <2>1, <2>3 DEF Skipped, Usable, Handles
    <3>2. 1 \in Nat \ {0}
      OBVIOUS
    <3>3. Drops(b, d)
      BY <2>1, <2>3, <3>1, <3>2 DEF Drops, Usable, Queue, Gap
    <3>4. Grows(b, d, FALSE)
      BY <1>1, <2>1, <3>3 DEF Grows
    <3> QED
      BY <3>4 DEF d
  <2> QED
    BY <2>2, <2>3
<1>7. Grows(b, Periodic(b), TRUE)
  BY TellsGrows DEF Periodic, Reasons
<1>8. Grows(b, WriteOutputs(b, GPIOS, GPIOS), TRUE)
  <2> DEFINE driven == GPIOS \cap OutputsMask(b.config)
             m == [b EXCEPT !.levels = (@ \ driven) \cup (GPIOS \cap driven)]
  <2>1. m.handles = b.handles /\ m.moved = b.moved /\ m.next_seq = b.next_seq
    BY <1>1 DEF BoardFields
  <2>2. (b.levels \ driven) \cup (GPIOS \cap driven) \in SUBSET GPIOS
    BY <1>1 DEF Boards
  <2>3. Bounded(m)
    BY <2>2, FieldTypes
  <2>4. "OUTPUT_APPLIED" \in Reasons \ {"HOST_REQUEST"}
    BY DEF Reasons
  <2> QED
    BY <2>1, <2>3, <2>4, TellsGrows DEF WriteOutputs
<1>9. /\ Grows(b, [b EXCEPT !.open_error = ~@], TRUE)
      /\ Grows(b, [b EXCEPT !.version_ok = ~@], TRUE)
  <2>1. ASSUME NEW d, \A f \in BoardFields \ {"open_error", "version_ok"} : d[f] = b[f]
        PROVE  Grows(b, d, TRUE)
    <3>1. /\ d.moved = b.moved /\ d.handles = b.handles /\ d.next_seq = b.next_seq
          /\ d.config = b.config /\ d.levels = b.levels /\ d.overflow = b.overflow
      BY <2>1 DEF BoardFields
    <3> QED
      BY <3>1, StillGrows
  <2>2. \A x : \A f \in BoardFields \ {"open_error", "version_ok"} :
          /\ [b EXCEPT !.open_error = x][f] = b[f]
          /\ [b EXCEPT !.version_ok = x][f] = b[f]
    BY <1>1
  <2>3. \A x : /\ Grows(b, [b EXCEPT !.open_error = x], TRUE)
               /\ Grows(b, [b EXCEPT !.version_ok = x], TRUE)
    BY <2>1, <2>2
  <2> QED
    BY <2>3, Zenon
<1> QED
  BY <1>2, <1>3, <1>4, <1>5, <1>6, <1>7, <1>8, <1>9

\* A Set.
LEMMA WriteGrows ==
  ASSUME NEW b, Bounded(b), NEW p, Payload(p)
  PROVE  Grows(b, WriteConfig(b, p), TRUE)
<1> DEFINE answer == ValidatePinConfigPayload(p, Available)
           told == [b EXCEPT !.result = answer.result, !.request_id = answer.request_id]
           next == [told EXCEPT !.levels = LevelsAfter(b, p.pins), !.config = p.pins]
<1>1. b \in Boards /\ DOMAIN b = BoardFields
  BY DEF Bounded, Boards, BoardFields
<1>2. /\ answer.result \in Results /\ answer.request_id \in 0 .. 255
      /\ answer.result = "OK" => p.pins \in ValidConfigs
  BY AnswerType
<1> HIDE DEF answer
<1>3. /\ told.handles = b.handles /\ told.next_seq = b.next_seq /\ told.config = b.config
      /\ told.levels = b.levels /\ told.overflow = b.overflow /\ told.moved = b.moved
      /\ DOMAIN told = BoardFields /\ Bounded(told)
  BY <1>1, <1>2, FieldTypes DEF BoardFields
<1> HIDE DEF told
<1>4. CASE answer.result # "OK" \/ p.pins = b.config
  <2>1. WriteConfig(b, p) = told
    BY <1>4 DEF WriteConfig, answer, told
  <2> QED
    BY <1>3, <2>1, StillGrows
<1>5. CASE ~(answer.result # "OK" \/ p.pins = b.config)
  <2>1. WriteConfig(b, p) = Send(next, "CONFIG_CHANGED", <<>>)
    BY <1>5 DEF WriteConfig, answer, told
  <2>2. next.handles = b.handles /\ next.next_seq = b.next_seq /\ next.moved = b.moved
    BY <1>3 DEF BoardFields
  <2>3. LevelsAfter(b, p.pins) \in SUBSET GPIOS /\ p.pins \in ValidConfigs
    BY <1>2, <1>5 DEF LevelsAfter
  <2>4. Bounded(next)
    BY <1>3, <2>3, FieldTypes
  <2> QED
    BY <2>1, <2>2, <2>4, TellsGrows DEF Reasons
<1> QED
  BY <1>4, <1>5

\* A switch that changes.
LEMMA InputGrows ==
  ASSUME NEW b, Bounded(b), NEW n \in GPIOS, NEW high \in BOOLEAN,
         high <=> n \notin b.inputs
  PROVE  /\ \A x : (x => /\ Usable(b, Watch) /\ b.powered /\ IsMonitored(b.config[n])
                         /\ ~((n \in b.levels) <=> high))
                      => Grows(b, SetInput(b, n, high), x)
         /\ Grows(b, LoseInput(b, n, high), FALSE)
<1> DEFINE moved == WithInput(b, n, high)
           told == WithLevel(moved, n)
<1>1. /\ b \in Boards /\ DOMAIN b = BoardFields /\ b.moved \in [GPIOS -> Nat]
      /\ b.config \in [GPIOS -> [mode : Modes, param : 0 .. 255]]
  BY DEF Bounded, Boards, BoardFields, ValidConfigs, PinConfigs
<1>2. Bounded(moved) /\ Bounded(told)
  BY SmallStepTypes
<1>3. /\ moved.handles = b.handles /\ moved.next_seq = b.next_seq
      /\ moved.config = b.config /\ moved.overflow = b.overflow
      /\ moved.levels = b.levels /\ moved.powered = b.powered
      /\ moved.inputs = (IF high THEN b.inputs \cup {n} ELSE b.inputs \ {n})
      /\ \A o \in GPIOS : moved.moved[o] = b.moved[o] + IF o = n THEN 1 ELSE 0
      /\ DOMAIN moved = BoardFields
  BY <1>1 DEF WithInput, BoardFields
<1>4. n \in moved.inputs <=> high
  BY <1>3
<1> HIDE DEF moved
<1>5. /\ told.handles = b.handles /\ told.next_seq = b.next_seq
      /\ told.config = b.config /\ told.overflow = b.overflow /\ told.moved = moved.moved
      /\ n \in told.levels <=> high
      /\ DOMAIN told = BoardFields
  BY <1>3, <1>4 DEF WithLevel, BoardFields
<1>6. \A o \in GPIOS : b.moved[o] \in Nat /\ b.moved[o] <= moved.moved[o]
  BY <1>1, <1>3
<1>7. Silent(b, moved)
  BY <1>3 DEF Silent
<1> HIDE DEF told
<1>8. ASSUME NEW x, x => /\ Usable(b, Watch) /\ b.powered /\ IsMonitored(b.config[n])
                         /\ ~((n \in b.levels) <=> high)
      PROVE  Grows(b, SetInput(b, n, high), x)
  <2>1. CASE ~b.powered \/ ~IsMonitored(b.config[n]) \/ ((n \in b.levels) <=> high)
    <3>1. SetInput(b, n, high) = moved
      BY <1>3, <2>1 DEF SetInput, moved
    <3> QED
      BY <1>6, <1>7, <1>8, <2>1, <3>1 DEF Grows
  <2>2. CASE ~(~b.powered \/ ~IsMonitored(b.config[n]) \/ ((n \in b.levels) <=> high))
    <3> DEFINE edges == <<[gpio |-> n, level |-> n \in told.levels]>>
               d == Send(told, "LEVEL_CHANGED", edges)
    <3>1. (n \in told.levels) = high
      BY <1>5
    <3>2. SetInput(b, n, high) = d
      BY <1>3, <2>2, <3>1 DEF SetInput, moved, told
    <3>3. edges \in Seq(EdgeEvents) /\ n \in MonitoredMask(told.config)
      BY <1>5, <2>2, EventLists DEF MonitoredMask
    <3>4. "LEVEL_CHANGED" \in Reasons \ {"HOST_REQUEST"} /\ "LEVEL_CHANGED" # "CONFIG_CHANGED"
      BY DEF Reasons
    <3>5. \A o \in GPIOS : told.moved[o] = b.moved[o] + IF o = n THEN 1 ELSE 0
      BY <1>3, <1>5
    <3>9. \/ edges = <<>> /\ told.moved = b.moved
          \/ /\ "LEVEL_CHANGED" # "CONFIG_CHANGED"
             /\ \E i \in MonitoredMask(told.config) :
                  /\ edges = <<[gpio |-> i, level |-> i \in told.levels]>>
                  /\ \A o \in GPIOS : told.moved[o] = b.moved[o] + IF o = i THEN 1 ELSE 0
      BY <3>3, <3>4, <3>5
    <3>10. edges \in Seq(EdgeEvents)
      BY <3>3
    <3> HIDE DEF edges
    <3>6. /\ \/ ~Usable(b, Watch) /\ d.handles[Watch] = b.handles[Watch]
             \/ Drops(b, d)
             \/ \E r \in StatusReports : Appends(b, d, r)
          /\ d.moved = told.moved
      BY <1>2, <1>5, <3>4, <3>9, <3>10, SendGrows
    <3> HIDE DEF d
    <3>7. \A o \in GPIOS : b.moved[o] <= d.moved[o]
      BY <1>5, <1>6, <3>6
    <3>8. CASE ~Usable(b, Watch) /\ d.handles[Watch] = b.handles[Watch]
      <4>1. Silent(b, d) /\ ~x
        BY <1>8, <3>8 DEF Silent
      <4> QED
        BY <3>2, <3>7, <4>1 DEF Grows
    <3> QED
      BY <3>2, <3>6, <3>7, <3>8 DEF Grows
  <2> QED
    BY <2>1, <2>2
<1>9. Grows(b, LoseInput(b, n, high), FALSE)
  <2>1. CASE ~IsMonitored(b.config[n])
    <3>1. LoseInput(b, n, high) = moved
      BY <1>3, <2>1 DEF LoseInput, moved
    <3> QED
      BY <1>6, <1>7, <3>1 DEF Grows
  <2>2. CASE IsMonitored(b.config[n])
    <3> DEFINE d == [told EXCEPT !.overflow = TRUE]
    <3>1. LoseInput(b, n, high) = d
      BY <1>3, <2>2 DEF LoseInput, moved, told
    <3>2. /\ d.handles = b.handles /\ d.next_seq = b.next_seq /\ d.config = b.config
          /\ d.overflow /\ d.moved = moved.moved
      BY <1>5 DEF BoardFields
    <3> HIDE DEF d
    <3>3. Silent(b, d)
      BY <3>2 DEF Silent
    <3> QED
      BY <1>6, <3>1, <3>2, <3>3 DEF Grows
  <2> QED
    BY <2>1, <2>2
<1> QED
  BY <1>8, <1>9

-----------------------------------------------------------------------------
(***************************************************************************)
(* What the helpers of the loop leave of what it knows                     *)
(***************************************************************************)

\* The loop goes on with what it knows, or forgets a part of it.
Adopts(l, m) ==
  /\ Trims(l, m) /\ Learned(m)
  /\ m.snapshot_seq = l.snapshot_seq /\ m.settle_at = l.settle_at
  /\ (m.connected <=> l.connected) /\ (m.awaiting_config <=> l.awaiting_config)

\* Forgetting, and forgetting more.
LEMMA TrimsTransitive ==
  /\ \A l : Trims(l, l)
  /\ \A l, m, n : Trims(l, m) /\ Trims(m, n) => Trims(l, n)
BY DEF Trims

\* One helper after another.
LEMMA AdoptsTransitive ==
  ASSUME NEW l, NEW m, NEW n, Adopts(l, m), Adopts(m, n)
  PROVE  Adopts(l, n)
<1>1. Trims(l, n)
  BY TrimsTransitive DEF Adopts
<1> QED
  BY <1>1 DEF Adopts

\* A helper that touches nothing of what the loop knows.
LEMMA LeavesAdopts ==
  ASSUME NEW l, Learned(l), NEW m, DOMAIN m = LoopFields, m.known = l.known,
         m.counted = l.counted, m.config = l.config, m.blind <=> l.blind,
         m.scan_at \in {Never} \cup Nat
  PROVE  /\ Trims(l, m)
         /\ m.snapshot_seq \subseteq SeqNumbers /\ m.settle_at \in {Never} \cup Nat => Learned(m)
         /\ (/\ m.snapshot_seq = l.snapshot_seq /\ m.settle_at = l.settle_at
             /\ (m.connected <=> l.connected) /\ (m.awaiting_config <=> l.awaiting_config))
              => Adopts(l, m)
<1>1. Trims(l, m)
  BY DEF Trims
<1>2. ASSUME m.snapshot_seq \subseteq SeqNumbers, m.settle_at \in {Never} \cup Nat
      PROVE  Learned(m)
  <2>1. /\ m.config \in ValidConfigs /\ m.counted \in [GPIOS -> Nat]
        /\ DOMAIN m.known \subseteq GPIOS /\ m.known \in [DOMAIN m.known -> BOOLEAN]
    BY Zenon DEF Learned
  <2>2. {m.scan_at, m.settle_at} \subseteq {Never} \cup Nat
    BY <1>2
  <2> QED
    BY <1>2, <2>1, <2>2, Zenon DEF Learned
<1>3. l.snapshot_seq \subseteq SeqNumbers /\ l.settle_at \in {Never} \cup Nat
  BY DEF Learned
<1> QED
  BY <1>1, <1>2, <1>3 DEF Adopts

\* The helpers that do not.
LEMMA HelpersAdopt ==
  ASSUME NEW l, Learned(l)
  PROVE  /\ Adopts(l, l)
         /\ \A gpios : Adopts(l, TellReset(l, gpios))
         /\ \A cause : Adopts(l, FailedAttempt(l, cause))
         /\ Adopts(l, [ResetFailures(l) EXCEPT !.scan_at = SCAN_INTERVAL])
         /\ \A id : Adopts(l, [l EXCEPT !.last_request_id = id])
         /\ Adopts(l, [l EXCEPT !.met = TRUE])
         /\ \A target : Adopts(l, [l EXCEPT !.target = target])
         /\ \A target, timer : Adopts(l, [l EXCEPT !.target = target, !.restore_at = timer])
         /\ \A timer : Adopts(l, [l EXCEPT !.restore_at = timer])
         /\ Adopts(l, StartRestore(l))
         /\ \A untold : Adopts(l, [l EXCEPT !.untold = untold])
<1> DEFINE Same8(m) == \A f \in LoopFields \ {"untold", "failures", "failure", "scan_at",
                                       "last_request_id", "met", "target", "restore_at",
                                       "since_restore"} : m[f] = l[f]
<1>0. DOMAIN l = LoopFields /\ l.scan_at \in {Never} \cup Nat
      /\ SCAN_INTERVAL \in {Never} \cup Nat
  BY WatchAssumption DEF Learned
<1>1. ASSUME NEW m, DOMAIN m = LoopFields, Same8(m), m.scan_at \in {Never} \cup Nat
      PROVE  Adopts(l, m)
  <2>1. /\ m.known = l.known /\ m.counted = l.counted /\ m.config = l.config
        /\ (m.blind <=> l.blind) /\ m.snapshot_seq = l.snapshot_seq
        /\ m.settle_at = l.settle_at /\ (m.connected <=> l.connected)
        /\ (m.awaiting_config <=> l.awaiting_config)
    BY <1>1 DEF LoopFields
  <2> QED
    BY <1>1, <2>1, LeavesAdopts
<1>2. Adopts(l, l)
  BY <1>0, <1>1
<1>3. \A gpios : Adopts(l, TellReset(l, gpios))
  <2> SUFFICES ASSUME NEW gpios PROVE Adopts(l, TellReset(l, gpios))
    OBVIOUS
  <2> DEFINE m == TellReset(l, gpios)
  <2>1. DOMAIN m = LoopFields /\ Same8(m) /\ m.scan_at \in {Never} \cup Nat
    BY <1>0 DEF TellReset, LoopFields
  <2> HIDE DEF m, Same8
  <2>2. Adopts(l, m)
    BY <1>1, <2>1
  <2> QED
    BY <2>2 DEF m
<1>4. \A cause : Adopts(l, FailedAttempt(l, cause))
  <2> SUFFICES ASSUME NEW cause PROVE Adopts(l, FailedAttempt(l, cause))
    OBVIOUS
  <2> DEFINE m == FailedAttempt(l, cause)
  <2>1. DOMAIN m = LoopFields /\ Same8(m) /\ m.scan_at = SCAN_INTERVAL
    BY <1>0 DEF FailedAttempt, LoopFields
  <2> HIDE DEF m, Same8
  <2>2. Adopts(l, m)
    BY <1>0, <1>1, <2>1
  <2> QED
    BY <2>2 DEF m
<1>5. Adopts(l, [ResetFailures(l) EXCEPT !.scan_at = SCAN_INTERVAL])
  <2> DEFINE m == [ResetFailures(l) EXCEPT !.scan_at = SCAN_INTERVAL]
  <2>1. DOMAIN m = LoopFields /\ Same8(m) /\ m.scan_at = SCAN_INTERVAL
    BY <1>0 DEF ResetFailures, LoopFields
  <2> HIDE DEF m, Same8
  <2>2. Adopts(l, m)
    BY <1>0, <1>1, <2>1
  <2> QED
    BY <2>2 DEF m
<1>6. \A x : /\ Adopts(l, [l EXCEPT !.last_request_id = x])
             /\ Adopts(l, [l EXCEPT !.met = x])
             /\ Adopts(l, [l EXCEPT !.target = x])
             /\ Adopts(l, [l EXCEPT !.restore_at = x])
             /\ Adopts(l, [l EXCEPT !.untold = x])
  <2> SUFFICES ASSUME NEW x, NEW m,
                      m \in {[l EXCEPT !.last_request_id = x], [l EXCEPT !.met = x],
                             [l EXCEPT !.target = x], [l EXCEPT !.restore_at = x],
                             [l EXCEPT !.untold = x]}
               PROVE  Adopts(l, m)
    BY Zenon
  <2>1. DOMAIN m = LoopFields /\ Same8(m) /\ m.scan_at = l.scan_at
    BY <1>0 DEF LoopFields
  <2> HIDE DEF Same8
  <2> QED
    BY <1>0, <1>1, <2>1
<1>7. \A x, y : Adopts(l, [l EXCEPT !.target = x, !.restore_at = y])
  <2> SUFFICES ASSUME NEW x, NEW y, NEW m, m = [l EXCEPT !.target = x, !.restore_at = y]
               PROVE  Adopts(l, m)
    BY Zenon
  <2>1. DOMAIN m = LoopFields /\ Same8(m) /\ m.scan_at = l.scan_at
    BY <1>0 DEF LoopFields
  <2> HIDE DEF Same8
  <2> QED
    BY <1>0, <1>1, <2>1
<1>8. Adopts(l, StartRestore(l))
  <2> DEFINE m == StartRestore(l)
  <2>1. DOMAIN m = LoopFields /\ Same8(m) /\ m.scan_at = l.scan_at
    BY <1>0 DEF StartRestore, LoopFields
  <2> HIDE DEF m, Same8
  <2>2. Adopts(l, m)
    BY <1>0, <1>1, <2>1
  <2> QED
    BY <2>2 DEF m
<1> QED
  BY <1>2, <1>3, <1>4, <1>5, <1>6, <1>7, <1>8, Zenon

\* A new configuration: pins that it does not monitor, or whose polarity it
\* turns over, are forgotten (watch.rs:882).
LEMMA SetConfigAdopts ==
  ASSUME NEW l, Learned(l), NEW config \in ValidConfigs
  PROVE  /\ Adopts(l, SetConfig(l, config))
         /\ SetConfig(l, config).scan_at = l.scan_at
<1> DEFINE m == SetConfig(l, config)
           kept == {n \in DOMAIN l.known :
                      IsMonitored(config[n]) /\ config[n].mode = l.config[n].mode}
<1>1. /\ DOMAIN l = LoopFields /\ DOMAIN l.known \subseteq GPIOS
      /\ l.known \in [DOMAIN l.known -> BOOLEAN]
  BY DEF Learned
<1>2. m = [l EXCEPT !.known = [n \in kept |-> l.known[n]], !.config = config]
  BY DEF SetConfig
<1>3. \A n \in kept : /\ n \in DOMAIN l.known
                      /\ config[n].mode = l.config[n].mode
  OBVIOUS
<1> HIDE DEF m, kept
<1>4. /\ DOMAIN m = LoopFields /\ m.known = [n \in kept |-> l.known[n]] /\ m.config = config
      /\ \A f \in LoopFields \ {"known", "config"} : m[f] = l[f]
  BY <1>1, <1>2 DEF LoopFields
<1>5. /\ m.counted = l.counted /\ m.blind = l.blind /\ m.snapshot_seq = l.snapshot_seq
      /\ m.settle_at = l.settle_at /\ m.scan_at = l.scan_at /\ m.connected = l.connected
      /\ m.awaiting_config = l.awaiting_config
  BY <1>4 DEF LoopFields
<1>6. DOMAIN m.known = kept /\ \A n \in kept : m.known[n] = l.known[n]
  BY <1>4
<1>7. \A n \in kept : ActiveLow(Overrides, config, n) = ActiveLow(Overrides, l.config, n)
  BY <1>3 DEF ActiveLow
<1>8. Trims(l, m)
  BY <1>3, <1>4, <1>5, <1>6, <1>7 DEF Trims
<1>9. DOMAIN m.known \subseteq GPIOS /\ m.known \in [DOMAIN m.known -> BOOLEAN]
  BY <1>1, <1>3, <1>4, <1>6
<1>10. Learned(m)
  BY <1>4, <1>5, <1>9 DEF Learned
<1> QED
  BY <1>5, <1>8, <1>10 DEF Adopts, m

\* The end of a connection.
Parts(l, m) ==
  /\ Trims(l, m) /\ Learned(m)
  /\ ~m.connected /\ ~m.awaiting_config /\ m.snapshot_seq = None /\ m.settle_at = Never

\* The connection is given up.
LEMMA DropParts ==
  ASSUME NEW l, Learned(l), l.connected
  PROVE  Parts(l, DropConnection(l)) /\ Parts(l, Lost(l))
<1> DEFINE m == DropConnection(l)
           n == [m EXCEPT !.scan_at = SCAN_INTERVAL]
<1>1. DOMAIN l = LoopFields /\ l.scan_at \in {Never} \cup Nat
      /\ SCAN_INTERVAL \in {Never} \cup Nat
  BY WatchAssumption DEF Learned
<1>2. /\ DOMAIN m = LoopFields /\ m.known = l.known /\ m.counted = l.counted
      /\ m.config = l.config /\ m.blind = l.blind /\ m.scan_at = l.scan_at
      /\ ~m.connected /\ ~m.awaiting_config /\ m.snapshot_seq = None /\ m.settle_at = Never
  BY <1>1 DEF DropConnection, LoopFields
<1>3. Lost(l) = n
  BY DEF Lost
<1> HIDE DEF m
<1>4. /\ DOMAIN n = LoopFields /\ n.known = l.known /\ n.counted = l.counted
      /\ n.config = l.config /\ n.blind = l.blind /\ n.scan_at = SCAN_INTERVAL
      /\ ~n.connected /\ ~n.awaiting_config /\ n.snapshot_seq = None /\ n.settle_at = Never
  BY <1>2 DEF LoopFields
<1> HIDE DEF n
<1>5. None \subseteq SeqNumbers /\ Never \in {Never} \cup Nat
  BY DEF None
<1>6. Trims(l, m) /\ Learned(m)
  BY <1>1, <1>2, <1>5, LeavesAdopts
<1>7. Trims(l, n) /\ Learned(n)
  BY <1>1, <1>4, <1>5, LeavesAdopts
<1>8. Parts(l, m) /\ Parts(l, n)
  BY <1>2, <1>4, <1>6, <1>7 DEF Parts
<1> QED
  BY <1>3, <1>8 DEF m

\* What a report does before it is used.
LEMMA NoticedTrims ==
  ASSUME NEW l, Learned(l), NEW r, "HOST_REQUEST" \notin r.reason
  PROVE  LET m == Noticed(l, r)
             changed == "CONFIG_CHANGED" \in r.reason /\ ~IsStale(l, r)
         IN  /\ Trims(l, m) /\ Learned(m) /\ (m.connected <=> l.connected)
             /\ m.known = l.known
             /\ m.snapshot_seq = (IF IsStale(l, r) THEN l.snapshot_seq ELSE None)
             /\ m.awaiting_config <=> l.awaiting_config /\ ~changed
             /\ m.settle_at = (IF changed THEN Never ELSE l.settle_at)
<1> DEFINE stale == IsStale(l, r)
           changed == "CONFIG_CHANGED" \in r.reason /\ ~stale
           snapshot == IF stale \/ "HOST_REQUEST" \in r.reason THEN l.snapshot_seq ELSE None
           awaiting == l.awaiting_config /\ ~changed
           settle == IF changed THEN Never ELSE l.settle_at
           told == IF "OUTPUT_RESET" \in r.reason THEN r.outputs ELSE {}
           m == TellReset([l EXCEPT !.snapshot_seq = snapshot, !.awaiting_config = awaiting,
                                    !.settle_at = settle], told)
<1>1. Noticed(l, r) = m
  BY DEF Noticed
<1>2. DOMAIN l = LoopFields /\ l.scan_at \in {Never} \cup Nat
      /\ l.snapshot_seq \subseteq SeqNumbers /\ l.settle_at \in {Never} \cup Nat
  BY DEF Learned
<1>3. /\ snapshot = (IF stale THEN l.snapshot_seq ELSE None)
      /\ snapshot \subseteq SeqNumbers /\ settle \in {Never} \cup Nat
  BY <1>2 DEF None
<1> HIDE DEF snapshot, awaiting, settle, told
<1>4. m = TellReset([l EXCEPT !.snapshot_seq = snapshot, !.awaiting_config = awaiting,
                              !.settle_at = settle], told)
  OBVIOUS
<1> HIDE DEF m
<1>5. /\ DOMAIN m = LoopFields /\ m.known = l.known /\ m.counted = l.counted
      /\ m.config = l.config /\ m.blind = l.blind /\ m.scan_at = l.scan_at
      /\ m.connected = l.connected /\ m.awaiting_config = awaiting
      /\ m.snapshot_seq = snapshot /\ m.settle_at = settle
  BY <1>2, <1>4 DEF TellReset, LoopFields
<1>6. Trims(l, m) /\ Learned(m)
  BY <1>2, <1>3, <1>5, LeavesAdopts
<1> QED
  BY <1>1, <1>3, <1>5, <1>6 DEF awaiting, settle

\* The types of what a report leaves.
LEMMA AbsorbLearns ==
  ASSUME NEW l, Learned(l), NEW r \in StatusReports, Plain(r) \/ r.events = <<>>
  PROVE  LET m == Absorb(l, r)
         IN  /\ Learned(m) /\ m.snapshot_seq = l.snapshot_seq /\ m.settle_at = l.settle_at
             /\ (m.connected <=> l.connected) /\ (m.awaiting_config <=> l.awaiting_config)
             /\ m.known = OnOff(Overrides, l.config, r) /\ m.config = l.config
             /\ (m.blind <=> l.blind)
<1> DEFINE m == Absorb(l, r)
<1>1. /\ m.known = OnOff(Overrides, l.config, r)
      /\ m.counted \in [GPIOS -> Nat]
      /\ \A f \in LoopFields \ {"known", "counted"} : m[f] = l[f]
      /\ DOMAIN m = LoopFields
  BY Absorbed DEF Learned
<1> HIDE DEF m
<1>2. /\ m.snapshot_seq = l.snapshot_seq /\ m.settle_at = l.settle_at
      /\ m.connected = l.connected /\ m.awaiting_config = l.awaiting_config
      /\ m.config = l.config /\ m.blind = l.blind /\ m.scan_at = l.scan_at
  BY <1>1 DEF LoopFields
<1>3. r.monitored \subseteq GPIOS
  BY DEF StatusReports
<1>4. DOMAIN m.known \subseteq GPIOS /\ m.known \in [DOMAIN m.known -> BOOLEAN]
  BY <1>1, <1>3 DEF OnOff
<1>5. Learned(m)
  BY <1>1, <1>2, <1>4 DEF Learned
<1> QED
  BY <1>1, <1>2, <1>5 DEF m

-----------------------------------------------------------------------------
(***************************************************************************)
(* The story goes on when the board does                                   *)
(***************************************************************************)

\* Inputs follow the changes that were counted, levels follow the inputs, and
\* the last sequence number that was used comes before the next one.
Wired(b) ==
  /\ \A n \in GPIOS : n \in b.inputs <=> High(n, b.moved[n])
  /\ b.powered => \A n \in MonitoredMask(b.config) : n \in b.levels <=> n \in b.inputs

\* What a board that has no floating input keeps to.
Reads(b) ==
  /\ Wired(b)
  /\ b.last_seq # 0 => b.next_seq = (b.last_seq + 1) % SEQ_MOD

\* The same set under another name, and less exactly.
LEMMA StoryRenamed ==
  ASSUME NEW l, NEW D, NEW b, NEW a, NEW q, NEW k, NEW x, Story(l, D, b, a, q, k, x),
         NEW E, NEW y, y => x /\ D = E
  PROVE  Story(l, E, b, a, q, k, y)
<1>1. ASSUME y PROVE Exact(l, E, a, b.moved, q, k) /\ D = E /\ x
  BY <1>1 DEF Story
<1>2. Known(l, E, b, a, q, k, y)
  <2>1. ASSUME Matches(l, D, b, x) PROVE Matches(l, E, b, y)
    BY <1>1, <2>1 DEF Matches
  <2> QED
    BY <2>1 DEF Story, Known
<1> QED
  BY <1>1, <1>2 DEF Story

\* The board goes on without a word to the watcher.
LEMMA StorySilent ==
  ASSUME NEW l, NEW D, NEW b, Bounded(b), NEW a, NEW q \in Seq(StatusReports), NEW k, NEW x,
         Story(l, D, b, a, q, k, x), NEW d, Bounded(d), Silent(b, d),
         \A n \in GPIOS : b.moved[n] <= d.moved[n], NEW y, y => x /\ d.moved = b.moved
  PROVE  Story(l, D, d, a, q, k, y)
<1>1. /\ Usable(d, Watch) <=> Usable(b, Watch) /\ Gap(d) = Gap(b)
      /\ Usable(b, Watch) => /\ d.next_seq = b.next_seq /\ d.config = b.config
                             /\ ~d.overflow => ~b.overflow /\ d.levels = b.levels
  BY DEF Silent, Usable, Gap
<1>2. Usable(d, Watch) = Usable(b, Watch) /\ Gap(d) = Gap(b)
  BY DEF Silent, Usable, Gap
<1>3. Reference(l, d, q, k)
  <2>1. Reference(l, b, q, k)
    BY DEF Story
  <2> QED
    BY <1>1, <1>2, <2>1 DEF Reference
<1>4. \A r : Usable(b, Watch) /\ Shows(b, r) => Shows(d, r)
  BY <1>1 DEF Shows
<1>5. Latest(d, q)
  BY <1>2, <1>4 DEF Story, Latest
<1>6. Known(l, D, d, a, q, k, y)
  <2>1. ASSUME Usable(b, Watch), Matches(l, D, b, x) PROVE Matches(l, D, d, y)
    BY <1>1, <2>1 DEF Matches
  <2> QED
    BY <1>2, <2>1 DEF Story, Known
<1>7. b.moved \in [GPIOS -> Nat] /\ d.moved \in [GPIOS -> Nat]
  BY DEF Bounded, Boards
<1>8. ASSUME Ghost(l, b.moved, q, k) PROVE Ghost(l, d.moved, q, k)
  <2> SUFFICES ASSUME NEW n \in GPIOS
               PROVE  \E c \in Nat : /\ l.counted[n] <= c /\ Parity(l, n, c)
                                     /\ Rides(n, q, k, c, d.moved[n])
    BY DEF Ghost
  <2>1. PICK c \in Nat : /\ l.counted[n] <= c /\ Parity(l, n, c)
                         /\ Rides(n, q, k, c, b.moved[n])
    BY <1>8 DEF Ghost
  <2>2. k \in 0 .. Len(q) /\ b.moved[n] \in Nat /\ d.moved[n] \in Nat /\ b.moved[n] <= d.moved[n]
    BY <1>7 DEF Story
  <2>3. Rides(n, q, k, c, d.moved[n])
    BY <2>1, <2>2, RidesAppend
  <2> QED
    BY <2>1, <2>3
<1>9. k \in 0 .. Len(q) /\ (\A i \in 1 .. k : IsStale(l, q[i]))
      /\ (~l.blind => Ghost(l, d.moved, q, k)) /\ (y => Exact(l, D, a, d.moved, q, k))
  BY <1>8 DEF Story
<1> QED
  BY <1>3, <1>5, <1>6, <1>9 DEF Story

\* Reports that the watcher does not get.
LEMMA StoryDrops ==
  ASSUME NEW l, l.snapshot_seq \subseteq SeqNumbers, NEW D, NEW b, Bounded(b), NEW a,
         NEW q \in Seq(StatusReports), NEW k, NEW x,
         Story(l, D, b, a, q, k, x), NEW d, Bounded(d), Drops(b, d),
         \A n \in GPIOS : b.moved[n] <= d.moved[n], NEW y, ~y
  PROVE  Story(l, D, d, a, q, k, y)
<1>1. PICK j \in Nat \ {0} : /\ Gap(d) = Gap(b) + j
                             /\ d.next_seq = (b.next_seq + j) % SEQ_MOD
  BY DEF Drops
<1>2. /\ Gap(b) \in Nat /\ b.moved \in [GPIOS -> Nat] /\ d.moved \in [GPIOS -> Nat]
      /\ b.next_seq \in SeqNumbers
  BY WatchAssumption DEF Bounded, Boards, Handles, Gap
<1>3. Gap(d) # 0
  BY <1>1, <1>2
<1>4. Latest(d, q) /\ Known(l, D, d, a, q, k, y)
  BY <1>3 DEF Latest, Known
<1>5. Reference(l, d, q, k)
  <2>1. ASSUME NEW s \in l.snapshot_seq, After(s, b.next_seq, Gap(b))
        PROVE  After(s, d.next_seq, Gap(d))
    <3>1. PICK i \in 1 .. Gap(b) + 1 : b.next_seq = (s + i) % SEQ_MOD
      BY <2>1 DEF After
    <3>2. SEQ_MOD \in Nat /\ SEQ_MOD > 0 /\ s \in Nat /\ i \in Nat /\ s + i \in Nat /\ j \in Int
      <4>1. SEQ_MOD \in Nat /\ SEQ_MOD > 1
        BY SeqArithmetic
      <4>2. s \in 0 .. SEQ_MOD - 1
        BY DEF SeqNumbers
      <4> QED
        BY <1>2, <4>1, <4>2
    <3>3. (((s + i) % SEQ_MOD) + j) % SEQ_MOD = ((s + i) + j) % SEQ_MOD
      BY <3>2, ModAdd
    <3>4. (s + i) + j = s + (i + j) /\ i + j \in 1 .. Gap(d) + 1
      BY <1>1, <1>2, <3>2
    <3> QED
      BY <1>1, <3>1, <3>3, <3>4 DEF After
  <2>2. Usable(b, Watch)
    BY DEF Drops
  <2> QED
    BY <2>1, <2>2 DEF Story, Reference
<1>6. ASSUME Ghost(l, b.moved, q, k) PROVE Ghost(l, d.moved, q, k)
  <2> SUFFICES ASSUME NEW n \in GPIOS
               PROVE  \E c \in Nat : /\ l.counted[n] <= c /\ Parity(l, n, c)
                                     /\ Rides(n, q, k, c, d.moved[n])
    BY DEF Ghost
  <2>1. PICK c \in Nat : /\ l.counted[n] <= c /\ Parity(l, n, c)
                         /\ Rides(n, q, k, c, b.moved[n])
    BY <1>6 DEF Ghost
  <2>2. k \in 0 .. Len(q) /\ b.moved[n] \in Nat /\ d.moved[n] \in Nat /\ b.moved[n] <= d.moved[n]
    BY <1>2 DEF Story
  <2>3. Rides(n, q, k, c, d.moved[n])
    BY <2>1, <2>2, RidesAppend
  <2> QED
    BY <2>1, <2>3
<1> QED
  BY <1>4, <1>5, <1>6 DEF Story

\* A report that waits.
LEMMA StoryAppends ==
  ASSUME NEW l, Learned(l), NEW D, NEW b, Bounded(b), NEW a,
         NEW q \in Seq(StatusReports), NEW k, NEW x,
         Story(l, D, b, a, q, k, x), NEW d, Bounded(d), d.powered, Reads(d),
         NEW r \in StatusReports, Appends(b, d, r), NEW y, y => x,
         y => \A n \in GPIOS : Moves(r, n) => n \in D /\ Listening(l, a)
  PROVE  Story(l, D, d, a, Append(q, r), k, y)
<1> DEFINE e == Append(q, r)
<1>1. /\ Len(q) \in Nat /\ Len(e) = Len(q) + 1 /\ e[Len(e)] = r /\ e \in Seq(StatusReports)
      /\ \A i \in 1 .. Len(q) : e[i] = q[i]
  BY Appended
<1> HIDE DEF e
<1>2. k \in 0 .. Len(q) /\ k \in 0 .. Len(e) /\ k # Len(e) /\ k < Len(e)
  BY <1>1 DEF Story
<1>3. \A i \in 1 .. k : IsStale(l, e[i])
  BY <1>1, <1>2 DEF Story
<1>4. Reference(l, d, e, k)
  <2>1. CASE k < Len(q)
    <3>1. k + 1 \in 1 .. Len(q)
      BY <1>1, <1>2, <2>1
    <3> QED
      BY <1>1, <1>2, <2>1, <3>1 DEF Story, Reference
  <2>2. CASE ~(k < Len(q))
    <3>1. k + 1 = Len(e)
      BY <1>1, <1>2, <2>2
    <3>2. \A s \in l.snapshot_seq : After(s, b.next_seq, Gap(b))
      BY <2>2 DEF Story, Reference, Appends
    <3> QED
      BY <1>1, <1>2, <3>1, <3>2 DEF Reference, Appends
  <2> QED
    BY <2>1, <2>2
<1>5. Latest(d, e)
  BY <1>1 DEF Latest, Shows, Appends
<1>6. Known(l, D, d, a, e, k, y)
  BY <1>2 DEF Known
<1>7. b.moved \in [GPIOS -> Nat] /\ d.moved \in [GPIOS -> Nat] /\ l.counted \in [GPIOS -> Nat]
  BY DEF Bounded, Boards, Learned
<1>8. ASSUME NEW n \in GPIOS
      PROVE  /\ Shown(r, n, d.moved[n]) /\ Fits(r, n, b.moved[n], d.moved[n])
             /\ d.moved[n] = b.moved[n] + IF Moves(r, n) THEN 1 ELSE 0
             /\ b.moved[n] \in Nat /\ d.moved[n] \in Nat
  <2>1. /\ d.moved[n] = b.moved[n] + IF Moves(r, n) THEN 1 ELSE 0
        /\ b.moved[n] \in Nat /\ d.moved[n] \in Nat
    BY <1>7 DEF Appends
  <2>2. Shown(r, n, d.moved[n])
    BY DEF Appends, Reads, Wired, Shown
  <2>3. b.moved[n] <= d.moved[n] /\ (Moves(r, n) => b.moved[n] < d.moved[n])
    BY <2>1
  <2> QED
    BY <2>1, <2>2, <2>3 DEF Fits
<1>9. ASSUME Ghost(l, b.moved, q, k) PROVE Ghost(l, d.moved, e, k)
  <2> SUFFICES ASSUME NEW n \in GPIOS
               PROVE  \E c \in Nat : /\ l.counted[n] <= c /\ Parity(l, n, c)
                                     /\ Rides(n, e, k, c, d.moved[n])
    BY DEF Ghost
  <2>1. PICK c \in Nat : /\ l.counted[n] <= c /\ Parity(l, n, c)
                         /\ Rides(n, q, k, c, b.moved[n])
    BY <1>9 DEF Ghost
  <2>2. Rides(n, Append(q, r), k, c, d.moved[n])
    BY <1>2, <1>8, <2>1, RidesAppend
  <2> QED
    BY <2>1, <2>2 DEF e
<1>10. ASSUME y, Exact(l, D, a, b.moved, q, k) PROVE Exact(l, D, a, d.moved, e, k)
  <2> SUFFICES ASSUME NEW n \in GPIOS
               PROVE  /\ Parity(l, n, l.counted[n])
                      /\ Climbs(n, e, l.counted[n], d.moved[n])
                      /\ \A i \in 1 .. Len(e) : Moves(e[i], n) =>
                           i > k /\ n \in D /\ Listening(l, a)
    BY DEF Exact
  <2>1. /\ Parity(l, n, l.counted[n])
        /\ Climbs(n, q, l.counted[n], b.moved[n])
        /\ \A i \in 1 .. Len(q) : Moves(q[i], n) => i > k /\ n \in D /\ Listening(l, a)
    BY <1>10 DEF Exact
  <2>2. Climbs(n, Append(q, r), l.counted[n], d.moved[n])
    BY <1>7, <1>8, <2>1, ClimbsAppend
  <2>3. ASSUME NEW i \in 1 .. Len(e), Moves(e[i], n)
        PROVE  i > k /\ n \in D /\ Listening(l, a)
    <3>1. CASE i \in 1 .. Len(q)
      BY <1>1, <2>1, <2>3, <3>1
    <3>2. CASE i = Len(e)
      BY <1>1, <1>2, <1>10, <2>3, <3>2
    <3> QED
      BY <1>1, <3>1, <3>2
  <2> QED
    BY <2>1, <2>2, <2>3 DEF e
<1>11. Story(l, D, d, a, e, k, y)
  BY <1>2, <1>3, <1>4, <1>5, <1>6, <1>9, <1>10 DEF Story
<1> QED
  BY <1>11 DEF e

\* A report in hand stays there when what waits is lost.
LEMMA StoryCut ==
  ASSUME NEW l, Learned(l), l.snapshot_seq = None, NEW D, NEW b, Bounded(b), NEW a,
         NEW q \in Seq(StatusReports), q # <<>>, NEW k, NEW x,
         Story(l, D, b, a, q, k, x), NEW d, Bounded(d), ~Usable(d, Watch),
         \A n \in GPIOS : b.moved[n] <= d.moved[n], NEW y, ~y
  PROVE  Story(l, D, d, a, <<Head(q)>>, 0, y)
<1> DEFINE e == <<Head(q)>>
<1>1. /\ Len(q) \in Nat /\ Len(q) > 0 /\ e \in Seq(StatusReports) /\ Len(e) = 1 /\ e[1] = q[1]
      /\ k \in 0 .. Len(q)
  BY Tailed DEF Story
<1> HIDE DEF e
<1>2. k = 0
  <2>1. ~IsStale(l, q[1])
    BY DEF IsStale, None
  <2> QED
    BY <1>1, <2>1 DEF Story
<1>3. Reference(l, d, e, 0) /\ Latest(d, e) /\ Known(l, D, d, a, e, 0, y)
  BY DEF Reference, Latest, Known, None
<1>4. b.moved \in [GPIOS -> Nat] /\ d.moved \in [GPIOS -> Nat]
  BY DEF Bounded, Boards
<1>5. ASSUME Ghost(l, b.moved, q, 0) PROVE Ghost(l, d.moved, e, 0)
  <2> SUFFICES ASSUME NEW n \in GPIOS
               PROVE  \E c \in Nat : /\ l.counted[n] <= c /\ Parity(l, n, c)
                                     /\ Rides(n, e, 0, c, d.moved[n])
    BY DEF Ghost
  <2>1. PICK c \in Nat : /\ l.counted[n] <= c /\ Parity(l, n, c)
                         /\ Rides(n, q, 0, c, b.moved[n])
    BY <1>5 DEF Ghost
  <2>2. PICK ms :
          /\ \A i \in 0 .. Len(q) : ms[i] \in Nat
          /\ c <= ms[0] /\ \A i \in 0 .. Len(q) : ms[i] <= b.moved[n]
          /\ \A i \in 0 + 1 .. Len(q) : Fits(q[i], n, ms[i - 1], ms[i])
    BY <2>1 DEF Rides
  <2>3. /\ b.moved[n] \in Nat /\ d.moved[n] \in Nat /\ b.moved[n] <= d.moved[n]
        /\ 0 .. Len(e) = {0, 1} /\ 0 + 1 .. Len(e) = {1} /\ {0, 1} \subseteq 0 .. Len(q)
        /\ 1 \in 0 + 1 .. Len(q)
    BY <1>1, <1>4
  <2>4. \A i \in 0 .. Len(e) : ms[i] \in Nat /\ ms[i] <= d.moved[n]
    BY <2>2, <2>3
  <2>5. \A i \in 0 + 1 .. Len(e) : Fits(e[i], n, ms[i - 1], ms[i])
    BY <1>1, <2>2, <2>3
  <2>6. Rides(n, e, 0, c, d.moved[n])
    BY <2>2, <2>4, <2>5 DEF Rides
  <2> QED
    BY <2>1, <2>6
<1>6. Story(l, D, d, a, e, 0, y)
  BY <1>1, <1>2, <1>3, <1>5 DEF Story
<1> QED
  BY <1>6 DEF e

\* The report in hand in front of those that wait.
LEMMA Prepended ==
  ASSUME NEW r \in StatusReports, NEW q \in Seq(StatusReports)
  PROVE  /\ <<r>> \o q \in Seq(StatusReports) /\ <<r>> \o q # <<>>
         /\ Head(<<r>> \o q) = r /\ Tail(<<r>> \o q) = q
         /\ Len(<<r>> \o q) = Len(q) + 1 /\ (<<r>> \o q)[1] = r
         /\ \A i \in 1 .. Len(q) : (<<r>> \o q)[i + 1] = q[i]
         /\ \A p \in StatusReports : <<r>> \o Append(q, p) = Append(<<r>> \o q, p)
         /\ <<r>> \o <<>> = <<r>>
<1>1. /\ <<r>> \o q \in Seq(StatusReports) /\ <<r>> \o q # <<>>
      /\ Len(<<r>> \o q) = Len(q) + 1 /\ (<<r>> \o q)[1] = r
      /\ \A i \in 1 .. Len(q) : (<<r>> \o q)[i + 1] = q[i]
      /\ <<r>> \o <<>> = <<r>>
  OBVIOUS
<1>2. Head(<<r>> \o q) = r
  OBVIOUS
<1>3. Tail(<<r>> \o q) = q
  OBVIOUS
<1>4. \A p \in StatusReports : <<r>> \o Append(q, p) = Append(<<r>> \o q, p)
  OBVIOUS
<1> QED
  BY <1>1, <1>2, <1>3, <1>4

-----------------------------------------------------------------------------
(***************************************************************************)
(* The story of the machine: the loop, its task and its board              *)
(***************************************************************************)

\* The report that main_loop left aside while it reads the configuration.
InHand(t) ==
  t.report = None \/ \E r \in StatusReports :
    t.report = Some(r) /\ r.events = <<>> /\ "HOST_REQUEST" \notin r.reason

\* Only a CONFIG_CHANGED or the report that a restoration follows is left aside;
\* unless it is stale, the snapshot is no reference any more.
Holds(l, t) ==
  /\ InHand(t)
  /\ t.report # None => /\ t.why \in {"changed", "restore"}
                        /\ t.stale \/ l.snapshot_seq = None

\* No snapshot is taken during the wait for a CONFIG_CHANGED, and what belongs to
\* a connection ends with it.
Steady(l, a) ==
  /\ a = "snapshot" => ~l.awaiting_config
  /\ ~l.connected => l.snapshot_seq = None /\ ~l.awaiting_config
  /\ l.settle_at # Never => l.awaiting_config

\* A handle of no use has nothing in its queue.
Sane(b) == (~Usable(b, Watch) => Ends(b)) /\ PlainQueue(Queue(b))

\* A loop without a connection has no handle, but for the time of an attempt.
Linked(l, b, t) == t.why # "connect" /\ ~l.connected => ~Usable(b, Watch)

\* The types of the loop and where its reports can be.
Fit == /\ Learned(loop) /\ Steady(loop, at) /\ Sane(board)
       /\ Holds(loop, task) /\ Linked(loop, board, task)

\* The report in hand.
TheReport(t) == CHOOSE r \in t.report : TRUE

\* What the loop has still to use: the report in hand, then those that wait.
Ahead(t, b) ==
  IF t.report = None \/ t.stale THEN Queue(b) ELSE <<TheReport(t)>> \o Queue(b)

\* Fewer than half of the sequence numbers, 32768 on a real board, are those of
\* reports that wait or were dropped since the last one that was read.  The
\* comparison of sequence numbers (watch.rs:770) means nothing beyond that.
InReach ==
  \E sent :
    /\ sent[0] = 0
    /\ \A i \in 1 .. Len(Reports) : sent[i] = sent[i - 1] + 1 + Reports[i].gap
    /\ sent[Len(Reports)] + 1 + board.handles[Watch].gap < SEQ_MOD \div 2

\* No pin was forgotten, no report was dropped and no two changes may have merged.
Precise(i, d, a) == ~i /\ ~d /\ a # "stopped"

\* The story, for some number of reports from before the snapshot.
Tale(l, D, b, a, q, x) == \E k : Story(l, D, b, a, q, k, x)

\* The story of the machine as it is.
Told == Tale(loop, DOMAIN loop.known, board, at, Ahead(task, board),
             Precise(inexact, dropped, at))

\* The inputs of the board are read as they are, and its sequence numbers are
\* consecutive in the queue of the watcher.
Aware == Reads(board) /\ Chained(board, Watch, None)

\* What a step has to show.
StepFits == Fit' /\ (Aware /\ Aware' /\ InReach /\ Told => Told')

\* The report in hand is one that tells no change.
LEMMA ReportInHand ==
  ASSUME NEW l, NEW t, Holds(l, t), t.report # None
  PROVE  /\ TheReport(t) \in StatusReports /\ TheReport(t).events = <<>>
         /\ "HOST_REQUEST" \notin TheReport(t).reason /\ Plain(TheReport(t))
         /\ t.report = Some(TheReport(t))
<1>1. PICK r \in StatusReports :
        t.report = Some(r) /\ r.events = <<>> /\ "HOST_REQUEST" \notin r.reason
  BY DEF Holds, InHand
<1>2. TheReport(t) = r
  BY <1>1 DEF TheReport, Some
<1> QED
  BY <1>1, <1>2 DEF Plain

\* The types that the invariants give.
LEMMA FitTypes ==
  ASSUME WatchInv, Fit
  PROVE  /\ Bounded(board) /\ BoardOK(board) /\ Queue(board) \in Seq(StatusReports)
         /\ Ahead(task, board) \in Seq(StatusReports)
         /\ DOMAIN loop = LoopFields /\ DOMAIN task = TaskFields /\ Watch \in Clients
<1>1. /\ Bounded(board) /\ BoardOK(board) /\ DOMAIN loop = LoopFields
      /\ DOMAIN task = TaskFields /\ Watch \in Clients
  BY LoopShape DEF WatchInv, BoardInv
<1>2. Queue(board) \in Seq(StatusReports)
  BY DEF Fit, Sane, PlainQueue
<1>3. Ahead(task, board) \in Seq(StatusReports)
  BY <1>2, ReportInHand, Prepended DEF Ahead, Fit
<1> QED
  BY <1>1, <1>2, <1>3

\* The loop forgets or waits, and the reports before it stay the same.
LEMMA TrimFits ==
  ASSUME WatchInv, Fit, board' = board, Trims(loop, loop'), Learned(loop'),
         loop'.snapshot_seq = loop.snapshot_seq, Steady(loop', at'),
         Holds(loop', task'), Linked(loop', board, task'),
         Ahead(task', board) = Ahead(task, board),
         Precise(inexact', dropped', at') =>
           /\ Precise(inexact, dropped, at) /\ DOMAIN loop.known \subseteq DOMAIN loop'.known,
         \/ ~loop'.connected \/ loop'.awaiting_config \/ at' = "snapshot"
         \/ loop.connected /\ ~loop.awaiting_config /\ at # "snapshot",
         Listening(loop, at) => Listening(loop', at')
  PROVE  StepFits
<1>1. Fit'
  BY DEF Fit
<1>2. ASSUME Told PROVE Told'
  <2>1. PICK k : Story(loop, DOMAIN loop.known, board, at, Ahead(task, board), k,
                       Precise(inexact, dropped, at))
    BY <1>2 DEF Told, Tale
  <2> DEFINE y == Precise(inexact', dropped', at')
  <2>2. Ahead(task, board) \in Seq(StatusReports)
    BY FitTypes
  <2>3. y => Precise(inexact, dropped, at)
    OBVIOUS
  <2>4. y => DOMAIN loop.known = DOMAIN loop'.known
    BY DEF Trims
  <2> HIDE DEF y
  <2>5. Story(loop', DOMAIN loop.known, board, at', Ahead(task, board), k, y)
    BY <2>1, <2>2, <2>3, StoryTrims
  <2>6. Story(loop', DOMAIN loop'.known, board, at', Ahead(task, board), k, y)
    BY <2>4, <2>5, StoryRenamed
  <2> QED
    BY <2>6 DEF Told, Tale, y
<1> QED
  BY <1>1, <1>2 DEF StepFits

\* The loop goes on with what it was doing.
LEMMA AdoptFits ==
  ASSUME WatchInv, Fit, board' = board, Adopts(loop, loop'), Steady(loop', at'),
         Holds(loop', task'), Linked(loop', board, task'),
         Ahead(task', board) = Ahead(task, board),
         Precise(inexact', dropped', at') =>
           /\ Precise(inexact, dropped, at) /\ DOMAIN loop.known \subseteq DOMAIN loop'.known,
         at # "snapshot", at' \in {at, "send"} \/ ~loop.connected \/ at' \in {"config", "idle"}
  PROVE  StepFits
<1>1. Learned(loop') /\ Trims(loop, loop') /\ loop'.snapshot_seq = loop.snapshot_seq
      /\ (loop'.connected <=> loop.connected) /\ (loop'.awaiting_config <=> loop.awaiting_config)
  BY DEF Adopts
<1>2. Listening(loop, at) => Listening(loop', at')
  BY <1>1 DEF Listening
<1>3. \/ ~loop'.connected \/ loop'.awaiting_config \/ at' = "snapshot"
      \/ loop.connected /\ ~loop.awaiting_config /\ at # "snapshot"
  BY <1>1
<1> QED
  BY <1>1, <1>2, <1>3, TrimFits

\* A task without a report.
LEMMA NoReport ==
  /\ NoTask.report = None /\ NoTask.why = "none"
  /\ \A l : Holds(l, NoTask)
  /\ \A b : Ahead(NoTask, b) = Queue(b)
  /\ \A why : /\ [NoTask EXCEPT !.why = why].report = None
              /\ \A l : Holds(l, [NoTask EXCEPT !.why = why])
              /\ \A b : Ahead([NoTask EXCEPT !.why = why], b) = Queue(b)
  /\ \A why, p : /\ [NoTask EXCEPT !.why = why, !.previous = p].report = None
                 /\ \A l : Holds(l, [NoTask EXCEPT !.why = why, !.previous = p])
                 /\ \A b : Ahead([NoTask EXCEPT !.why = why, !.previous = p], b) = Queue(b)
<1>1. ASSUME NEW t, t.report = None
      PROVE  (\A l : Holds(l, t)) /\ \A b : Ahead(t, b) = Queue(b)
  BY <1>1 DEF Holds, InHand, Ahead
<1>2. NoTask.report = None /\ NoTask.why = "none"
  BY DEF NoTask
<1>3. \A why : [NoTask EXCEPT !.why = why].report = None
  BY DEF NoTask
<1>4. \A why, p : [NoTask EXCEPT !.why = why, !.previous = p].report = None
  BY DEF NoTask
<1> QED
  BY <1>1, <1>2, <1>3, <1>4

\* What main_loop was doing ends, and the report that led to it is used.
LEMMA FinishFits ==
  ASSUME WatchInv, Fit, NEW m, Trims(loop, m), Learned(m),
         m.snapshot_seq = loop.snapshot_seq, Steady(m, "idle"),
         ~m.connected => ~Usable(board, Watch), Finish(m), board' = board,
         \/ ~m.connected \/ m.awaiting_config
         \/ loop.connected /\ ~loop.awaiting_config /\ at # "snapshot",
         Listening(loop, at) => Listening(m, "idle"), at # "stopped"
  PROVE  StepFits
<1>1. /\ at' = "idle" /\ task' = NoTask /\ dropped' = dropped
      /\ loop' = IF task.report = None THEN m ELSE Used(m, TheReport(task), task.stale)
      /\ inexact' = (inexact \/ ~(DOMAIN loop.known \subseteq DOMAIN loop'.known))
  BY DEF Finish, Steps, GoTo, TheReport
<1>2. Precise(inexact', dropped', at') =>
        /\ Precise(inexact, dropped, at) /\ DOMAIN loop.known \subseteq DOMAIN loop'.known
  BY <1>1 DEF Precise
<1>3. Queue(board) \in Seq(StatusReports)
  BY FitTypes
<1>4. /\ \A l : Holds(l, task') /\ task'.why = "none"
      /\ Ahead(task', board) = Queue(board)
  BY <1>1, NoReport
<1>5. CASE loop' = m /\ (task.report = None \/ task.stale)
  <2>1. Ahead(task', board) = Ahead(task, board)
    BY <1>4, <1>5 DEF Ahead
  <2>2. Linked(loop', board, task') /\ Steady(loop', at')
    BY <1>1, <1>5 DEF Linked
  <2> QED
    BY <1>1, <1>2, <1>4, <1>5, <2>1, <2>2, TrimFits
<1>6. CASE task.report # None /\ ~task.stale
  <2> DEFINE r == TheReport(task)
             q == Ahead(task, board)
             y == Precise(inexact', dropped', at')
             x == Precise(inexact, dropped, at)
  <2>1. /\ r \in StatusReports /\ r.events = <<>> /\ "HOST_REQUEST" \notin r.reason
        /\ Plain(r)
    BY <1>6, ReportInHand DEF Fit
  <2>2. q = <<r>> \o Queue(board)
    BY <1>6 DEF Ahead
  <2>3. /\ q \in Seq(StatusReports) /\ q # <<>> /\ Head(q) = r /\ Tail(q) = Queue(board)
    BY <1>3, <2>1, <2>2, Prepended
  <2>4. loop' = IF ~m.connected \/ m.awaiting_config THEN m ELSE Absorb(m, r)
    BY <1>1, <1>6, <2>1 DEF Used
  <2>5. m.snapshot_seq = None
    BY <1>6 DEF Fit, Holds
  <2>6. y => x /\ DOMAIN loop.known \subseteq DOMAIN loop'.known
    BY <1>2
  <2> HIDE DEF r, q, y, x
  <2>7. Bounded(board)
    BY FitTypes
  <2>8. ASSUME Told
        PROVE  Story(m, DOMAIN loop.known, board, "idle", q, 0, x)
    <3>1. PICK k : Story(loop, DOMAIN loop.known, board, at, q, k, x)
      BY <2>8 DEF Told, Tale, q, x
    <3>2. Story(m, DOMAIN loop.known, board, "idle", q, k, x)
      BY <2>3, <3>1, StoryTrims
    <3>3. k = 0
      <4>1. ~IsStale(m, q[1])
        BY <2>5 DEF IsStale, None
      <4>2. k \in 0 .. Len(q) /\ \A i \in 1 .. k : IsStale(m, q[i])
        BY <3>2 DEF Story
      <4> QED
        BY <4>1, <4>2
    <3> QED
      BY <3>2, <3>3
  <2>9. CASE ~m.connected \/ m.awaiting_config
    <3>1. loop' = m
      BY <2>4, <2>9
    <3>2. Fit'
      BY <1>1, <1>4, <3>1 DEF Fit, Linked
    <3>3. ASSUME Told PROVE Told'
      <4>1. Story(m, DOMAIN loop.known, board, "idle", Tail(q), 0, x)
        <5>1. Head(q).events = <<>>
          BY <2>1, <2>3
        <5> QED
          BY <2>3, <2>5, <2>7, <2>8, <2>9, <3>3, <5>1, StoryShed
      <4>2. y => DOMAIN loop.known = DOMAIN m.known
        BY <2>6, <3>1 DEF Trims
      <4>3. Story(m, DOMAIN m.known, board, "idle", Tail(q), 0, y)
        BY <2>6, <4>1, <4>2, StoryRenamed
      <4>4. Story(loop', DOMAIN loop'.known, board', at', Ahead(task', board'), 0, y)
        BY <1>1, <1>4, <2>3, <3>1, <4>3
      <4> QED
        BY <4>4 DEF Told, Tale, y
    <3> QED
      BY <3>2, <3>3 DEF StepFits
  <2>10. CASE ~(~m.connected \/ m.awaiting_config)
    <3>1. loop' = Absorb(m, r)
      BY <2>4, <2>10
    <3>2. /\ Learned(loop') /\ loop'.snapshot_seq = None /\ loop'.settle_at = m.settle_at
          /\ (loop'.connected <=> m.connected) /\ (loop'.awaiting_config <=> m.awaiting_config)
          /\ loop'.known = OnOff(Overrides, m.config, r)
      BY <2>1, <2>5, <3>1, AbsorbLearns
    <3>3. Steady(loop', "idle") /\ Linked(loop', board, task')
      BY <2>10, <3>2 DEF Steady, Linked
    <3>4. Fit'
      BY <1>1, <1>4, <3>2, <3>3 DEF Fit
    <3>5. ASSUME Told PROVE Told'
      <4>1. DOMAIN loop'.known = r.monitored
        BY <3>2 DEF OnOff
      <4>2. y => x /\ DOMAIN loop.known \subseteq Head(q).monitored
        BY <2>3, <2>6, <4>1
      <4>3. Story(m, DOMAIN loop.known, board, "idle", q, 0, x)
        BY <2>8, <3>5
      <4>4. Plain(Head(q)) /\ Head(q).events = <<>>
        BY <2>1, <2>3
      <4>5. Story(Absorb(m, Head(q)), DOMAIN Absorb(m, Head(q)).known, board, "idle", Tail(q), 0, y)
        BY <2>3, <2>5, <2>7, <4>2, <4>3, <4>4, StoryAbsorb
      <4>6. Story(loop', DOMAIN loop'.known, board', at', Ahead(task', board'), 0, y)
        BY <1>1, <1>4, <2>3, <3>1, <4>5
      <4> QED
        BY <4>6 DEF Told, Tale, y
    <3> QED
      BY <3>4, <3>5 DEF StepFits
  <2> QED
    BY <2>9, <2>10
<1>7. task.report = None \/ task.stale => loop' = m
  BY <1>1 DEF Used
<1> QED
  BY <1>5, <1>6, <1>7

\* The reports ahead while the queue is empty say nothing of a pin.
LEMMA AheadEmpty ==
  ASSUME WatchInv, Fit, Reports = <<>>
  PROVE  \A i \in 1 .. Len(Ahead(task, board)) : Ahead(task, board)[i].events = <<>>
<1>1. Queue(board) = <<>> /\ <<>> \in Seq(StatusReports)
  BY DEF Queue, Reports
<1>2. CASE task.report = None \/ task.stale
  BY <1>1, <1>2 DEF Ahead
<1>3. CASE ~(task.report = None \/ task.stale)
  <2> DEFINE r == TheReport(task)
             q == Ahead(task, board)
  <2>1. r \in StatusReports /\ r.events = <<>>
    BY <1>3, ReportInHand DEF Fit
  <2>2. q = <<r>> \o <<>>
    BY <1>1, <1>3 DEF Ahead
  <2> HIDE DEF r, q
  <2>3. q = <<r>>
    BY <1>1, <2>1, <2>2, Prepended
  <2>4. \A i \in 1 .. Len(q) : q[i].events = <<>>
    BY <2>1, <2>3
  <2> QED
    BY <2>4 DEF q
<1> QED
  BY <1>2, <1>3

\* Nothing is ahead any more.
LEMMA GoneFits ==
  ASSUME WatchInv, Fit, WatchInv', Fit', Trims(loop, loop'),
         loop'.snapshot_seq = None \/ ~Usable(board', Watch),
         ~loop'.connected \/ ~Usable(board', Watch),
         \A n \in GPIOS : board.moved[n] <= board'.moved[n],
         Ahead(task', board') = <<>>,
         Precise(inexact', dropped', at') =>
           /\ Precise(inexact, dropped, at) /\ board'.moved = board.moved
           /\ Reports = <<>>
  PROVE  StepFits
<1> SUFFICES ASSUME Told PROVE Told'
  BY DEF StepFits
<1> DEFINE y == Precise(inexact', dropped', at')
           q == Ahead(task, board)
<1>1. PICK k : Story(loop, DOMAIN loop.known, board, at, q, k, Precise(inexact, dropped, at))
  BY DEF Told, Tale
<1>2. q \in Seq(StatusReports) /\ Bounded(board)
  BY FitTypes
<1>3. Bounded(board')
  BY DEF WatchInv, BoardInv
<1>4. y => /\ Precise(inexact, dropped, at) /\ board'.moved = board.moved
           /\ \A i \in 1 .. Len(q) : q[i].events = <<>>
  BY AheadEmpty
<1>5. Learned(loop)
  BY DEF Fit
<1> HIDE DEF y, q
<1>6. Story(loop', DOMAIN loop'.known, board', at', <<>>, 0, y)
  BY <1>1, <1>2, <1>3, <1>4, <1>5, StoryGone
<1>7. Story(loop', DOMAIN loop'.known, board', at', Ahead(task', board'), 0, y)
  BY <1>6
<1> QED
  BY <1>7 DEF Told, Tale, y

\* The connection ends with its handle.
LEMMA ClosedFits ==
  ASSUME WatchInv, Fit, WatchInv', Parts(loop, loop'), board' = CloseHandle(board, Watch),
         task' = NoTask, at' \in {"idle", "stopped"},
         Precise(inexact', dropped', at') =>
           Precise(inexact, dropped, at) /\ Reports = <<>>
  PROVE  StepFits
<1>1. DOMAIN board = BoardFields /\ DOMAIN board.handles = Clients /\ Watch \in Clients
  BY FitTypes DEF BoardOK
<1>2. board'.handles[Watch] = Closed /\ board'.moved = board.moved
  BY <1>1 DEF CloseHandle, BoardFields
<1>3. ~Usable(board', Watch) /\ Queue(board') = <<>> /\ Gap(board') = 0
  BY <1>2 DEF Usable, Queue, Gap, Closed
<1>4. /\ Holds(loop', task') /\ Ahead(task', board') = <<>>
  BY <1>3, NoReport
<1>5. PlainQueue(Queue(board'))
  BY <1>3 DEF PlainQueue
<1>6. Fit'
  BY <1>3, <1>4, <1>5 DEF Fit, Parts, Steady, Sane, Ends, Linked
<1>7. board.moved \in [GPIOS -> Nat]
  BY FitTypes DEF Bounded, Boards
<1>8. \A n \in GPIOS : board.moved[n] <= board'.moved[n]
  BY <1>2, <1>7
<1>9. Trims(loop, loop')
  BY DEF Parts
<1> QED
  BY <1>2, <1>3, <1>4, <1>6, <1>8, <1>9, GoneFits

\* The same report in hand.
LEMMA SameReport ==
  ASSUME NEW t, NEW u, u.why = t.why, u.report = t.report, u.stale = t.stale
  PROVE  /\ \A l : Holds(l, t) => Holds(l, u)
         /\ \A l, b : Linked(l, b, t) => Linked(l, b, u)
         /\ \A b : Ahead(u, b) = Ahead(t, b)
BY DEF Holds, InHand, Linked, Ahead, TheReport

\* The board goes on, and the loop stays as it is.
LEMMA BoardFits ==
  ASSUME WatchInv, Fit, WatchInv', NEW x, Grows(board, board', x),
         Adopts(loop, loop'), loop'.known = loop.known, task'.why = task.why,
         task'.report = task.report, task'.stale = task.stale,
         \/ at' = at
         \/ /\ at = "send" /\ at' = "verify"
            /\ Precise(inexact', dropped', at') => Reports = <<>>,
         Aware /\ Precise(inexact', dropped', at') => x /\ Precise(inexact, dropped, at),
         \A r \in StatusReports, n \in GPIOS :
           Aware /\ Appends(board, board', r) /\ Moves(r, n)
             /\ Precise(inexact', dropped', at') => n \in DOMAIN loop.known /\ Listening(loop', at')
  PROVE  StepFits
<1> DEFINE y == Aware /\ Precise(inexact', dropped', at')
           z == Precise(inexact, dropped, at)
           q == Ahead(task, board)
           D == DOMAIN loop.known
<1>0. /\ \A l : Holds(l, task) => Holds(l, task')
      /\ \A l, d : Linked(l, d, task) => Linked(l, d, task')
      /\ \A d : Ahead(task', d) = Ahead(task, d)
  BY SameReport
<1>1. /\ Bounded(board) /\ Bounded(board') /\ BoardOK(board') /\ Watch \in Clients
      /\ q \in Seq(StatusReports) /\ Queue(board) \in Seq(StatusReports)
      /\ Gap(board') # 0 => dropped'
  BY FitTypes DEF WatchInv, BoardInv, Gap
<1>2. /\ Learned(loop') /\ Trims(loop, loop') /\ loop'.snapshot_seq = loop.snapshot_seq
      /\ loop'.settle_at = loop.settle_at
      /\ (loop'.connected <=> loop.connected) /\ (loop'.awaiting_config <=> loop.awaiting_config)
  BY DEF Adopts
<1>3. at' = "snapshot" <=> at = "snapshot"
  OBVIOUS
<1>4. Steady(loop', at')
  BY <1>2, <1>3 DEF Fit, Steady
<1>5. Holds(loop', task')
  <2>1. Holds(loop', task)
    BY <1>2 DEF Fit, Holds
  <2> QED
    BY <1>0, <2>1
<1>6. \A n \in GPIOS : board.moved[n] <= board'.moved[n]
  BY DEF Grows
<1>7. ASSUME Told PROVE \E k : Story(loop', D, board, at', q, k, y)
  <2>1. PICK k : Story(loop, D, board, at, q, k, z)
    BY <1>7 DEF Told, Tale
  <2>2. \/ ~y
        \/ Listening(loop, at) => Listening(loop', at')
        \/ \A i \in 1 .. Len(q) : q[i].events = <<>>
    <3>1. CASE at' = at
      BY <1>2, <3>1 DEF Listening
    <3>2. CASE at' # at
      BY <3>2, AheadEmpty
    <3> QED
      BY <3>1, <3>2
  <2>3. \/ ~loop'.connected \/ loop'.awaiting_config \/ at' = "snapshot"
        \/ loop.connected /\ ~loop.awaiting_config /\ at # "snapshot"
    BY <1>2, <1>3
  <2>4. y => z
    OBVIOUS
  <2>5. q \in Seq(StatusReports) /\ Trims(loop, loop') /\ loop'.snapshot_seq = loop.snapshot_seq
    BY <1>1, <1>2
  <2> HIDE DEF y, z, q, D
  <2>6. Story(loop', D, board, at', q, k, y)
    BY <2>1, <2>2, <2>3, <2>4, <2>5, StoryTrims
  <2> QED
    BY <2>6
<1>8. ASSUME Fit', Aware, NEW k, Story(loop', D, board', at', Ahead(task', board'), k, y)
      PROVE  Fit' /\ Told'
  <2> DEFINE w == Precise(inexact', dropped', at')
  <2>1. (w => y) /\ D = DOMAIN loop'.known
    BY <1>8
  <2> HIDE DEF w, y, D
  <2>2. Story(loop', DOMAIN loop'.known, board', at', Ahead(task', board'), k, w)
    BY <1>8, <2>1, StoryRenamed
  <2> QED
    BY <1>8, <2>2 DEF Told, Tale, w
<1>9. Fit <=> /\ Learned(loop) /\ Steady(loop, at) /\ Sane(board)
             /\ Holds(loop, task) /\ Linked(loop, board, task)
  BY DEF Fit
<1>10. CASE Ends(board') /\ ~x
  <2>1. Fit'
    BY <1>2, <1>4, <1>5, <1>10 DEF Fit, Sane, Ends, Linked, PlainQueue
  <2>2. ~y
    BY <1>10
  <2>3. CASE task.report = None \/ task.stale
    <3>1. Ahead(task', board') = <<>>
      BY <1>0, <1>10, <2>3 DEF Ahead, Ends
    <3>2. ~Usable(board', Watch)
      BY <1>10 DEF Ends
    <3>3. CASE Aware
      BY <1>2, <1>6, <2>1, <2>2, <3>1, <3>2, <3>3, GoneFits
    <3> QED
      BY <2>1, <3>3 DEF StepFits
  <2>4. CASE ~(task.report = None \/ task.stale)
    <3> DEFINE r == TheReport(task)
    <3>1. r \in StatusReports /\ loop'.snapshot_seq = None
      BY <1>2, <2>4, ReportInHand DEF Fit, Holds
    <3>2. q = <<r>> \o Queue(board)
      BY <2>4 DEF Ahead
    <3>3. q # <<>> /\ Head(q) = r
      BY <1>1, <3>1, <3>2, Prepended
    <3>4. <<>> \in Seq(StatusReports)
      OBVIOUS
    <3>5. Ahead(task', board') = <<r>> \o <<>>
      BY <1>0, <1>10, <2>4 DEF Ahead, Ends
    <3> HIDE DEF r, q, y, z
    <3>6. Ahead(task', board') = <<Head(q)>>
      BY <3>1, <3>3, <3>4, <3>5, Prepended
    <3>7. ~Usable(board', Watch)
      BY <1>10 DEF Ends
    <3>8. ASSUME Told, Aware PROVE Told'
      <4>1. PICK k : Story(loop', D, board, at', q, k, y)
        BY <1>7, <3>8
      <4>2. Story(loop', D, board', at', <<Head(q)>>, 0, y)
        BY <1>1, <1>2, <1>6, <2>2, <3>1, <3>3, <3>7, <4>1, StoryCut
      <4>3. Story(loop', D, board', at', Ahead(task', board'), 0, y)
        BY <3>6, <4>2
      <4> QED
        BY <1>8, <2>1, <3>8, <4>3
    <3> QED
      BY <2>1, <3>8 DEF StepFits
  <2> QED
    BY <2>3, <2>4
<1>11. CASE Silent(board, board') /\ (x => board'.moved = board.moved)
  <2>1. Queue(board') = Queue(board) /\ Gap(board') = Gap(board)
        /\ (Usable(board', Watch) <=> Usable(board, Watch))
    BY <1>11 DEF Silent, Queue, Gap, Usable
  <2>2. Fit'
    BY <1>2, <1>4, <1>5, <2>1 DEF Fit, Sane, Ends, Linked
  <2>3. Ahead(task', board') = q
    BY <1>0, <2>1 DEF Ahead
  <2>4. ASSUME Told, Aware PROVE Told'
    <3>1. PICK k : Story(loop', D, board, at', q, k, y)
      BY <1>7, <2>4
    <3>2. y => board'.moved = board.moved
      BY <1>11
    <3> HIDE DEF y, q, D, z
    <3>3. Story(loop', D, board', at', q, k, y)
      BY <1>1, <1>6, <1>11, <3>1, <3>2, StorySilent
    <3> QED
      BY <1>8, <2>2, <2>3, <2>4, <3>3
  <2> QED
    BY <2>2, <2>4 DEF StepFits
<1>12. CASE Drops(board, board')
  <2>1. Queue(board') = Queue(board) /\ Usable(board', Watch) /\ Usable(board, Watch)
    BY <1>12 DEF Drops
  <2>2. Gap(board') # 0
    <3>1. Gap(board) \in Nat
      BY <1>1 DEF Bounded, Boards, Handles, Gap
    <3> QED
      BY <1>12, <3>1 DEF Drops
  <2>3. ~y
    BY <1>1, <2>2 DEF Precise
  <2>4. Fit'
    BY <1>2, <1>4, <1>5, <2>1 DEF Fit, Sane, Linked
  <2>5. Ahead(task', board') = q
    BY <1>0, <2>1 DEF Ahead
  <2>6. ASSUME Told, Aware PROVE Told'
    <3>1. PICK k : Story(loop', D, board, at', q, k, y)
      BY <1>7, <2>6
    <3>2. loop'.snapshot_seq \subseteq SeqNumbers
      BY <1>2 DEF Learned
    <3> HIDE DEF y, q, D, z
    <3>3. Story(loop', D, board', at', q, k, y)
      BY <1>1, <1>6, <1>12, <2>3, <3>1, <3>2, StoryDrops
    <3> QED
      BY <1>8, <2>4, <2>5, <2>6, <3>3
  <2> QED
    BY <2>4, <2>6 DEF StepFits
<1>13. ASSUME NEW r \in StatusReports, Appends(board, board', r) PROVE StepFits
  <2>1. /\ Queue(board') = Append(Queue(board), r)
        /\ Usable(board', Watch) /\ Usable(board, Watch) /\ Plain(r)
    BY <1>13 DEF Appends
  <2>2. PlainQueue(Queue(board'))
    <3>1. PlainQueue(Queue(board))
      BY DEF Fit, Sane
    <3> QED
      BY <1>1, <2>1, <3>1, Appended DEF PlainQueue
  <2>3. Fit'
    BY <1>2, <1>4, <1>5, <2>1, <2>2 DEF Fit, Sane, Linked
  <2>4. Ahead(task', board') = Append(q, r)
    <3>1. CASE task.report = None \/ task.stale
      BY <1>0, <2>1, <3>1 DEF Ahead
    <3>2. CASE ~(task.report = None \/ task.stale)
      <4>1. TheReport(task) \in StatusReports
        BY <3>2, ReportInHand DEF Fit
      <4>2. q = <<TheReport(task)>> \o Queue(board)
        BY <3>2 DEF Ahead
      <4>3. Ahead(task', board') = <<TheReport(task)>> \o Append(Queue(board), r)
        BY <1>0, <2>1, <3>2 DEF Ahead
      <4> HIDE DEF q
      <4> QED
        BY <1>1, <1>13, <4>1, <4>2, <4>3, Prepended
    <3> QED
      BY <3>1, <3>2
  <2>5. board'.powered
    BY <1>1, <2>1 DEF BoardOK, Usable
  <2>6. y => \A n \in GPIOS : Moves(r, n) => n \in D /\ Listening(loop', at')
    BY <1>13
  <2>7. ASSUME Told, Aware, Reads(board') PROVE Told'
    <3>1. PICK k : Story(loop', D, board, at', q, k, y)
      BY <1>7, <2>7
    <3> HIDE DEF y, q, D, z
    <3>2. Story(loop', D, board', at', Append(q, r), k, y)
      BY <1>1, <1>2, <1>13, <2>5, <2>6, <2>7, <3>1, StoryAppends
    <3> QED
      BY <1>8, <2>3, <2>4, <2>7, <3>2
  <2> QED
    BY <2>3, <2>7 DEF StepFits, Aware
<1> QED
  BY <1>10, <1>11, <1>12, <1>13 DEF Grows

-----------------------------------------------------------------------------
(***************************************************************************)
(* The inputs of the board, and its sequence numbers                       *)
(***************************************************************************)

\* An output is no monitored input.
LEMMA MasksApart ==
  \A config : MonitoredMask(config) \cap OutputsMask(config) = {}
BY DEF MonitoredMask, OutputsMask, IsMonitored, IsOutput, ModeIsInput, MODE_INPUT_NOPULL,
       MODE_INPUT_PULLDOWN, MODE_OUTPUT

\* The fields of a board that reading it is about.
LEMMA WiredAlike ==
  ASSUME NEW b, Wired(b), NEW d, d.inputs = b.inputs, d.moved = b.moved, d.config = b.config,
         d.powered => b.powered,
         \A n \in MonitoredMask(b.config) : n \in d.levels <=> n \in b.levels
  PROVE  Wired(d)
BY DEF Wired

\* A report tells, and changes nothing but the sequence number.
LEMMA SendReads ==
  ASSUME NEW b, DOMAIN b = BoardFields, b.next_seq \in SeqNumbers, Wired(b),
         NEW reason, NEW edges
  PROVE  Reads(Send(b, reason, edges))
<1> DEFINE s == Send(b, reason, edges)
<1>1. /\ s.inputs = b.inputs /\ s.moved = b.moved /\ s.config = b.config
      /\ s.levels = b.levels /\ s.powered = b.powered
      /\ s.next_seq = (b.next_seq + 1) % SEQ_MOD /\ s.last_seq = b.next_seq
  BY DEF Send, BoardFields
<1> HIDE DEF s
<1>2. Wired(s)
  BY <1>1, WiredAlike
<1>3. Reads(s)
  BY <1>1, <1>2 DEF Reads
<1> QED
  BY <1>3 DEF s

\* Operations that touch no input.
LEMMA QuietReads ==
  ASSUME NEW b, Bounded(b), BoardOK(b), Reads(b)
  PROVE  /\ Reads(Unplug(b)) /\ Reads(Reenumerate(b)) /\ Reads(Suspend(b))
         /\ Reads(Periodic(b)) /\ Reads(SkipReports(b, 1))
         /\ \A mask, value : Reads(WriteOutputs(b, mask, value))
         /\ Reads([b EXCEPT !.open_error = ~@]) /\ Reads([b EXCEPT !.version_ok = ~@])
         /\ Reads(OpenHandle(b, Watch)) /\ Reads(CloseHandle(b, Watch))
         /\ Reads([b EXCEPT !.handles[Watch].reports = Tail(@)])
<1>1. /\ DOMAIN b = BoardFields /\ b.next_seq \in SeqNumbers /\ Wired(b)
      /\ b.config \in ValidConfigs
  BY DEF Bounded, Boards, BoardOK, Reads
<1>2. \A n : n \in InitialLevels(b) => n \in OutputsMask(b.config)
  BY DEF InitialLevels, InitialOutputLevels, OutputsMask, OutputMask, IsOutput
<1>3. ASSUME NEW d, DOMAIN d = BoardFields, d.config = b.config, d.levels = b.levels,
             d.inputs = b.inputs, d.moved = b.moved, d.powered => b.powered,
             d.next_seq = b.next_seq, d.last_seq = b.last_seq
      PROVE  /\ Reads(d) /\ Reads(OutputsReset(d)) /\ DOMAIN OutputsReset(d) = BoardFields
  <2> DEFINE o == OutputsReset(d)
  <2>1. /\ o.inputs = b.inputs /\ o.moved = b.moved /\ o.config = b.config
        /\ o.powered = d.powered /\ o.next_seq = b.next_seq /\ o.last_seq = b.last_seq
        /\ o.levels = (b.levels \ OutputsMask(b.config)) \cup InitialLevels(d)
        /\ DOMAIN o = BoardFields /\ InitialLevels(d) = InitialLevels(b)
    BY <1>3 DEF OutputsReset, BoardFields, InitialLevels
  <2>2. \A n \in MonitoredMask(b.config) : n \in o.levels <=> n \in b.levels
    BY <1>2, <2>1, MasksApart
  <2> HIDE DEF o
  <2>3. Wired(o) /\ Wired(d)
    BY <1>1, <1>3, <2>1, <2>2, WiredAlike
  <2>4. Reads(o) /\ Reads(d)
    BY <1>3, <2>1, <2>3 DEF Reads
  <2> QED
    BY <2>1, <2>4 DEF o
<1>4. Reads(Unplug(b))
  <2>1. /\ DOMAIN Unplug(b) = BoardFields /\ Unplug(b).config = b.config
        /\ Unplug(b).levels = b.levels /\ Unplug(b).inputs = b.inputs
        /\ Unplug(b).moved = b.moved /\ Unplug(b).powered = FALSE
        /\ Unplug(b).next_seq = b.next_seq /\ Unplug(b).last_seq = b.last_seq
    BY <1>1 DEF Unplug, FailHandles, BoardFields
  <2> QED
    BY <1>3, <2>1
<1>5. Reads(Reenumerate(b))
  <2> DEFINE f == FailHandles(b)
  <2>1. /\ DOMAIN f = BoardFields /\ f.config = b.config /\ f.levels = b.levels
        /\ f.inputs = b.inputs /\ f.moved = b.moved /\ f.powered = b.powered
        /\ f.next_seq = b.next_seq /\ f.last_seq = b.last_seq
    BY <1>1 DEF FailHandles, BoardFields
  <2> HIDE DEF f
  <2>2. Reads(OutputsReset(f))
    BY <1>3, <2>1
  <2> QED
    BY <2>2 DEF Reenumerate, f
<1>6. Reads(Suspend(b))
  <2>1. Reads(OutputsReset(b)) /\ DOMAIN OutputsReset(b) = BoardFields
    BY <1>1, <1>3
  <2>2. OutputsReset(b).next_seq = b.next_seq
    BY <1>1 DEF OutputsReset, BoardFields
  <2>3. Reads(Send(OutputsReset(b), "OUTPUT_RESET", <<>>))
    BY <1>1, <2>1, <2>2, SendReads DEF Reads
  <2> QED
    BY <2>3 DEF Suspend
<1>7. Reads(Periodic(b))
  BY <1>1, SendReads DEF Periodic
<1>8. Reads(SkipReports(b, 1))
  <2> DEFINE s == SkipReports(b, 1)
  <2>1. /\ s.config = b.config /\ s.levels = b.levels /\ s.inputs = b.inputs
        /\ s.moved = b.moved /\ s.powered = b.powered
        /\ s.next_seq = (b.next_seq + 1) % SEQ_MOD
        /\ s.last_seq = (b.next_seq + 1 + SEQ_MOD - 1) % SEQ_MOD
    BY <1>1 DEF SkipReports, BoardFields
  <2>2. SEQ_MOD \in Nat /\ SEQ_MOD > 0 /\ b.next_seq \in Nat /\ b.next_seq % SEQ_MOD = b.next_seq
    <3>1. SEQ_MOD \in Nat /\ SEQ_MOD > 1
      BY SeqArithmetic
    <3>2. b.next_seq \in 0 .. SEQ_MOD - 1
      BY <1>1 DEF SeqNumbers
    <3> QED
      BY <3>1, <3>2
  <2>3. b.next_seq + 1 + SEQ_MOD - 1 = b.next_seq + SEQ_MOD
    BY <2>2
  <2>4. s.last_seq = b.next_seq
    BY <2>1, <2>2, <2>3, ModPeriod
  <2> HIDE DEF s
  <2>5. Wired(s)
    BY <1>1, <2>1, WiredAlike
  <2>6. Reads(s)
    BY <2>1, <2>4, <2>5 DEF Reads
  <2> QED
    BY <2>6 DEF s
<1>9. ASSUME NEW mask, NEW value PROVE Reads(WriteOutputs(b, mask, value))
  <2> DEFINE driven == mask \cap OutputsMask(b.config)
             o == [b EXCEPT !.levels = (@ \ driven) \cup (value \cap driven)]
  <2>1. /\ DOMAIN o = BoardFields /\ o.inputs = b.inputs /\ o.moved = b.moved
        /\ o.config = b.config /\ o.powered = b.powered /\ o.next_seq = b.next_seq
        /\ o.levels = (b.levels \ driven) \cup (value \cap driven)
    BY <1>1 DEF BoardFields
  <2>2. \A n \in MonitoredMask(b.config) : n \in o.levels <=> n \in b.levels
    BY <2>1, MasksApart
  <2> HIDE DEF o
  <2>3. Wired(o)
    BY <1>1, <2>1, <2>2, WiredAlike
  <2>4. Reads(Send(o, "OUTPUT_APPLIED", <<>>))
    BY <1>1, <2>1, <2>3, SendReads
  <2> QED
    BY <2>4 DEF WriteOutputs, o
<1>10. Reads([b EXCEPT !.open_error = ~@]) /\ Reads([b EXCEPT !.version_ok = ~@])
  <2>1. ASSUME NEW x PROVE Reads([b EXCEPT !.open_error = x])
    <3> DEFINE d == [b EXCEPT !.open_error = x]
    <3>1. /\ DOMAIN d = BoardFields /\ d.config = b.config /\ d.levels = b.levels
          /\ d.inputs = b.inputs /\ d.moved = b.moved /\ d.powered = b.powered
          /\ d.next_seq = b.next_seq /\ d.last_seq = b.last_seq
      BY <1>1 DEF BoardFields
    <3> HIDE DEF d
    <3>2. Reads(d)
      BY <1>3, <3>1
    <3> QED
      BY <3>2 DEF d
  <2>2. ASSUME NEW x PROVE Reads([b EXCEPT !.version_ok = x])
    <3> DEFINE d == [b EXCEPT !.version_ok = x]
    <3>1. /\ DOMAIN d = BoardFields /\ d.config = b.config /\ d.levels = b.levels
          /\ d.inputs = b.inputs /\ d.moved = b.moved /\ d.powered = b.powered
          /\ d.next_seq = b.next_seq /\ d.last_seq = b.last_seq
      BY <1>1 DEF BoardFields
    <3> HIDE DEF d
    <3>2. Reads(d)
      BY <1>3, <3>1
    <3> QED
      BY <3>2 DEF d
  <2>3. /\ \A x : Reads([b EXCEPT !.open_error = x])
        /\ \A x : Reads([b EXCEPT !.version_ok = x])
    BY <2>1, <2>2
  <2> QED
    BY <2>3, Zenon
<1>11. \A hs : Reads([b EXCEPT !.handles = hs])
  <2> TAKE hs
  <2> DEFINE d == [b EXCEPT !.handles = hs]
  <2>1. /\ DOMAIN d = BoardFields /\ d.config = b.config /\ d.levels = b.levels
        /\ d.inputs = b.inputs /\ d.moved = b.moved /\ d.powered = b.powered
        /\ d.next_seq = b.next_seq /\ d.last_seq = b.last_seq
    BY <1>1 DEF BoardFields
  <2> HIDE DEF d
  <2>2. Reads(d)
    BY <1>3, <2>1
  <2> QED
    BY <2>2 DEF d
<1>12. /\ Reads(OpenHandle(b, Watch)) /\ Reads(CloseHandle(b, Watch))
       /\ Reads([b EXCEPT !.handles[Watch].reports = Tail(@)])
  BY <1>11 DEF OpenHandle, CloseHandle
<1> QED
  BY <1>4, <1>5, <1>6, <1>7, <1>8, <1>9, <1>10, <1>12

\* An input changes: the count of its changes, and its level when it is sampled.
LEMMA InputReads ==
  ASSUME NEW b, Bounded(b), BoardOK(b), Reads(b), NEW n \in GPIOS, NEW high \in BOOLEAN
  PROVE  Reads(SetInput(b, n, high)) /\ Reads(LoseInput(b, n, high))
<1> DEFINE m == WithInput(b, n, high)
           w == WithLevel(m, n)
<1>1. /\ DOMAIN b = BoardFields /\ b.next_seq \in SeqNumbers /\ Wired(b)
      /\ b.moved \in [GPIOS -> Nat] /\ b.inputs \subseteq GPIOS
  BY DEF Bounded, Boards, BoardOK, Reads
<1>2. /\ DOMAIN m = BoardFields /\ m.config = b.config /\ m.levels = b.levels
      /\ m.powered = b.powered /\ m.next_seq = b.next_seq /\ m.last_seq = b.last_seq
      /\ m.inputs = (IF high THEN b.inputs \cup {n} ELSE b.inputs \ {n})
      /\ m.moved = [b.moved EXCEPT ![n] = @ + (IF high = (n \in b.inputs) THEN 0 ELSE 1)]
  BY <1>1 DEF WithInput, BoardFields
<1> HIDE DEF m
<1>3. /\ DOMAIN w = BoardFields /\ w.config = b.config /\ w.inputs = m.inputs
      /\ w.moved = m.moved /\ w.powered = b.powered /\ w.next_seq = b.next_seq
      /\ w.last_seq = b.last_seq
      /\ w.levels = (IF n \in m.inputs THEN b.levels \cup {n} ELSE b.levels \ {n})
  BY <1>1, <1>2 DEF WithLevel, BoardFields
<1> HIDE DEF w
<1>4. /\ n \in m.inputs <=> high
      /\ \A o \in GPIOS \ {n} : o \in m.inputs <=> o \in b.inputs
  BY <1>2
<1>5. \A o \in GPIOS : o \in m.inputs <=> High(o, m.moved[o])
  <2>1. ASSUME NEW o \in GPIOS \ {n} PROVE o \in m.inputs <=> High(o, m.moved[o])
    BY <1>1, <1>2, <1>4, <2>1 DEF Wired
  <2>2. n \in m.inputs <=> High(n, m.moved[n])
    <3>1. b.moved[n] \in Nat /\ (n \in b.inputs <=> High(n, b.moved[n]))
      BY <1>1 DEF Wired
    <3>2. CASE high <=> n \in b.inputs
      <4>1. m.moved[n] = b.moved[n]
        BY <1>1, <1>2, <3>1, <3>2
      <4> QED
        BY <1>4, <3>1, <3>2, <4>1
    <3>3. CASE ~(high <=> n \in b.inputs)
      <4>1. m.moved[n] = b.moved[n] + 1
        BY <1>1, <1>2, <3>3
      <4>2. High(n, b.moved[n] + 1) <=> ~High(n, b.moved[n])
        <5>1. (b.moved[n] + 1) % 2 = 0 <=> b.moved[n] % 2 # 0
          BY <3>1
        <5> QED
          BY <5>1 DEF High
      <4> QED
        BY <1>4, <3>1, <3>3, <4>1, <4>2
    <3> QED
      BY <3>2, <3>3
  <2> QED
    BY <2>1, <2>2
<1>6. Wired(w)
  <2>1. ASSUME w.powered, NEW o \in MonitoredMask(w.config)
        PROVE  o \in w.levels <=> o \in w.inputs
    <3>1. o \in GPIOS /\ (o \in b.levels <=> o \in b.inputs)
      BY <1>1, <1>3, <2>1 DEF Wired, MonitoredMask
    <3> QED
      BY <1>3, <1>4, <3>1
  <2> QED
    BY <1>3, <1>5, <2>1 DEF Wired
<1>7. ASSUME b.powered => (n \in MonitoredMask(b.config) => (n \in b.levels <=> high))
      PROVE  Wired(m)
  <2>1. ASSUME m.powered, NEW o \in MonitoredMask(m.config)
        PROVE  o \in m.levels <=> o \in m.inputs
    <3>1. o \in GPIOS /\ (o \in b.levels <=> o \in b.inputs)
      BY <1>1, <1>2, <2>1 DEF Wired, MonitoredMask
    <3> QED
      BY <1>2, <1>4, <1>7, <2>1, <3>1
  <2> QED
    BY <1>5, <2>1 DEF Wired
<1>8. ASSUME Wired(m) PROVE Reads(m)
  BY <1>2, <1>8 DEF Reads
<1>9. n \in MonitoredMask(b.config) <=> IsMonitored(b.config[n])
  BY DEF MonitoredMask
<1>10. Reads(SetInput(b, n, high))
  <2>1. CASE ~b.powered \/ ~IsMonitored(b.config[n]) \/ (n \in b.levels) = high
    <3>1. SetInput(b, n, high) = m
      BY <2>1 DEF SetInput, m
    <3> QED
      BY <1>7, <1>8, <1>9, <2>1, <3>1
  <2>2. CASE ~(~b.powered \/ ~IsMonitored(b.config[n]) \/ (n \in b.levels) = high)
    <3>1. SetInput(b, n, high) = Send(w, "LEVEL_CHANGED", <<[gpio |-> n, level |-> high]>>)
      BY <2>2 DEF SetInput, w, m
    <3> QED
      BY <1>1, <1>3, <1>6, <3>1, SendReads
  <2> QED
    BY <2>1, <2>2
<1>11. Reads(LoseInput(b, n, high))
  <2> DEFINE e == [w EXCEPT !.overflow = TRUE]
  <2>1. CASE ~IsMonitored(b.config[n])
    <3>1. LoseInput(b, n, high) = m
      BY <2>1 DEF LoseInput, m
    <3> QED
      BY <1>7, <1>8, <1>9, <2>1, <3>1
  <2>2. CASE IsMonitored(b.config[n])
    <3>1. LoseInput(b, n, high) = e
      BY <2>2 DEF LoseInput, w, m
    <3>2. /\ e.config = w.config /\ e.levels = w.levels /\ e.inputs = w.inputs
          /\ e.moved = w.moved /\ e.powered = w.powered /\ e.next_seq = b.next_seq
          /\ e.last_seq = b.last_seq
      BY <1>3 DEF BoardFields
    <3> HIDE DEF e
    <3>3. Wired(e)
      BY <1>6, <3>2, WiredAlike
    <3>4. Reads(e)
      BY <3>2, <3>3 DEF Reads
    <3> QED
      BY <3>1, <3>4
  <2> QED
    BY <2>1, <2>2
<1> QED
  BY <1>10, <1>11

\* A Set: pins that begin to be monitored are read.
LEMMA WriteReads ==
  ASSUME Floating = {}, NEW b, Bounded(b), BoardOK(b), Reads(b), NEW p, Payload(p)
  PROVE  Reads(WriteConfig(b, p))
<1> DEFINE answer == ValidatePinConfigPayload(p, Available)
           told   == [b EXCEPT !.result = answer.result, !.request_id = answer.request_id]
           next   == p.pins
           after  == [told EXCEPT !.levels = LevelsAfter(b, next), !.config = next]
<1>1. /\ DOMAIN b = BoardFields /\ b.next_seq \in SeqNumbers /\ Wired(b)
  BY DEF Bounded, Boards, BoardOK, Reads
<1>2. /\ DOMAIN told = BoardFields /\ told.config = b.config /\ told.levels = b.levels
      /\ told.inputs = b.inputs /\ told.moved = b.moved /\ told.powered = b.powered
      /\ told.next_seq = b.next_seq /\ told.last_seq = b.last_seq
  BY <1>1 DEF BoardFields
<1>3. WriteConfig(b, p) = told \/ WriteConfig(b, p) = Send(after, "CONFIG_CHANGED", <<>>)
  BY DEF WriteConfig
<1> HIDE DEF answer, told, next
<1>4. Reads(told)
  <2>1. Wired(told)
    BY <1>1, <1>2, WiredAlike
  <2> QED
    BY <1>2, <2>1 DEF Reads
<1>5. /\ DOMAIN after = BoardFields /\ after.config = next
      /\ after.levels = LevelsAfter(b, next)
      /\ after.inputs = b.inputs /\ after.moved = b.moved /\ after.powered = b.powered
      /\ after.next_seq = b.next_seq
  BY <1>2 DEF BoardFields
<1> HIDE DEF after
<1>6. ASSUME b.powered, NEW n \in GPIOS, IsMonitored(next[n])
      PROVE  n \in LevelsAfter(b, next) <=> n \in b.inputs
  <2>1. CASE KeepsLevel(b.config[n], next[n])
    <3>1. n \in LevelsAfter(b, next) <=> n \in b.levels
      BY <2>1 DEF LevelsAfter
    <3>2. IsMonitored(b.config[n])
      BY <1>6, <2>1 DEF KeepsLevel
    <3> QED
      BY <1>1, <1>6, <3>1, <3>2 DEF Wired, MonitoredMask
  <2>2. CASE ~KeepsLevel(b.config[n], next[n])
    <3>1. n \in LevelsAfter(b, next) <=> ReadsHigh(b, n, next[n])
      BY <1>6, <2>2 DEF LevelsAfter
    <3> QED
      BY <3>1 DEF ReadsHigh
  <2> QED
    BY <2>1, <2>2
<1>7. Wired(after)
  BY <1>1, <1>5, <1>6 DEF Wired, MonitoredMask
<1>8. Reads(Send(after, "CONFIG_CHANGED", <<>>))
  BY <1>1, <1>5, <1>7, SendReads
<1> QED
  BY <1>3, <1>4, <1>8

\* A board that is plugged in samples every input.
LEMMA PlugReads ==
  ASSUME Floating = {}
  PROVE  /\ \A b : Bounded(b) /\ BoardOK(b) /\ Reads(b) => Reads(Plug(b))
         /\ Reads(NewBoard)
<1>1. MonitoredMask(DefaultFor(Available)) = Available
  BY ProtocolAssumption
     DEF MonitoredMask, DefaultFor, IsMonitored, ModeIsInput, PullUpSetting, UnusedSetting,
         PinSetting, MODE_INPUT_NOPULL, MODE_INPUT_PULLUP, MODE_INPUT_PULLDOWN, MODE_UNUSED
<1>2. LastSeq # 0 => FirstSeq = (LastSeq + 1) % SEQ_MOD
  <2>1. SEQ_MOD \in Nat /\ FirstSeq \in 0 .. SEQ_MOD - 1
    BY BoardAssumption
  <2>2. FirstSeq % SEQ_MOD = FirstSeq
    BY <2>1
  <2>3. LastSeq # 0 => LastSeq = FirstSeq - 1
    BY DEF LastSeq
  <2> QED
    BY <2>1, <2>2, <2>3
<1>3. ASSUME NEW b, Bounded(b), BoardOK(b), Reads(b) PROVE Reads(Plug(b))
  <2> DEFINE d == Plug(b)
  <2>1. /\ d.config = DefaultFor(Available) /\ d.inputs = b.inputs /\ d.moved = b.moved
        /\ d.next_seq = FirstSeq /\ d.last_seq = LastSeq
        /\ d.levels = {n \in Available : ReadsHigh(b, n, DefaultFor(Available)[n])}
    BY <1>3 DEF Plug, BoardOK, BoardFields
  <2> HIDE DEF d
  <2>2. \A n \in Available : n \in d.levels <=> n \in d.inputs
    BY <2>1 DEF ReadsHigh
  <2>3. Wired(d)
    BY <1>1, <1>3, <2>1, <2>2 DEF Reads, Wired
  <2>4. Reads(d)
    BY <1>2, <2>1, <2>3 DEF Reads
  <2> QED
    BY <2>4 DEF d
<1>4. Reads(NewBoard)
  <2> DEFINE d == NewBoard
  <2>1. /\ d.inputs = Available /\ d.moved = [n \in GPIOS |-> 0] /\ d.powered = FALSE
        /\ d.next_seq = FirstSeq /\ d.last_seq = LastSeq
    BY DEF NewBoard
  <2> HIDE DEF d
  <2>2. \A n \in GPIOS : n \in d.inputs <=> High(n, d.moved[n])
    BY <2>1 DEF High
  <2>3. Wired(d)
    BY <2>1, <2>2 DEF Wired
  <2>4. Reads(d)
    BY <1>2, <2>1, <2>3 DEF Reads
  <2> QED
    BY <2>4 DEF d
<1> QED
  BY <1>3, <1>4

-----------------------------------------------------------------------------
(***************************************************************************)
(* What the steps of the machine do to the board                           *)
(***************************************************************************)

\* What a step can do to the board.
Ordinary(b, d) ==
  \/ d = Unplug(b) \/ d = Reenumerate(b) \/ d = Suspend(b) \/ d = Periodic(b)
  \/ d = SkipReports(b, 1) \/ d = WriteOutputs(b, GPIOS, GPIOS)
  \/ d = [b EXCEPT !.open_error = ~@] \/ d = [b EXCEPT !.version_ok = ~@]

\* What happens to the board: a step of the loop, of another program or of the
\* world.
Happening(b, d) ==
  \/ d = b \/ d = CloseHandle(b, Watch) \/ d = OpenHandle(b, Watch)
  \/ b.handles[Watch].reports # <<>> /\ d = [b EXCEPT !.handles[Watch].reports = Tail(@)]
  \/ \E p : Payload(p) /\ d = WriteConfig(b, p)
  \/ ~b.powered /\ d = Plug(b)
  \/ Ordinary(b, d)
  \/ \E n \in GPIOS, high \in BOOLEAN : d = SetInput(b, n, high) \/ d = LoseInput(b, n, high)

\* Another program's write.
LEMMA OtherPayload ==
  \A config \in OtherConfigs : Payload(EncodePinConfigSet(config, 1))
<1>1. 1 \in 0 .. 255
  OBVIOUS
<1> QED
  BY <1>1, EncodedPayload, WatchAssumption

\* The thread's own write.
LEMMA OwnPayload ==
  ASSUME WatchInv, at = "send"
  PROVE  Payload(EncodePinConfigSet(TheTarget, task.id))
<1>1. TheTarget \in PinConfigs /\ task.id \in 0 .. 255
  BY TargetInHand DEF WatchInv, Sound
<1> QED
  BY <1>1, EncodedPayload

\* Every step does one of these to the board.
LEMMA BoardSteps ==
  ASSUME WatchInv, [Next]_vars
  PROVE  Happening(board, board')
<1> DEFINE Stays == board' = board \/ board' = CloseHandle(board, Watch)
<1>1. ASSUME Stays PROVE Happening(board, board')
  BY <1>1 DEF Happening
<1>2. /\ \A cause : Attempt(cause) => Stays
      /\ Disconnect => Stays
      /\ \A cause : TransferFailed(cause) => Stays
      /\ Rejected => Stays
      /\ \A l, found : SetTargetOver(l, found) => Stays
  <2>1. /\ \A cause : Attempt(cause) => Stays
        /\ Disconnect => Stays
        /\ Stop => Stays
    BY DEF Attempt, Disconnect, FinishClosed, Stop
  <2>2. (\A cause : TransferFailed(cause) => Stays) /\ (Rejected => Stays)
    BY <2>1 DEF TransferFailed, Rejected
  <2> QED
    BY <2>1, <2>2 DEF SetTargetOver
<1>3. TryConnect => Happening(board, board')
  BY DEF TryConnect, Happening
<1>4. ConnectInfo => Stays
  BY <1>2 DEF ConnectInfo
<1>5. ReadConfig => Stays
  BY <1>2 DEF ReadConfig
<1>6. SendTarget => Happening(board, board')
  <2> SUFFICES ASSUME SendTarget PROVE Happening(board, board')
    OBVIOUS
  <2>1. at = "send" /\ (TransferFailed("io") \/ board' = Written)
    BY DEF SendTarget
  <2>2. CASE board' = Written
    BY <2>1, <2>2, OwnPayload DEF Written, Happening
  <2> QED
    BY <1>1, <1>2, <2>1, <2>2
<1>7. VerifyTarget => Stays
  <2> SUFFICES ASSUME VerifyTarget PROVE Stays
    OBVIOUS
  <2> DEFINE outcome == SetOutcome(PinConfigReport(board), task.id, TheTarget)
  <2>1. outcome \in {"ok", "rejected", "conflict", "mismatch"}
    BY DEF SetOutcome
  <2> QED
    BY <1>2, <2>1 DEF VerifyTarget
<1>8. RestoreDue \/ SettleDue => Stays
  BY DEF RestoreDue, SettleDue
<1>9. TakeSnapshot => Stays
  BY <1>2 DEF TakeSnapshot
<1>10. ReadReport => Happening(board, board')
  <2> SUFFICES ASSUME ReadReport PROVE Happening(board, board')
    OBVIOUS
  <2>1. \/ Disconnect
        \/ Reports # <<>> /\ board' = [board EXCEPT !.handles[Watch].reports = Tail(@)]
    BY DEF ReadReport
  <2> QED
    BY <1>1, <1>2, <2>1 DEF Happening, Reports
<1>11. SetTarget \/ Tick => Stays
  BY DEF SetTarget, Tick
<1>12. SetOutputs \/ Heartbeat => Happening(board, board')
  BY DEF SetOutputs, Heartbeat, Happening, Ordinary
<1>13. PlugIn => Happening(board, board')
  BY DEF PlugIn, Happens, Happening
<1>14. World => Happening(board, board')
  <2> SUFFICES ASSUME World PROVE Happening(board, board')
    OBVIOUS
  <2>1. ASSUME NEW n \in Switches, NEW high, high = (n \notin board.inputs),
               board' = SetInput(board, n, high) \/ board' = LoseInput(board, n, high)
        PROVE  Happening(board, board')
    <3>1. n \in GPIOS /\ high \in BOOLEAN
      BY <2>1, WatchAssumption
    <3> QED
      BY <2>1, <3>1 DEF Happening
  <2>2. Inputs => Happening(board, board')
    BY <2>1 DEF Inputs, Happens
  <2>3. ASSUME NEW config \in OtherConfigs, board' = WritePinConfig(board, config)
        PROVE  Happening(board, board')
    BY <2>3, OtherPayload DEF WritePinConfig, Happening
  <2>4. ~Inputs => \/ Ordinary(board, board')
                   \/ \E config \in OtherConfigs : board' = WritePinConfig(board, config)
    BY DEF World, Happens, Ordinary
  <2> QED
    BY <2>2, <2>3, <2>4 DEF Happening
<1>15. UNCHANGED vars => Stays
  BY DEF vars
<1> HIDE DEF Stays
<1> QED
  BY <1>1, <1>3, <1>4, <1>5, <1>6, <1>7, <1>8, <1>9, <1>10, <1>11, <1>12, <1>13, <1>14,
     <1>15 DEF Next, ThreadStep

\* The watcher's queue stays in order.
LEMMA HappeningChains ==
  ASSUME NEW b, Bounded(b), BoardOK(b), Chained(b, Watch, None), NEW d, Happening(b, d)
  PROVE  Chained(d, Watch, None)
<1>1. /\ Watch \in Clients /\ None \in SUBSET SeqNumbers /\ DOMAIN b = BoardFields
      /\ b.handles \in [Clients -> Handles] /\ b.next_seq \in SeqNumbers
  BY WatchAssumption DEF None, BoardOK, Bounded, Boards
<1>2. ASSUME KeepsChains(b, d) PROVE Chained(d, Watch, None)
  BY <1>1, <1>2 DEF KeepsChains
<1>3. CASE d = b
  BY <1>3
<1>4. CASE d = CloseHandle(b, Watch)
  BY <1>1, <1>2, <1>4, QueuesEndOrSkip
<1>5. CASE d = OpenHandle(b, Watch)
  <2>1. d.handles[Watch] = Opened
    BY <1>1, <1>5 DEF OpenHandle, BoardFields
  <2>2. d.handles[Watch].reports = <<>>
    BY <2>1 DEF Opened, Closed
  <2>3. Len(<<>>) = 0 /\ 1 .. 0 = {}
    OBVIOUS
  <2>4. Prior(<<>>, None, 1) = None
    BY DEF Prior
  <2> QED
    BY <2>2, <2>3, <2>4 DEF Chained, Chain, ComesAfter, None
<1>6. CASE /\ b.handles[Watch].reports # <<>>
           /\ d = [b EXCEPT !.handles[Watch].reports = Tail(@)]
  <2> DEFINE q == b.handles[Watch].reports
  <2>1. /\ d.next_seq = b.next_seq /\ d.handles[Watch].reports = Tail(q)
        /\ d.handles[Watch].gap = b.handles[Watch].gap
        /\ d.handles[Watch].state = b.handles[Watch].state
        /\ q \in Seq(StatusReports)
    BY <1>1, <1>6 DEF BoardFields, Handles
  <2>2. SUFFICES ASSUME b.handles[Watch].state = "open"
                 PROVE  Chain(Tail(q), None, b.next_seq, b.handles[Watch].gap)
    BY <2>1 DEF Chained
  <2>3. Chain(q, None, b.next_seq, b.handles[Watch].gap)
    BY <2>2 DEF Chained
  <2>4. Chain(Tail(q), {Head(q).seq}, b.next_seq, b.handles[Watch].gap)
    BY <1>1, <1>6, <2>1, <2>3, ChainTail
  <2> DEFINE e == Tail(q)
  <2> HIDE DEF q, e
  <2>5. ASSUME NEW i, NEW s, NEW gap, NEW last, ComesAfter(Prior(e, last, i), s, gap)
        PROVE  ComesAfter(Prior(e, None, i), s, gap)
    BY <2>5 DEF Prior, ComesAfter, None
  <2>6. Chain(e, {Head(q).seq}, b.next_seq, b.handles[Watch].gap)
    BY <2>4 DEF e
  <2>7. Chain(e, None, b.next_seq, b.handles[Watch].gap)
    BY <2>5, <2>6 DEF Chain
  <2> QED
    BY <2>7 DEF e
<1>7. CASE \E p : Payload(p) /\ d = WriteConfig(b, p)
  BY <1>2, <1>7, WorldChains
<1>8. CASE ~b.powered /\ d = Plug(b)
  <2>1. d.handles = b.handles /\ b.handles[Watch].state # "open"
    BY <1>1, <1>8 DEF Plug, BoardFields, BoardOK
  <2> QED
    BY <2>1 DEF Chained
<1>9. CASE Ordinary(b, d)
  <2>1. 1 \in Nat /\ GPIOS \in SUBSET GPIOS
    OBVIOUS
  <2>2. /\ \A x : KeepsChains(b, [b EXCEPT !.open_error = x])
        /\ \A x : KeepsChains(b, [b EXCEPT !.version_ok = x])
    BY <1>1, ChainsStay DEF BoardFields
  <2>3. /\ KeepsChains(b, [b EXCEPT !.open_error = ~@])
        /\ KeepsChains(b, [b EXCEPT !.version_ok = ~@])
    BY <2>2, Zenon
  <2>4. /\ KeepsChains(b, SkipReports(b, 1)) /\ KeepsChains(b, WriteOutputs(b, GPIOS, GPIOS))
        /\ KeepsChains(b, Unplug(b)) /\ KeepsChains(b, Reenumerate(b))
        /\ KeepsChains(b, Suspend(b)) /\ KeepsChains(b, Periodic(b))
    BY <2>1, QueuesEndOrSkip, WorldChains
  <2> QED
    BY <1>2, <1>9, <2>3, <2>4, Zenon DEF Ordinary
<1>10. CASE \E n \in GPIOS, high \in BOOLEAN :
              d = SetInput(b, n, high) \/ d = LoseInput(b, n, high)
  BY <1>2, <1>10, WorldChains
<1> QED
  BY <1>3, <1>4, <1>5, <1>6, <1>7, <1>8, <1>9, <1>10 DEF Happening

\* What the board's reports say stays true of it.
LEMMA AwareNext ==
  ASSUME Floating = {}, WatchInv, [Next]_vars, Aware
  PROVE  Aware'
<1>1. Bounded(board) /\ BoardOK(board) /\ Happening(board, board')
  BY BoardSteps DEF WatchInv, BoardInv
<1>2. Chained(board', Watch, None)
  BY <1>1, HappeningChains DEF Aware
<1>3. Reads(board')
  <2>1. Reads(board)
    BY DEF Aware
  <2>2. Ordinary(board, board') => Reads(board')
    <3>1. /\ Reads(Unplug(board)) /\ Reads(Reenumerate(board)) /\ Reads(Suspend(board))
          /\ Reads(Periodic(board)) /\ Reads(SkipReports(board, 1))
          /\ Reads(WriteOutputs(board, GPIOS, GPIOS))
      BY <1>1, <2>1, QuietReads
    <3>2. Reads([board EXCEPT !.open_error = ~@]) /\ Reads([board EXCEPT !.version_ok = ~@])
      BY <1>1, <2>1, QuietReads, Zenon
    <3> QED
      BY <3>1, <3>2, Zenon DEF Ordinary
  <2>3. \A p : Payload(p) /\ board' = WriteConfig(board, p) => Reads(board')
    BY <1>1, <2>1, WriteReads
  <2>4. board' = Plug(board) => Reads(board')
    BY <1>1, <2>1, PlugReads
  <2>5. \A n \in GPIOS, high \in BOOLEAN :
          board' = SetInput(board, n, high) \/ board' = LoseInput(board, n, high)
            => Reads(board')
    BY <1>1, <2>1, InputReads
  <2>6. /\ Reads(OpenHandle(board, Watch)) /\ Reads(CloseHandle(board, Watch))
        /\ Reads([board EXCEPT !.handles[Watch].reports = Tail(@)])
    BY <1>1, <2>1, QuietReads
  <2> QED
    BY <1>1, <2>1, <2>2, <2>3, <2>4, <2>5, <2>6 DEF Happening
<1> QED
  BY <1>2, <1>3 DEF Aware

-----------------------------------------------------------------------------
(***************************************************************************)
(* Sequence numbers in reach of each other                                 *)
(***************************************************************************)

\* A remainder of less than twice the modulus.
LEMMA ModSmall ==
  ASSUME NEW m \in Nat, m > 0, NEW x \in Nat, x < m + m
  PROVE  x % m = IF x < m THEN x ELSE x - m
<1>1. \A y \in 0 .. m - 1 : y % m = y
  OBVIOUS
<1>2. CASE x < m
  BY <1>1, <1>2
<1>3. CASE x >= m
  <2>1. x - m \in 0 .. m - 1 /\ x - m \in Nat /\ (x - m) + m = x
    BY <1>3
  <2>2. ((x - m) + m) % m = (x - m) % m
    BY <2>1, ModPeriod
  <2> QED
    BY <1>1, <1>3, <2>1, <2>2
<1> QED
  BY <1>2, <1>3

\* Half of the sequence numbers.
LEMMA HalfOfSeqs ==
  /\ SEQ_MOD \in Nat /\ SEQ_MOD > 0 /\ SEQ_MOD \div 2 \in Nat
  /\ SEQ_MOD \div 2 + SEQ_MOD \div 2 <= SEQ_MOD
<1>1. SEQ_MOD \in Nat /\ SEQ_MOD > 1
  BY BoardAssumption
<1> QED
  BY <1>1

\* How far the board is from the reports that wait.
LEMMA WaitingSeqs ==
  ASSUME NEW q \in Seq(StatusReports), NEW next \in SeqNumbers, NEW gap \in Nat,
         Chain(q, None, next, gap), NEW sent, sent[0] = 0,
         \A i \in 1 .. Len(q) : sent[i] = sent[i - 1] + 1 + q[i].gap,
         sent[Len(q)] + 1 + gap < SEQ_MOD \div 2
  PROVE  \A i \in 1 .. Len(q) :
           /\ sent[i] \in Nat
           /\ \E d \in 1 .. SEQ_MOD \div 2 - 1 :
                /\ next = (q[i].seq + d) % SEQ_MOD
                /\ sent[i] + d = sent[Len(q)] + 1 + gap
<1> DEFINE n == Len(q)
           h == SEQ_MOD \div 2
           Far(i) == \E d \in 1 .. h - 1 :
                       /\ next = (q[i].seq + d) % SEQ_MOD
                       /\ sent[i] + d = sent[n] + 1 + gap
           odd == {i \in 0 .. n : sent[i] \notin Nat}
           near == {i \in 1 .. n : ~Far(i)}
           back == {n - i : i \in near}
<1>1. /\ n \in Nat
      /\ \A i \in 1 .. n : q[i].gap \in Nat /\ q[i].seq \in Nat
  <2>1. \A i \in 1 .. n : q[i].gap \in Nat /\ q[i].seq \in SeqNumbers
    <3>1. \A r \in StatusReports : r.gap \in Nat /\ r.seq \in SeqNumbers
      BY DEF StatusReports
    <3>2. \A i \in 1 .. n : q[i] \in StatusReports
      OBVIOUS
    <3> QED
      BY <3>1, <3>2
  <2>2. SeqNumbers \subseteq Nat
    BY HalfOfSeqs DEF SeqNumbers
  <2>3. n \in Nat
    OBVIOUS
  <2> HIDE DEF n
  <2>4. ASSUME NEW i \in 1 .. n PROVE q[i].gap \in Nat /\ q[i].seq \in Nat
    BY <2>1, <2>2
  <2> QED
    BY <2>3, <2>4
<1>2. \A i \in 2 .. n + 1 : Prior(q, None, i) = {q[i - 1].seq}
  BY DEF Prior
<1>3. /\ \A i \in 2 .. n : q[i].seq = (q[i - 1].seq + 1 + q[i].gap) % SEQ_MOD
      /\ n > 0 => next = (q[n].seq + 1 + gap) % SEQ_MOD
  <2>1. ASSUME NEW i \in 2 .. n
        PROVE  q[i].seq = (q[i - 1].seq + 1 + q[i].gap) % SEQ_MOD
    <3>1. n \in Nat
      OBVIOUS
    <3>2. ComesAfter(Prior(q, None, i), q[i].seq, q[i].gap)
      <4>1. \A j \in 1 .. n : ComesAfter(Prior(q, None, j), q[j].seq, q[j].gap)
        BY DEF Chain
      <4> HIDE DEF n
      <4> QED
        BY <3>1, <4>1
    <3> HIDE DEF n
    <3>3. Prior(q, None, i) = {q[i - 1].seq}
      BY <1>2, <3>1
    <3> QED
      BY <3>2, <3>3 DEF ComesAfter
  <2>2. ASSUME n > 0 PROVE next = (q[n].seq + 1 + gap) % SEQ_MOD
    <3>1. n + 1 \in 2 .. n + 1 /\ (n + 1) - 1 = n
      BY <1>1, <2>2
    <3>2. ComesAfter(Prior(q, None, n + 1), next, gap)
      BY DEF Chain
    <3> QED
      BY <1>2, <3>1, <3>2 DEF ComesAfter
  <2> QED
    BY <2>1, <2>2
<1>11. /\ \A i \in 1 .. n : i \in near <=> ~Far(i)
       /\ \A i \in near : i \in 1 .. n /\ n - i \in back
       /\ \A k \in back : \E i : i \in near /\ k = n - i
  OBVIOUS
<1>12. \A i \in 1 .. n : Far(i) <=> \E d \in 1 .. h - 1 :
                       /\ next = (q[i].seq + d) % SEQ_MOD
                       /\ sent[i] + d = sent[n] + 1 + gap
  OBVIOUS
<1> HIDE DEF n, h, near, back, Far
<1>4. \A i \in 1 .. n : sent[i] = sent[i - 1] + 1 + q[i].gap
  BY DEF n
<1>5. odd = {}
  <2> SUFFICES ASSUME odd # {} PROVE FALSE
    OBVIOUS
  <2>1. odd \in SUBSET Nat
    BY <1>1
  <2>2. PICK i \in odd : \A j \in odd : i <= j
    BY <2>1, LeastExists
  <2>3. i # 0 /\ i \in 1 .. n /\ i - 1 \in 0 .. n /\ i - 1 \notin odd
    BY <1>1, <2>1, <2>2
  <2>4. sent[i - 1] \in Nat /\ q[i].gap \in Nat
    BY <1>1, <2>3
  <2> QED
    BY <1>4, <2>2, <2>3, <2>4
<1>6. \A i \in 0 .. n : sent[i] \in Nat
  BY <1>5
<1>7. sent[n] + 1 + gap < h /\ h \in Nat
      /\ SEQ_MOD \in Nat /\ SEQ_MOD > 0
  BY HalfOfSeqs DEF n, h
<1>8. ASSUME NEW i \in 1 .. n, NEW d \in Nat, d > 0, sent[i] + d = sent[n] + 1 + gap
      PROVE  d \in 1 .. h - 1
  BY <1>1, <1>6, <1>7, <1>8
<1>9. near = {}
  <2> SUFFICES ASSUME near # {} PROVE FALSE
    OBVIOUS
  <2>1. back \in SUBSET Nat /\ back # {}
    <3>1. \A k \in back : k \in Nat
      BY <1>1, <1>11
    <3> QED
      BY <1>11, <3>1
  <2>2. PICK k : k \in back /\ \A j \in back : k <= j
    BY <2>1, LeastExists
  <2>3. PICK i : i \in near /\ k = n - i
    BY <1>11, <2>2
  <2>4. i \in 1 .. n /\ ~Far(i)
    BY <1>11, <2>3
  <2>5. CASE i = n
    <3>1. 1 + gap \in Nat /\ 1 + gap > 0 /\ sent[i] + (1 + gap) = sent[n] + 1 + gap
      <4>1. gap \in Nat /\ sent[n] \in Nat /\ sent[i] = sent[n]
        BY <1>1, <1>6, <2>4, <2>5
      <4> QED
        BY <4>1
    <3>2. 1 + gap \in 1 .. h - 1
      BY <1>8, <2>4, <3>1
    <3>3. q[i].seq + 1 + gap = q[i].seq + (1 + gap) /\ n > 0
      <4>1. gap \in Nat /\ q[i].seq \in Nat
        BY <1>1, <2>4
      <4>2. n > 0
        BY <1>1, <2>4
      <4>3. \A a, b \in Nat : a + 1 + b = a + (1 + b)
        OBVIOUS
      <4> QED
        BY <4>1, <4>2, <4>3
    <3>4. next = (q[i].seq + (1 + gap)) % SEQ_MOD
      BY <1>3, <2>5, <3>3
    <3> QED
      BY <1>12, <2>4, <3>1, <3>2, <3>4
  <2>6. CASE i # n
    <3>1. i + 1 \in 2 .. n /\ i + 1 \in 1 .. n /\ (i + 1) - 1 = i /\ n - (i + 1) < k
      BY <1>1, <2>3, <2>4, <2>6
    <3>2. Far(i + 1)
      <4>1. i + 1 \in near => n - (i + 1) \in back
        BY <1>11
      <4>2. n - (i + 1) \in Nat /\ k \in Nat
        BY <1>1, <2>1, <2>2, <3>1
      <4>3. i + 1 \notin near
        BY <2>2, <3>1, <4>1, <4>2
      <4> QED
        BY <1>11, <3>1, <4>3
    <3>3. PICK d : /\ d \in 1 .. h - 1
                   /\ next = (q[i + 1].seq + d) % SEQ_MOD
                   /\ sent[i + 1] + d = sent[n] + 1 + gap
      BY <1>12, <3>1, <3>2
    <3> DEFINE g == q[i + 1].gap
               e == d + 1 + g
    <3>4. /\ g \in Nat /\ d \in Nat /\ d > 0 /\ q[i].seq \in Nat /\ sent[i] \in Nat
          /\ q[i + 1].seq = (q[i].seq + 1 + g) % SEQ_MOD
          /\ sent[i + 1] = sent[i] + 1 + g
      <4>1. g \in Nat /\ q[i].seq \in Nat /\ sent[i] \in Nat
        BY <1>1, <1>6, <2>4, <3>1
      <4>2. q[i + 1].seq = (q[i].seq + 1 + g) % SEQ_MOD /\ sent[i + 1] = sent[i] + 1 + g
        BY <1>3, <1>4, <3>1
      <4>3. d \in Nat /\ d > 0
        BY <1>7, <3>3
      <4> QED
        BY <4>1, <4>2, <4>3
    <3> HIDE DEF g
    <3>5. e \in Nat /\ e > 0 /\ sent[i] + e = sent[n] + 1 + gap
      BY <3>3, <3>4
    <3>6. e \in 1 .. h - 1
      BY <1>8, <2>4, <3>5
    <3>7. q[i].seq + 1 + g \in Nat /\ d \in Int /\ (q[i].seq + 1 + g) + d = q[i].seq + e
      <4> DEFINE s == q[i].seq
      <4>1. s \in Nat /\ g \in Nat /\ d \in Nat
        BY <3>4
      <4> HIDE DEF s
      <4>2. s + 1 + g \in Nat /\ d \in Int
        BY <4>1
      <4>3. (s + 1 + g) + d = s + e
        BY <4>1
      <4> QED
        BY <4>2, <4>3 DEF s
    <3>8. next = (q[i].seq + e) % SEQ_MOD
      <4> DEFINE x == q[i].seq + 1 + g
      <4>1. x \in Nat /\ d \in Int /\ x + d = q[i].seq + e
        BY <3>7
      <4>2. next = ((x % SEQ_MOD) + d) % SEQ_MOD
        BY <3>3, <3>4
      <4> HIDE DEF x, e
      <4>3. ((x % SEQ_MOD) + d) % SEQ_MOD = (x + d) % SEQ_MOD
        BY <1>7, <4>1, ModAdd
      <4> QED
        BY <4>1, <4>2, <4>3
    <3> QED
      BY <1>12, <2>4, <3>5, <3>6, <3>8
  <2> QED
    BY <2>5, <2>6
<1>10. \A i \in 1 .. n : sent[i] \in Nat /\ Far(i)
  <2>1. \A i \in 1 .. n : i \in 0 .. n
    BY <1>1
  <2>2. \A i \in 1 .. n : Far(i)
    BY <1>9, <1>11
  <2> QED
    BY <1>6, <2>1, <2>2
<1>13. \A i \in 1 .. n :
         /\ sent[i] \in Nat
         /\ \E d \in 1 .. h - 1 :
              /\ next = (q[i].seq + d) % SEQ_MOD
              /\ sent[i] + d = sent[n] + 1 + gap
  BY <1>10, <1>12
<1> QED
  BY <1>13 DEF n, h

\* Reports that wait were sent before what the board sent last.
LEMMA WaitingStale ==
  ASSUME NEW seq \in SeqNumbers, NEW last \in SeqNumbers,
         NEW next, next = (last + 1) % SEQ_MOD,
         NEW d \in 1 .. SEQ_MOD \div 2 - 1, next = (seq + d) % SEQ_MOD
  PROVE  \/ SeqDistance(seq, last, SEQ_MOD) = 0
         \/ SeqDistance(seq, last, SEQ_MOD) >= SEQ_MOD \div 2
<1> DEFINE m == SEQ_MOD
           h == SEQ_MOD \div 2
<1>1. m \in Nat /\ m > 0 /\ h \in Nat /\ h + h <= m
  BY HalfOfSeqs
<1>2. seq \in 0 .. m - 1 /\ last \in 0 .. m - 1 /\ d \in 1 .. h - 1
  BY DEF SeqNumbers
<1>3. next = (last + 1) % m /\ next = (seq + d) % m
      /\ SeqDistance(seq, last, SEQ_MOD) = (seq + m - last) % m
  BY DEF SeqDistance
<1> HIDE DEF m, h
<1>4. /\ last + 1 \in Nat /\ last + 1 < m + m /\ seq + d \in Nat /\ seq + d < m + m
      /\ seq + m - last \in Nat /\ seq + m - last < m + m
  BY <1>1, <1>2
<1>5. /\ (last + 1) % m = IF last + 1 < m THEN last + 1 ELSE last + 1 - m
      /\ (seq + d) % m = IF seq + d < m THEN seq + d ELSE seq + d - m
      /\ (seq + m - last) % m = IF seq + m - last < m THEN seq + m - last
                                ELSE seq + m - last - m
  <2>1. last \in Int /\ seq \in Int /\ d \in Int
    BY <1>1, <1>2
  <2>2. (last + 1) % m = IF last + 1 < m THEN last + 1 ELSE last + 1 - m
    BY <1>1, <1>4, <2>1, ModSmall
  <2>3. (seq + d) % m = IF seq + d < m THEN seq + d ELSE seq + d - m
    BY <1>1, <1>4, <2>1, ModSmall
  <2>4. (seq + m - last) % m = IF seq + m - last < m THEN seq + m - last
                               ELSE seq + m - last - m
    BY <1>1, <1>4, <2>1, ModSmall
  <2> QED
    BY <2>2, <2>3, <2>4
<1> DEFINE a == (last + 1) % m
           b == (seq + d) % m
           c == (seq + m - last) % m
<1> HIDE DEF a, b, c
<1>6. /\ a = IF last + 1 < m THEN last + 1 ELSE last + 1 - m
      /\ b = IF seq + d < m THEN seq + d ELSE seq + d - m
      /\ c = IF seq + m - last < m THEN seq + m - last ELSE seq + m - last - m
      /\ a = b
  BY <1>3, <1>5 DEF a, b, c
<1>7. c = 0 \/ c >= h
  BY <1>1, <1>2, <1>6
<1> QED
  BY <1>3, <1>7 DEF c, h

\* A report that comes after a snapshot, and not half of the numbers after it.
LEMMA FreshReport ==
  ASSUME NEW s \in SeqNumbers, NEW d \in 1 .. SEQ_MOD \div 2 - 1,
         NEW seq, seq = (s + d) % SEQ_MOD
  PROVE  ~(\/ SeqDistance(seq, s, SEQ_MOD) = 0
           \/ SeqDistance(seq, s, SEQ_MOD) >= SEQ_MOD \div 2)
<1> DEFINE m == SEQ_MOD
           h == SEQ_MOD \div 2
<1>1. m \in Nat /\ m > 0 /\ h \in Nat /\ h + h <= m
  BY HalfOfSeqs
<1>2. s \in 0 .. m - 1 /\ d \in 1 .. h - 1
  BY DEF SeqNumbers
<1>3. seq = (s + d) % m /\ SeqDistance(seq, s, SEQ_MOD) = (seq + m - s) % m
  BY DEF SeqDistance
<1> HIDE DEF m, h
<1>4. s + d \in Nat /\ s + d < m + m
  BY <1>1, <1>2
<1>5. (s + d) % m = IF s + d < m THEN s + d ELSE s + d - m
  <2>1. s \in Int /\ d \in Int
    BY <1>1, <1>2
  <2> QED
    BY <1>1, <1>4, <2>1, ModSmall
<1>6. seq \in 0 .. m - 1 /\ seq = IF s + d < m THEN s + d ELSE s + d - m
  BY <1>1, <1>2, <1>3, <1>5
<1>7. seq + m - s \in Nat /\ seq + m - s < m + m
  BY <1>1, <1>2, <1>6
<1>8. (seq + m - s) % m = IF seq + m - s < m THEN seq + m - s ELSE seq + m - s - m
  <2>1. s \in Int /\ seq \in Int
    BY <1>1, <1>2, <1>6
  <2> QED
    BY <1>1, <1>7, <2>1, ModSmall
<1> DEFINE c == (seq + m - s) % m
<1>9. c = IF seq + m - s < m THEN seq + m - s ELSE seq + m - s - m
  BY <1>8
<1> HIDE DEF c
<1>10. c = d
  BY <1>1, <1>2, <1>6, <1>9
<1>11. ~(c = 0 \/ c >= h)
  BY <1>1, <1>2, <1>10
<1> QED
  BY <1>3, <1>11 DEF c, h

\* The queue of a usable handle, and the board's last report.
LEMMA SnapshotLast ==
  ASSUME WatchInv, Fit, Aware, InReach, Usable(board, Watch)
  PROVE  /\ board.last_seq # 0 =>
              \A m : m.snapshot_seq = Some(board.last_seq) =>
                \A i \in 1 .. Len(Queue(board)) : IsStale(m, Queue(board)[i])
         /\ \A l : /\ l.snapshot_seq \subseteq SeqNumbers
                   /\ Reference(l, board, Queue(board), 0)
                   /\ Queue(board) # <<>>
                   => ~IsStale(l, Head(Queue(board)))
<1> DEFINE q == Queue(board)
           gap == Gap(board)
           next == board.next_seq
<1>1. /\ q \in Seq(StatusReports) /\ next \in SeqNumbers /\ gap \in Nat
      /\ board.last_seq \in SeqNumbers
  <2>1. board \in Boards /\ Watch \in Clients /\ q \in Seq(StatusReports)
    BY FitTypes DEF Bounded
  <2>2. board.handles[Watch] \in Handles
    BY <2>1 DEF Boards
  <2> QED
    BY <2>1, <2>2 DEF Boards, Handles, Gap
<1>2. /\ Chain(q, None, next, gap)
      /\ \A i \in 1 .. Len(q) : "HOST_REQUEST" \notin q[i].reason
  <2>1. Chain(q, None, next, gap)
    BY DEF Aware, Chained, Usable, Queue, Gap
  <2> QED
    BY <2>1 DEF Chain
<1>3. PICK sent :
        /\ sent[0] = 0
        /\ \A i \in 1 .. Len(q) : sent[i] = sent[i - 1] + 1 + q[i].gap
        /\ sent[Len(q)] + 1 + gap < SEQ_MOD \div 2
  BY DEF InReach, Reports, Queue, Gap
<1>4. board.last_seq # 0 => next = (board.last_seq + 1) % SEQ_MOD
  BY DEF Aware, Reads
<1> HIDE DEF q, gap, next
<1>5. \A i \in 1 .. Len(q) :
        /\ sent[i] \in Nat
        /\ \E d \in 1 .. SEQ_MOD \div 2 - 1 :
             next = (q[i].seq + d) % SEQ_MOD /\ sent[i] + d = sent[Len(q)] + 1 + gap
  BY <1>1, <1>2, <1>3, WaitingSeqs
<1>6. ASSUME board.last_seq # 0, NEW m, m.snapshot_seq = Some(board.last_seq),
             NEW i \in 1 .. Len(q)
      PROVE  IsStale(m, q[i])
  <2>1. PICK d \in 1 .. SEQ_MOD \div 2 - 1 : next = (q[i].seq + d) % SEQ_MOD
    BY <1>5
  <2>2. q[i].seq \in SeqNumbers /\ next = (board.last_seq + 1) % SEQ_MOD
    <3>1. q[i] \in StatusReports
      BY <1>1
    <3> QED
      BY <1>4, <1>6, <3>1 DEF StatusReports
  <2>3. \/ SeqDistance(q[i].seq, board.last_seq, SEQ_MOD) = 0
        \/ SeqDistance(q[i].seq, board.last_seq, SEQ_MOD) >= SEQ_MOD \div 2
    BY <1>1, <2>1, <2>2, WaitingStale
  <2> QED
    BY <1>2, <1>6, <2>3 DEF IsStale, Some
<1>7. ASSUME NEW l, l.snapshot_seq \subseteq SeqNumbers, Reference(l, board, q, 0), q # <<>>
      PROVE  ~IsStale(l, Head(q))
  <2>1. Len(q) \in Nat /\ Len(q) > 0 /\ Head(q) = q[1] /\ 1 \in 1 .. Len(q) /\ 0 < Len(q)
    BY <1>1, <1>7, Tailed
  <2> SUFFICES ASSUME NEW s \in l.snapshot_seq
               PROVE  ~(\/ SeqDistance(q[1].seq, s, SEQ_MOD) = 0
                        \/ SeqDistance(q[1].seq, s, SEQ_MOD) >= SEQ_MOD \div 2)
    BY <2>1 DEF IsStale
  <2>2. 0 + 1 = 1
    OBVIOUS
  <2>3. After(s, q[1].seq, q[1].gap)
    BY <1>7, <2>1, <2>2 DEF Reference
  <2>4. PICK d \in 1 .. q[1].gap + 1 : q[1].seq = (s + d) % SEQ_MOD
    BY <2>3 DEF After
  <2>5. q[1].gap \in Nat /\ s \in SeqNumbers
    <3>1. q[1] \in StatusReports
      BY <1>1, <2>1
    <3> QED
      BY <1>7, <3>1 DEF StatusReports
  <2>6. sent[1] = sent[0] + 1 + q[1].gap
    <3>1. 1 - 1 = 0
      OBVIOUS
    <3> QED
      BY <1>3, <2>1, <3>1
  <2>7. PICK e \in 1 .. SEQ_MOD \div 2 - 1 : sent[1] + e = sent[Len(q)] + 1 + gap
    BY <1>5, <2>1
  <2>8. d \in 1 .. SEQ_MOD \div 2 - 1
    <3>1. d <= sent[1] /\ d \in Nat /\ sent[1] \in Nat /\ e > 0 /\ e \in Nat /\ d > 0
      BY <1>3, <2>4, <2>5, <2>6, <2>7, HalfOfSeqs
    <3>2. sent[1] + e < SEQ_MOD \div 2 /\ SEQ_MOD \div 2 \in Nat
      BY <1>3, <2>7, HalfOfSeqs
    <3> QED
      BY <3>1, <3>2
  <2> QED
    BY <2>4, <2>5, <2>8, FreshReport
<1> QED
  BY <1>6, <1>7 DEF q

-----------------------------------------------------------------------------
(***************************************************************************)
(* The steps of the loop                                                   *)
(***************************************************************************)

\* A connection, or an attempt at one, ends.
LEMMA EndsFits ==
  ASSUME WatchInv, Fit, WatchInv', at # "stopped"
  PROVE  /\ ~loop.connected => \A cause : Attempt(cause) => StepFits
         /\ Disconnect => StepFits
         /\ Stop => StepFits
<1>1. Learned(loop) /\ Steady(loop, at)
  BY DEF Fit
<1>2. ASSUME NEW m, Adopts(loop, m), ~loop.connected PROVE Parts(loop, m)
  BY <1>1, <1>2 DEF Adopts, Parts, Steady
<1>3. ASSUME NEW m, Parts(loop, m), FinishClosed(m) PROVE StepFits
  <2>1. /\ board' = CloseHandle(board, Watch) /\ loop' = m /\ at' = "idle"
        /\ task' = NoTask /\ inexact' = (inexact \/ Reports # <<>>) /\ dropped' = dropped
    BY <1>3 DEF FinishClosed, GoTo
  <2>2. Precise(inexact', dropped', at') => Precise(inexact, dropped, at) /\ Reports = <<>>
    BY <2>1 DEF Precise
  <2> QED
    BY <1>3, <2>1, <2>2, ClosedFits
<1>4. Adopts(loop, loop) /\ \A cause : Adopts(loop, FailedAttempt(loop, cause))
  BY <1>1, HelpersAdopt
<1>5. Parts(loop, Lost(loop)) /\ Parts(loop, DropConnection(loop))
  <2>1. CASE loop.connected
    BY <1>1, <2>1, DropParts
  <2>2. CASE ~loop.connected
    <3>1. Lost(loop) = loop /\ DropConnection(loop) = loop
      BY <2>2 DEF Lost, DropConnection
    <3> QED
      BY <1>2, <1>4, <2>2, <3>1
  <2> QED
    BY <2>1, <2>2
<1>6. ASSUME Stop PROVE StepFits
  <2>1. /\ board' = CloseHandle(board, Watch) /\ loop' = DropConnection(loop)
        /\ at' = "stopped" /\ task' = NoTask
    BY <1>6 DEF Stop, Steps, GoTo
  <2>2. ~Precise(inexact', dropped', at')
    BY <2>1 DEF Precise
  <2> QED
    BY <1>5, <2>1, <2>2, ClosedFits
<1>7. ASSUME Disconnect PROVE StepFits
  BY <1>3, <1>5, <1>7 DEF Disconnect
<1>8. ASSUME ~loop.connected, NEW cause, Attempt(cause) PROVE StepFits
  <2>1. Parts(loop, FailedAttempt(loop, cause))
    BY <1>2, <1>4, <1>8
  <2> QED
    BY <1>3, <1>8, <2>1 DEF Attempt
<1> QED
  BY <1>6, <1>7, <1>8

\* What the phase says of a transfer.
LEMMA PhaseOf ==
  ASSUME WatchInv, Fit
  PROVE  /\ task.why \in {"changed", "restore", "target"} =>
              /\ at \in {"config", "send", "verify"} /\ loop.connected
         /\ task.why = "connect" => /\ ~loop.connected /\ task.report = None
                                    /\ at \notin {"idle", "snapshot", "stopped"}
         /\ at \in {"config", "send", "verify"} => task.why \in {"connect", "changed", "restore", "target"}
         /\ at \in {"idle", "snapshot", "stopped"} => task.why = "none"
         /\ task.why = "none" => /\ task.report = None
                                 /\ Ahead(task, board) = Queue(board)
         /\ at = "info" => task.why = "connect"
         /\ at = "snapshot" => loop.connected
         /\ loop.connected => loop.scan_at = Never
<1>1. Phase(loop, at, task.why)
  BY DEF WatchInv, Sound
<1>2. Holds(loop, task)
  BY DEF Fit
<1> QED
  BY <1>1, <1>2 DEF Phase, Holds, Ahead

\* A loop that goes on as it was finishes what it was doing.
LEMMA FinishAdopts ==
  ASSUME WatchInv, Fit, task.why \in {"changed", "restore", "target"}, NEW m,
         Adopts(loop, m), Finish(m), board' = board
  PROVE  StepFits
<1>1. loop.connected /\ at \in {"config", "send", "verify"}
  BY PhaseOf
<1>2. /\ Trims(loop, m) /\ Learned(m) /\ m.snapshot_seq = loop.snapshot_seq
      /\ m.settle_at = loop.settle_at
      /\ (m.connected <=> loop.connected) /\ (m.awaiting_config <=> loop.awaiting_config)
  BY DEF Adopts
<1>3. Steady(m, "idle")
  BY <1>2 DEF Fit, Steady
<1>4. Listening(loop, at) => Listening(m, "idle")
  BY <1>2 DEF Listening
<1>5. \/ ~m.connected \/ m.awaiting_config
      \/ loop.connected /\ ~loop.awaiting_config /\ at # "snapshot"
  BY <1>1, <1>2
<1> QED
  BY <1>1, <1>2, <1>3, <1>4, <1>5, FinishFits

\* A transfer fails.
LEMMA TransferFailedFits ==
  ASSUME WatchInv, Fit, WatchInv', at \in {"config", "send", "verify"}, NEW cause,
         TransferFailed(cause)
  PROVE  StepFits
<1>1. CASE task.why = "connect"
  BY <1>1, EndsFits, PhaseOf DEF TransferFailed
<1>2. CASE task.why = "target"
  <2>1. Adopts(loop, loop)
    BY HelpersAdopt DEF Fit
  <2>2. Finish(loop) /\ board' = board
    BY <1>2 DEF TransferFailed
  <2> QED
    BY <1>2, <2>1, <2>2, FinishAdopts
<1>3. CASE task.why \notin {"connect", "target"}
  BY <1>3, EndsFits DEF TransferFailed
<1> QED
  BY <1>1, <1>2, <1>3

\* A target that is rejected.
LEMMA RejectedFits ==
  ASSUME WatchInv, Fit, WatchInv', at \in {"config", "send", "verify"}, Rejected
  PROVE  StepFits
<1>1. CASE task.why = "target"
  <2>1. Adopts(loop, [loop EXCEPT !.target = task.previous])
    BY HelpersAdopt DEF Fit
  <2>2. Finish([loop EXCEPT !.target = task.previous]) /\ board' = board
    BY <1>1 DEF Rejected
  <2> QED
    BY <1>1, <2>1, <2>2, FinishAdopts
<1>2. CASE task.why # "target"
  BY <1>2, EndsFits DEF Rejected
<1> QED
  BY <1>1, <1>2

\* A transfer more, with the loop as it was.
LEMMA GoesOn ==
  ASSUME WatchInv, Fit, board' = board, at \in {"config", "info"}, Adopts(loop, loop'),
         at' \in {at, "send", "config"},
         task'.why \in {task.why, "restore"}, task.why = "connect" => task'.why = "connect",
         task'.report = task.report, task'.stale = task.stale,
         task.report # None => task'.why \in {"changed", "restore"},
         inexact' = (inexact \/ ~(DOMAIN loop.known \subseteq DOMAIN loop'.known)),
         dropped' = dropped
  PROVE  StepFits
<1>1. /\ loop'.snapshot_seq = loop.snapshot_seq /\ loop'.settle_at = loop.settle_at
      /\ (loop'.connected <=> loop.connected) /\ (loop'.awaiting_config <=> loop.awaiting_config)
  BY DEF Adopts
<1>2. Steady(loop', at')
  BY <1>1 DEF Fit, Steady
<1>3. Holds(loop', task')
  BY <1>1 DEF Fit, Holds, InHand
<1>4. Linked(loop', board, task')
  BY <1>1 DEF Fit, Linked
<1>5. Ahead(task', board) = Ahead(task, board)
  BY DEF Ahead, TheReport
<1>6. Precise(inexact', dropped', at') =>
        /\ Precise(inexact, dropped, at) /\ DOMAIN loop.known \subseteq DOMAIN loop'.known
  BY DEF Precise
<1>7. at # "snapshot" /\ (at' \in {at, "send"} \/ ~loop.connected \/ at' \in {"config", "idle"})
  OBVIOUS
<1> QED
  BY <1>2, <1>3, <1>4, <1>5, <1>6, <1>7, AdoptFits

\* set_pin_config up to its first transfer.
LEMMA SetTargetOverFits ==
  ASSUME WatchInv, Fit, WatchInv', at = "config", NEW l, Adopts(loop, l), NEW found,
         task.report # None => task.why = "restore", SetTargetOver(l, found)
  PROVE  StepFits
<1>1. CASE Rejected
  BY <1>1, RejectedFits
<1>2. CASE ~Rejected
  <2>1. PICK id \in FreshIds(loop.last_request_id) :
          /\ Steps([l EXCEPT !.last_request_id = id])
          /\ task' = [task EXCEPT !.found = found, !.id = id]
          /\ GoTo("send") /\ UNCHANGED board
    BY <1>2 DEF SetTargetOver
  <2>2. Adopts(loop, loop')
    <3>1. Adopts(l, [l EXCEPT !.last_request_id = id])
      BY HelpersAdopt DEF Adopts
    <3>2. Adopts(loop, [l EXCEPT !.last_request_id = id])
      BY <3>1, AdoptsTransitive
    <3> QED
      BY <2>1, <3>2 DEF Steps
  <2>3. /\ task'.why = task.why /\ task'.report = task.report /\ task'.stale = task.stale
    <3>1. DOMAIN task = TaskFields
      BY FitTypes
    <3> QED
      BY <2>1, <3>1 DEF TaskFields
  <2>4. /\ at' = "send" /\ board' = board /\ dropped' = dropped
        /\ inexact' = (inexact \/ ~(DOMAIN loop.known \subseteq DOMAIN loop'.known))
    BY <2>1 DEF Steps, GoTo
  <2> QED
    BY <2>2, <2>3, <2>4, GoesOn
<1> QED
  BY <1>1, <1>2

\* A connection begins.
LEMMA ConnectedFits ==
  ASSUME WatchInv, Fit, at # "stopped", task.why = "connect", NEW config \in ValidConfigs,
         NEW driven, NEW awaiting \in BOOLEAN, NEW drove,
         Connected(config, driven, awaiting, drove), board' = board
  PROVE  StepFits
<1> DEFINE l == [ResetFailures(loop) EXCEPT
                   !.connected = TRUE, !.ever_connected = TRUE,
                   !.awaiting_config = awaiting,
                   !.untold = (@ \cup drove) \cap OutputsMask(config),
                   !.settle_at = IF awaiting THEN SETTLE_TIMEOUT ELSE @]
           reset == IF loop.ever_connected THEN OutputsMask(config) ELSE driven
           m == SetConfig(l, config)
<1>1. /\ loop' = TellReset(m, reset) /\ dropped' = dropped /\ task' = NoTask
      /\ at' = (IF awaiting THEN "idle" ELSE "snapshot")
      /\ inexact' = (inexact \/ ~(DOMAIN loop.known \subseteq DOMAIN loop'.known))
  BY DEF Connected, Steps, GoTo
<1>2. Learned(loop) /\ Steady(loop, at) /\ ~loop.connected /\ task.report = None
      /\ loop.snapshot_seq = None /\ ~loop.awaiting_config /\ loop.settle_at = Never
      /\ DOMAIN loop = LoopFields
  BY PhaseOf DEF Fit, Steady, Learned
<1>3. /\ DOMAIN l = LoopFields /\ l.known = loop.known /\ l.counted = loop.counted
      /\ l.config = loop.config /\ (l.blind <=> loop.blind) /\ l.scan_at = loop.scan_at
      /\ l.snapshot_seq = None /\ l.connected /\ (l.awaiting_config <=> awaiting)
      /\ l.settle_at = (IF awaiting THEN SETTLE_TIMEOUT ELSE Never)
  BY <1>2 DEF ResetFailures, LoopFields
<1>4. SETTLE_TIMEOUT \in Nat
  BY WatchAssumption
<1> HIDE DEF l, reset
<1>5. Trims(loop, l) /\ Learned(l)
  <2>1. l.scan_at \in {Never} \cup Nat /\ l.settle_at \in {Never} \cup Nat
    BY <1>2, <1>3, <1>4 DEF Learned
  <2>2. l.snapshot_seq \subseteq SeqNumbers
    BY <1>3 DEF None
  <2> QED
    BY <1>2, <1>3, <2>1, <2>2, LeavesAdopts
<1>6. Adopts(l, m)
  BY <1>5, SetConfigAdopts
<1> HIDE DEF m
<1>7. Adopts(l, loop')
  <2>1. Adopts(m, TellReset(m, reset))
    BY <1>6, HelpersAdopt DEF Adopts
  <2> QED
    BY <1>1, <1>6, <2>1, AdoptsTransitive
<1>8. /\ Trims(loop, loop') /\ Learned(loop') /\ loop'.snapshot_seq = None /\ loop'.connected
      /\ (loop'.awaiting_config <=> awaiting)
      /\ loop'.settle_at = (IF awaiting THEN SETTLE_TIMEOUT ELSE Never)
  BY <1>3, <1>5, <1>7, TrimsTransitive DEF Adopts
<1>9. Steady(loop', at')
  BY <1>1, <1>8 DEF Steady
<1>10. Holds(loop', task') /\ Ahead(task', board) = Ahead(task, board)
       /\ Linked(loop', board, task')
  BY <1>1, <1>2, <1>8, NoReport DEF Ahead, Linked
<1>11. Precise(inexact', dropped', at') =>
         /\ Precise(inexact, dropped, at) /\ DOMAIN loop.known \subseteq DOMAIN loop'.known
  BY <1>1 DEF Precise
<1>12. /\ ~loop'.connected \/ loop'.awaiting_config \/ at' = "snapshot"
       /\ ~Listening(loop, at) /\ loop'.snapshot_seq = loop.snapshot_seq
  BY <1>1, <1>2, <1>8 DEF Listening
<1> QED
  BY <1>8, <1>9, <1>10, <1>11, <1>12, TrimFits

\* config_changed.
LEMMA ConfigChangedFits ==
  ASSUME WatchInv, Fit, at = "config", task.why = "changed", NEW l, Adopts(loop, l),
         ConfigChanged(l), board' = board
  PROVE  StepFits
<1>1. CASE Finish(l)
  BY <1>1, FinishAdopts
<1>2. CASE Finish([l EXCEPT !.restore_at = RESTORE_INTERVAL - l.since_restore])
  <2>1. Adopts(l, [l EXCEPT !.restore_at = RESTORE_INTERVAL - l.since_restore])
    BY HelpersAdopt DEF Adopts
  <2>2. Adopts(loop, [l EXCEPT !.restore_at = RESTORE_INTERVAL - l.since_restore])
    BY <2>1, AdoptsTransitive
  <2> QED
    BY <1>2, <2>2, FinishAdopts
<1>3. CASE /\ Steps(StartRestore(l)) /\ UNCHANGED at
           /\ task' = [task EXCEPT !.why = "restore"]
  <2>1. Adopts(loop, StartRestore(l))
    <3>1. Adopts(l, StartRestore(l))
      BY HelpersAdopt DEF Adopts
    <3> QED
      BY <3>1, AdoptsTransitive
  <2>2. /\ loop' = StartRestore(l) /\ at' = at /\ dropped' = dropped
        /\ inexact' = (inexact \/ ~(DOMAIN loop.known \subseteq DOMAIN loop'.known))
    BY <1>3 DEF Steps
  <2>3. task'.why = "restore" /\ task'.report = task.report /\ task'.stale = task.stale
    <3>1. DOMAIN task = TaskFields
      BY FitTypes
    <3> QED
      BY <1>3, <3>1 DEF TaskFields
  <2> QED
    BY <2>1, <2>2, <2>3, GoesOn
<1> QED
  BY <1>1, <1>2, <1>3 DEF ConfigChanged

\* Reading the configuration: after a connection, after a CONFIG_CHANGED, before a
\* restoration or for a new target.
LEMMA ReadConfigFits ==
  ASSUME WatchInv, Fit, WatchInv', ReadConfig
  PROVE  StepFits
<1> DEFINE found == board.config
           l == SetConfig(loop, found)
           same == loop.target \in {None, Some(found)}
<1>1. at = "config" /\ found \in ValidConfigs /\ Learned(loop)
  BY FitTypes DEF ReadConfig, Bounded, Boards, Fit
<1>2. Adopts(loop, l) /\ Adopts(loop, loop)
  BY <1>1, SetConfigAdopts, HelpersAdopt
<1>3. CASE TransferFailed("io")
  BY <1>1, <1>3, TransferFailedFits
<1>4. /\ task.why \in {"connect", "changed", "restore", "target"}
      /\ task.report # None => task.why \in {"changed", "restore"}
  BY <1>1, PhaseOf DEF Fit, Holds
<1>5. CASE ~TransferFailed("io") /\ task.why = "changed"
  <2>1. ConfigChanged(l) /\ board' = board
    BY <1>5 DEF ReadConfig
  <2> QED
    BY <1>1, <1>2, <1>5, <2>1, ConfigChangedFits
<1>6. CASE ~TransferFailed("io") /\ task.why = "connect"
  <2>1. CASE same
    <3>1. Connected(found, {}, FALSE, {}) /\ board' = board
      BY <1>6, <2>1 DEF ReadConfig
    <3> QED
      BY <1>1, <1>6, <3>1, ConnectedFits
  <2>2. CASE ~same
    <3>1. SetTargetOver(loop, found)
      BY <1>6, <2>2 DEF ReadConfig
    <3> QED
      BY <1>1, <1>2, <1>4, <1>6, <3>1, SetTargetOverFits
  <2> QED
    BY <2>1, <2>2
<1>7. CASE ~TransferFailed("io") /\ task.why \in {"restore", "target"}
  <2>1. CASE same
    <3>1. Finish(l) /\ board' = board
      BY <1>7, <2>1 DEF ReadConfig
    <3> QED
      BY <1>2, <1>7, <3>1, FinishAdopts
  <2>2. CASE ~same
    <3>1. SetTargetOver(l, found)
      BY <1>7, <2>2 DEF ReadConfig
    <3> QED
      BY <1>1, <1>2, <1>4, <1>7, <3>1, SetTargetOverFits
  <2> QED
    BY <2>1, <2>2
<1> QED
  BY <1>3, <1>4, <1>5, <1>6, <1>7

\* An operation that changes no input moves no pin.
LEMMA StillMoves ==
  ASSUME NEW b, Bounded(b), NEW d, d.moved = b.moved, NEW r, Appends(b, d, r), NEW n \in GPIOS
  PROVE  ~Moves(r, n)
<1>1. b.moved[n] \in Nat
  BY DEF Bounded, Boards
<1> QED
  BY <1>1 DEF Appends

\* Sending the Set of the target.
LEMMA SendFits ==
  ASSUME WatchInv, Fit, WatchInv', SendTarget
  PROVE  StepFits
<1>1. at = "send" /\ Bounded(board)
  BY FitTypes DEF SendTarget
<1>2. CASE TransferFailed("io")
  BY <1>1, <1>2, TransferFailedFits
<1>3. CASE ~TransferFailed("io")
  <2>1. /\ board' = Written /\ at' = "verify" /\ loop' = loop
        /\ inexact' = (inexact \/ Reports # <<>>)
        /\ dropped' = (dropped \/ board'.handles[Watch].gap > 0)
        /\ \E x : task' = [task EXCEPT !.driven = x]
    BY <1>3 DEF SendTarget, GoTo
  <2> DEFINE p == EncodePinConfigSet(TheTarget, task.id)
  <2>2. Payload(p) /\ board' = WriteConfig(board, p)
    BY <1>1, <2>1, OwnPayload DEF Written
  <2> HIDE DEF p
  <2>3. Grows(board, board', TRUE) /\ board'.moved = board.moved
    <3>1. Grows(board, board', TRUE)
      BY <1>1, <2>2, WriteGrows
    <3>2. WriteConfig(board, p).moved = board.moved
      BY <1>1 DEF WriteConfig, Send, Bounded, Boards
    <3> QED
      BY <2>2, <3>1, <3>2
  <2>4. Adopts(loop, loop') /\ loop'.known = loop.known
    BY <2>1, HelpersAdopt DEF Fit
  <2>5. Precise(inexact', dropped', at') => Precise(inexact, dropped, at) /\ Reports = <<>>
    BY <1>1, <2>1 DEF Precise
  <2>6. \A r \in StatusReports, n \in GPIOS : Appends(board, board', r) => ~Moves(r, n)
    BY <1>1, <2>3, StillMoves
  <2>7. task'.why = task.why /\ task'.report = task.report /\ task'.stale = task.stale
    BY <2>1, FitTypes DEF TaskFields
  <2> QED
    BY <1>1, <2>1, <2>3, <2>4, <2>5, <2>6, <2>7, BoardFits
<1> QED
  BY <1>2, <1>3

\* Reading the answer of the Set.
LEMMA VerifyFits ==
  ASSUME WatchInv, Fit, WatchInv', VerifyTarget
  PROVE  StepFits
<1> DEFINE outcome == SetOutcome(PinConfigReport(board), task.id, TheTarget)
           later == [loop EXCEPT !.restore_at = RESTORE_INTERVAL]
<1>1. at = "verify" /\ Bounded(board) /\ Learned(loop)
  BY FitTypes DEF VerifyTarget, Fit
<1>2. CASE TransferFailed("io")
  BY <1>1, <1>2, TransferFailedFits
<1>3. outcome \in {"ok", "rejected", "conflict", "mismatch"}
      /\ (outcome = "ok" => TheTarget = board.config)
  BY DEF SetOutcome, PinConfigReport
<1>4. outcome = "ok" => TheTarget \in ValidConfigs
  BY <1>1, <1>3 DEF Bounded, Boards
<1>5. task.why \in {"connect", "restore", "target"}
  BY <1>1, TargetInHand
<1>6. CASE ~TransferFailed("io") /\ outcome = "ok" /\ task.why = "connect"
  <2>1. Connected(TheTarget, DrivenOutputs(task.found, TheTarget), TRUE, task.driven) /\ board' = board
    BY <1>6 DEF VerifyTarget
  <2> QED
    BY <1>1, <1>4, <1>6, <2>1, ConnectedFits
<1>7. CASE ~TransferFailed("io") /\ outcome = "ok" /\ task.why # "connect"
  <2> DEFINE drove == [loop EXCEPT !.untold = loop.untold \cup task.driven]
             s == SetConfig(drove, TheTarget)
             w == [s EXCEPT !.awaiting_config = TRUE, !.settle_at = SETTLE_TIMEOUT]
             m == Wrote(drove, task.found, TheTarget)
  <2>1. Finish(m) /\ board' = board
    BY <1>7 DEF VerifyTarget
  <2>2. Adopts(loop, s)
    <3>1. Adopts(loop, drove)
      BY <1>1, HelpersAdopt
    <3> HIDE DEF drove
    <3>2. Adopts(drove, s)
      BY <1>4, <1>7, <3>1, SetConfigAdopts DEF Adopts
    <3> HIDE DEF s
    <3> QED
      BY <3>1, <3>2, AdoptsTransitive
  <2>3. m = TellReset(w, DrivenOutputs(task.found, TheTarget))
    BY DEF Wrote
  <2> HIDE DEF drove, s, m
  <2>4. /\ DOMAIN w = LoopFields /\ w.known = s.known /\ w.counted = s.counted
        /\ w.config = s.config /\ (w.blind <=> s.blind) /\ w.scan_at = s.scan_at
        /\ w.snapshot_seq = s.snapshot_seq /\ w.awaiting_config = TRUE
        /\ w.settle_at = SETTLE_TIMEOUT /\ (w.connected <=> s.connected)
    BY <2>2 DEF Adopts, Learned, LoopFields
  <2> HIDE DEF w
  <2>5. SETTLE_TIMEOUT \in Nat
    BY WatchAssumption
  <2>6. Trims(s, w) /\ Learned(w)
    <3>1. Learned(s) /\ s.scan_at \in {Never} \cup Nat /\ s.snapshot_seq \subseteq SeqNumbers
      BY <2>2 DEF Adopts, Learned
    <3> QED
      BY <2>4, <2>5, <3>1, LeavesAdopts
  <2>7. Adopts(w, m)
    BY <2>3, <2>6, HelpersAdopt
  <2>8. /\ Trims(loop, m) /\ Learned(m) /\ m.snapshot_seq = loop.snapshot_seq
        /\ (m.connected <=> loop.connected) /\ m.awaiting_config /\ m.settle_at = SETTLE_TIMEOUT
    BY <2>2, <2>4, <2>6, <2>7, TrimsTransitive DEF Adopts
  <2>9. loop.connected
    BY <1>5, <1>7, PhaseOf
  <2>10. Steady(m, "idle") /\ ~Listening(loop, at)
    BY <1>1, <2>8, <2>9 DEF Steady, Listening
  <2> QED
    BY <1>1, <2>1, <2>8, <2>9, <2>10, FinishFits
<1>8. CASE ~TransferFailed("io") /\ outcome = "rejected"
  <2>1. Rejected
    BY <1>8 DEF VerifyTarget
  <2> QED
    BY <1>1, <2>1, RejectedFits
<1>9. CASE ~TransferFailed("io") /\ outcome = "conflict" /\ task.why # "connect"
  <2>1. Finish(later) /\ board' = board
    BY <1>9 DEF VerifyTarget
  <2>2. Adopts(loop, later)
    BY <1>1, HelpersAdopt
  <2> QED
    BY <1>5, <1>9, <2>1, <2>2, FinishAdopts
<1>10. CASE ~TransferFailed("io") /\ outcome = "conflict" /\ task.why = "connect"
  <2>1. Attempt("conflict")
    BY <1>10 DEF VerifyTarget
  <2> QED
    BY <1>1, <1>10, <2>1, EndsFits, PhaseOf
<1>11. CASE ~TransferFailed("io") /\ outcome = "mismatch"
  <2>1. TransferFailed("mismatch")
    BY <1>11 DEF VerifyTarget
  <2> QED
    BY <1>1, <2>1, TransferFailedFits
<1> QED
  BY <1>2, <1>3, <1>6, <1>7, <1>8, <1>9, <1>10, <1>11

\* Looking for a device, and opening it.
LEMMA TryConnectFits ==
  ASSUME WatchInv, Fit, WatchInv', TryConnect
  PROVE  StepFits
<1>1. /\ at = "idle" /\ loop.scan_at = 0 /\ task.why = "none" /\ task.report = None
      /\ ~loop.connected /\ Ahead(task, board) = Queue(board)
  BY PhaseOf DEF TryConnect, Due, Never
<1>2. Learned(loop) /\ Steady(loop, at) /\ ~Usable(board, Watch)
  BY <1>1 DEF Fit, Linked
<1>3. ASSUME NEW m, Steps(m), Adopts(loop, m), UNCHANGED <<board, at, task>>
      PROVE  StepFits
  <2>1. /\ loop' = m /\ board' = board /\ at' = at /\ task' = task /\ dropped' = dropped
        /\ inexact' = (inexact \/ ~(DOMAIN loop.known \subseteq DOMAIN loop'.known))
    BY <1>3 DEF Steps
  <2>2. Adopts(loop, loop')
    BY <1>3, <2>1
  <2>3. /\ loop'.snapshot_seq = loop.snapshot_seq /\ loop'.settle_at = loop.settle_at
        /\ (loop'.connected <=> loop.connected) /\ (loop'.awaiting_config <=> loop.awaiting_config)
    BY <2>2 DEF Adopts
  <2>4. Steady(loop', at') /\ Holds(loop', task') /\ Linked(loop', board, task')
    BY <2>1, <2>3 DEF Fit, Steady, Holds, Linked
  <2>5. Precise(inexact', dropped', at') =>
          /\ Precise(inexact, dropped, at) /\ DOMAIN loop.known \subseteq DOMAIN loop'.known
    BY <2>1 DEF Precise
  <2>6. Ahead(task', board) = Ahead(task, board)
    BY <2>1
  <2> QED
    BY <1>1, <2>1, <2>2, <2>4, <2>5, <2>6, AdoptFits
<1>4. /\ Adopts(loop, [ResetFailures(loop) EXCEPT !.scan_at = SCAN_INTERVAL])
      /\ Adopts(loop, FailedAttempt(loop, "open"))
  BY <1>2, HelpersAdopt
<1>5. CASE CanOpen(board) /\ board' = OpenHandle(board, Watch)
            /\ loop' = [loop EXCEPT !.scan_at = Never, !.last_request_id = 0]
            /\ inexact' = (inexact \/ dropped) /\ dropped' = FALSE /\ GoTo("info")
            /\ task' = [NoTask EXCEPT !.why = "connect"]
  <2>1. /\ DOMAIN loop = LoopFields /\ BoardOK(board) /\ Watch \in Clients /\ Bounded(board)
    BY FitTypes
  <2>2. /\ DOMAIN loop' = LoopFields /\ loop'.known = loop.known /\ loop'.counted = loop.counted
        /\ loop'.config = loop.config /\ (loop'.blind <=> loop.blind) /\ loop'.scan_at = Never
        /\ loop'.snapshot_seq = loop.snapshot_seq /\ loop'.settle_at = loop.settle_at
        /\ (loop'.connected <=> loop.connected) /\ (loop'.awaiting_config <=> loop.awaiting_config)
    BY <1>5, <2>1 DEF LoopFields
  <2>3. Adopts(loop, loop')
    BY <1>2, <2>2, LeavesAdopts
  <2>4. /\ Queue(board') = <<>> /\ Gap(board') = 0 /\ board'.moved = board.moved
        /\ board'.handles[Watch] = Opened
    BY <1>5, <2>1 DEF OpenHandle, Opened, Closed, Queue, Gap, BoardOK, BoardFields
  <2>5. Usable(board', Watch)
    BY <2>4 DEF Usable, Opened, Closed
  <2>6. Sane(board')
    BY <2>4, <2>5 DEF Sane, PlainQueue
  <2>7. at' = "info" /\ task'.report = None /\ task'.why = "connect"
        /\ Holds(loop', task') /\ Ahead(task', board') = <<>>
    <3>1. task' = [NoTask EXCEPT !.why = "connect"] /\ at' = "info"
      BY <1>5 DEF GoTo
    <3> QED
      BY <2>4, <3>1, NoReport, NoTaskFields
  <2>8. Learned(loop') /\ Trims(loop, loop') /\ ~loop'.connected /\ loop'.snapshot_seq = None
    BY <1>1, <1>2, <2>2, <2>3 DEF Adopts, Steady
  <2>9. Fit'
    BY <1>1, <1>2, <2>2, <2>6, <2>7, <2>8 DEF Fit, Steady, Linked
  <2>10. Reports = <<>>
    BY <1>2 DEF Fit, Sane, Ends, Queue, Reports
  <2>11. Precise(inexact', dropped', at') => Precise(inexact, dropped, at)
    BY <1>1, <1>5 DEF Precise
  <2>12. \A n \in GPIOS : board.moved[n] <= board'.moved[n]
    BY <2>1, <2>4 DEF Bounded, Boards
  <2> QED
    BY <2>4, <2>7, <2>8, <2>9, <2>10, <2>11, <2>12, GoneFits
<1> QED
  BY <1>3, <1>4, <1>5 DEF TryConnect

\* Checking the device that was opened.
LEMMA ConnectInfoFits ==
  ASSUME WatchInv, Fit, WatchInv', ConnectInfo
  PROVE  StepFits
<1>1. at = "info" /\ task.why = "connect" /\ ~loop.connected /\ task.report = None
  BY PhaseOf DEF ConnectInfo
<1>2. CASE \E cause : Attempt(cause)
  BY <1>1, <1>2, EndsFits
<1>3. CASE /\ Steps([loop EXCEPT !.met = TRUE]) /\ GoTo("config") /\ UNCHANGED <<board, task, left>>
  <2>1. Adopts(loop, [loop EXCEPT !.met = TRUE])
    BY HelpersAdopt DEF Fit
  <2>2. /\ loop' = [loop EXCEPT !.met = TRUE] /\ at' = "config" /\ board' = board /\ task' = task
        /\ dropped' = dropped
        /\ inexact' = (inexact \/ ~(DOMAIN loop.known \subseteq DOMAIN loop'.known))
    BY <1>3 DEF Steps, GoTo
  <2> QED
    BY <1>1, <2>1, <2>2, GoesOn
<1> QED
  BY <1>2, <1>3 DEF ConnectInfo

\* A step that begins a reading of the configuration, or changes nothing more
\* than the target and a timer.
LEMMA BeginsFits ==
  ASSUME WatchInv, Fit, at = "idle", NEW m, Adopts(loop, m), Steps(m), board' = board,
         \/ at' = at /\ task' = task
         \/ /\ loop.connected /\ at' = "config" /\ task'.report = None
            /\ task'.why # "connect"
  PROVE  StepFits
<1>1. /\ task.why = "none" /\ task.report = None /\ Ahead(task, board) = Queue(board)
  BY PhaseOf
<1>2. /\ loop' = m /\ dropped' = dropped
      /\ inexact' = (inexact \/ ~(DOMAIN loop.known \subseteq DOMAIN loop'.known))
  BY DEF Steps
<1>3. Adopts(loop, loop')
  BY <1>2
<1>4. /\ loop'.snapshot_seq = loop.snapshot_seq /\ loop'.settle_at = loop.settle_at
      /\ (loop'.connected <=> loop.connected) /\ (loop'.awaiting_config <=> loop.awaiting_config)
  BY <1>3 DEF Adopts
<1>5. Steady(loop', at')
  BY <1>4 DEF Fit, Steady
<1>6. task'.report = None /\ Holds(loop', task')
  BY <1>1 DEF Holds, InHand
<1>7. Ahead(task', board) = Ahead(task, board)
  BY <1>1, <1>6 DEF Ahead
<1>8. Linked(loop', board, task')
  BY <1>1, <1>4 DEF Fit, Linked
<1>9. Precise(inexact', dropped', at') =>
        /\ Precise(inexact, dropped, at) /\ DOMAIN loop.known \subseteq DOMAIN loop'.known
  BY <1>2 DEF Precise
<1> QED
  BY <1>3, <1>5, <1>6, <1>7, <1>8, <1>9, AdoptFits

\* A restoration is due, or the target is set.
LEMMA TargetFits ==
  ASSUME WatchInv, Fit, RestoreDue \/ SetTarget
  PROVE  StepFits
<1>1. Learned(loop)
  BY DEF Fit
<1>2. CASE RestoreDue
  <2>1. /\ at = "idle" /\ loop.restore_at = 0 /\ Steps(StartRestore(loop)) /\ at' = "config"
        /\ task' = [NoTask EXCEPT !.why = "restore"] /\ board' = board
    BY <1>2 DEF RestoreDue, Due, GoTo
  <2>2. task'.report = None /\ task'.why # "connect"
    BY <2>1 DEF NoTask
  <2>3. loop.connected
    BY <2>1, LoopShape DEF Never
  <2>4. Adopts(loop, StartRestore(loop))
    BY <1>1, HelpersAdopt
  <2> QED
    BY <2>1, <2>2, <2>3, <2>4, BeginsFits
<1>3. CASE SetTarget
  <2>1. PICK config \in Targets :
          /\ at = "idle" /\ board' = board
          /\ Steps([loop EXCEPT !.target = Some(config),
                                !.restore_at = IF loop.connected THEN Never ELSE @])
          /\ IF loop.connected
             THEN at' = "config" /\ task' = [NoTask EXCEPT !.why = "target",
                                               !.previous = loop.target]
             ELSE at' = at /\ task' = task
    BY <1>3 DEF SetTarget, GoTo
  <2> DEFINE timer == IF loop.connected THEN Never ELSE loop.restore_at
             m == [loop EXCEPT !.target = Some(config), !.restore_at = timer]
  <2>2. Steps(m)
    <3>1. [loop EXCEPT !.target = Some(config),
                       !.restore_at = IF loop.connected THEN Never ELSE @] = m
      OBVIOUS
    <3> QED
      BY <2>1, <3>1
  <2> HIDE DEF timer
  <2>3. Adopts(loop, m)
    BY <1>1, HelpersAdopt
  <2> HIDE DEF m
  <2>4. loop.connected => task'.report = None /\ task'.why # "connect"
    <3>1. /\ [NoTask EXCEPT !.why = "target", !.previous = loop.target].report = None
          /\ [NoTask EXCEPT !.why = "target", !.previous = loop.target].why = "target"
      BY DEF NoTask
    <3> QED
      BY <2>1, <3>1
  <2> QED
    BY <2>1, <2>2, <2>3, <2>4, BeginsFits
<1> QED
  BY <1>2, <1>3

\* The CONFIG_CHANGED that was waited for has not come.
LEMMA SettleFits ==
  ASSUME WatchInv, Fit, SettleDue
  PROVE  StepFits
<1> DEFINE m == [loop EXCEPT !.settle_at = Never, !.awaiting_config = FALSE]
<1>1. /\ at = "idle" /\ loop.settle_at = 0 /\ Steps(m) /\ at' = "snapshot" /\ board' = board
      /\ task' = task
  BY DEF SettleDue, Due, GoTo
<1>2. /\ loop' = m /\ dropped' = dropped
      /\ inexact' = (inexact \/ ~(DOMAIN loop.known \subseteq DOMAIN loop'.known))
  BY <1>1 DEF Steps
<1>3. Learned(loop) /\ DOMAIN loop = LoopFields /\ loop.awaiting_config /\ loop.connected
  BY <1>1, LoopShape DEF Fit, Steady, Never
<1>4. /\ DOMAIN loop' = LoopFields /\ loop'.known = loop.known /\ loop'.counted = loop.counted
      /\ loop'.config = loop.config /\ (loop'.blind <=> loop.blind)
      /\ loop'.scan_at = loop.scan_at /\ loop'.snapshot_seq = loop.snapshot_seq
      /\ loop'.settle_at = Never /\ (loop'.connected <=> loop.connected)
      /\ ~loop'.awaiting_config
  BY <1>2, <1>3 DEF LoopFields
<1>5. Trims(loop, loop') /\ Learned(loop')
  <2>1. loop.scan_at \in {Never} \cup Nat /\ loop.snapshot_seq \subseteq SeqNumbers
    BY <1>3 DEF Learned
  <2> QED
    BY <1>3, <1>4, <2>1, LeavesAdopts
<1>6. Steady(loop', at') /\ Holds(loop', task') /\ Linked(loop', board, task')
  BY <1>1, <1>3, <1>4 DEF Fit, Steady, Holds, Linked
<1>7. Precise(inexact', dropped', at') =>
        /\ Precise(inexact, dropped, at) /\ DOMAIN loop.known \subseteq DOMAIN loop'.known
  BY <1>1, <1>2 DEF Precise
<1>8. ~Listening(loop, at) /\ at' = "snapshot" /\ Ahead(task', board) = Ahead(task, board)
  BY <1>1, <1>3 DEF Listening
<1> QED
  BY <1>1, <1>4, <1>5, <1>6, <1>7, <1>8, TrimFits

\* Time passes.
LEMMA TickFits ==
  ASSUME WatchInv, Fit, Tick
  PROVE  StepFits
<1>1. /\ at # "stopped" /\ board' = board /\ at' = at /\ task' = task /\ inexact' = inexact
      /\ dropped' = dropped
  BY DEF Tick
<1>2. Learned(loop) /\ DOMAIN loop = LoopFields
  BY DEF Fit, Learned
<1>3. /\ DOMAIN loop' = LoopFields /\ loop'.known = loop.known /\ loop'.counted = loop.counted
      /\ loop'.config = loop.config /\ (loop'.blind <=> loop.blind)
      /\ loop'.scan_at = Later(loop.scan_at) /\ loop'.snapshot_seq = loop.snapshot_seq
      /\ loop'.settle_at = Later(loop.settle_at) /\ (loop'.connected <=> loop.connected)
      /\ (loop'.awaiting_config <=> loop.awaiting_config)
  BY <1>2 DEF Tick, LoopFields
<1>4. ASSUME NEW t \in {Never} \cup Nat
      PROVE  Later(t) \in {Never} \cup Nat /\ (Later(t) = Never <=> t = Never)
  BY DEF Later, Never
<1>5. Trims(loop, loop') /\ Learned(loop') /\ (loop'.settle_at = Never <=> loop.settle_at = Never)
  <2>1. /\ loop.scan_at \in {Never} \cup Nat /\ loop.settle_at \in {Never} \cup Nat
        /\ loop.snapshot_seq \subseteq SeqNumbers
    BY <1>2 DEF Learned
  <2>2. /\ loop'.scan_at \in {Never} \cup Nat /\ loop'.settle_at \in {Never} \cup Nat
        /\ (loop'.settle_at = Never <=> loop.settle_at = Never)
        /\ loop'.snapshot_seq \subseteq SeqNumbers
    BY <1>3, <1>4, <2>1
  <2> QED
    BY <1>2, <1>3, <2>2, LeavesAdopts
<1>6. Steady(loop', at') /\ Holds(loop', task') /\ Linked(loop', board, task')
  BY <1>1, <1>3, <1>5 DEF Fit, Steady, Holds, Linked
<1>7. /\ Precise(inexact', dropped', at') =>
           /\ Precise(inexact, dropped, at) /\ DOMAIN loop.known \subseteq DOMAIN loop'.known
      /\ Ahead(task', board) = Ahead(task, board)
      /\ Listening(loop, at) => Listening(loop', at')
      /\ \/ ~loop'.connected \/ loop'.awaiting_config \/ at' = "snapshot"
         \/ loop.connected /\ ~loop.awaiting_config /\ at # "snapshot"
  BY <1>1, <1>3 DEF Listening
<1> QED
  BY <1>1, <1>3, <1>5, <1>6, <1>7, TrimFits

-----------------------------------------------------------------------------
(***************************************************************************)
(* The steps of the world                                                  *)
(***************************************************************************)

\* Something happens to the board.
LEMMA HappensFits ==
  ASSUME WatchInv, Fit, WatchInv', NEW kind, NEW b, NEW reset, Happens(kind, b, reset),
         NEW x, Grows(board, b, x),
         Aware /\ Precise(inexact', dropped', at') => x /\ ~inexact,
         \A r \in StatusReports, n \in GPIOS :
           Aware /\ Appends(board, b, r) /\ Moves(r, n)
             /\ Precise(inexact', dropped', at') =>
               n \in DOMAIN loop.known /\ Listening(loop, at)
  PROVE  StepFits
<1> DEFINE u == loop.untold \cup IF loop.ever_connected THEN reset ELSE {}
<1>1. /\ board' = b /\ loop' = [loop EXCEPT !.untold = u] /\ at' = at /\ task' = task
      /\ dropped' = (dropped \/ b.handles[Watch].gap > 0)
  BY DEF Happens
<1>2. DOMAIN loop = LoopFields /\ Learned(loop)
  BY DEF Fit, Learned
<1> HIDE DEF u
<1>3. Adopts(loop, loop')
  BY <1>1, <1>2, HelpersAdopt
<1>4. loop'.known = loop.known /\ (Listening(loop, at) => Listening(loop', at'))
  BY <1>1, <1>2 DEF LoopFields, Listening
<1>5. Aware /\ Precise(inexact', dropped', at') => x /\ Precise(inexact, dropped, at)
  BY <1>1 DEF Precise
<1> QED
  BY <1>1, <1>3, <1>4, <1>5, BoardFits

\* A happening that no pin moves with, and one after which nothing is exact.
LEMMA QuietFits ==
  ASSUME WatchInv, Fit, WatchInv', NEW kind, NEW b, NEW reset, Happens(kind, b, reset),
         \/ Grows(board, b, TRUE) /\ b.moved = board.moved /\ Exactly
         \/ Grows(board, b, FALSE) /\ NotExactly
  PROVE  StepFits
<1>1. Bounded(board)
  BY FitTypes
<1>2. CASE Grows(board, b, TRUE) /\ b.moved = board.moved /\ Exactly
  <2>1. \A r \in StatusReports, n \in GPIOS : Appends(board, b, r) => ~Moves(r, n)
    BY <1>1, <1>2, StillMoves
  <2>2. Precise(inexact', dropped', at') => ~inexact
    BY <1>2 DEF Exactly, Precise
  <2> QED
    BY <1>2, <2>1, <2>2, HappensFits
<1>3. CASE Grows(board, b, FALSE) /\ NotExactly
  <2>1. ~Precise(inexact', dropped', at')
    BY <1>3 DEF NotExactly, Precise
  <2> QED
    BY <1>3, <2>1, HappensFits
<1> QED
  BY <1>2, <1>3

\* No other pin moves when an input is set.
LEMMA InputMoves ==
  ASSUME NEW b, Bounded(b), NEW n \in GPIOS, NEW high, NEW o \in GPIOS, o # n
  PROVE  SetInput(b, n, high).moved[o] = b.moved[o]
<1>1. /\ DOMAIN b = BoardFields /\ b.moved \in [GPIOS -> Nat]
  BY DEF Bounded, Boards, BoardFields
<1>2. /\ WithInput(b, n, high).moved[o] = b.moved[o]
      /\ DOMAIN WithInput(b, n, high) = BoardFields
  BY <1>1 DEF WithInput, BoardFields
<1>3. \A m : DOMAIN m = BoardFields => /\ WithLevel(m, n).moved = m.moved
                                       /\ DOMAIN WithLevel(m, n) = BoardFields
  BY DEF WithLevel, BoardFields
<1>4. \A m, reason, edges : DOMAIN m = BoardFields => Send(m, reason, edges).moved = m.moved
  BY DEF Send, BoardFields
<1> QED
  BY <1>2, <1>3, <1>4 DEF SetInput

\* An input changes.
LEMMA InputsFit ==
  ASSUME WatchInv, Fit, WatchInv', board.powered, Inputs
  PROVE  StepFits
<1>1. Bounded(board)
  BY FitTypes
<1>2. PICK n \in Switches :
        \/ /\ Happens("input", SetInput(board, n, n \notin board.inputs), {})
           /\ IF FollowsPin(n) THEN Exactly ELSE NotExactly
        \/ Happens("lose", LoseInput(board, n, n \notin board.inputs), {}) /\ NotExactly
  BY DEF Inputs
<1> DEFINE high == n \notin board.inputs
           d == SetInput(board, n, high)
           y == Aware /\ Precise(inexact', dropped', at')
<1>3. n \in GPIOS /\ high \in BOOLEAN
  BY WatchAssumption
<1>4. /\ \A x : (x => /\ Usable(board, Watch) /\ board.powered /\ IsMonitored(board.config[n])
                      /\ ~((n \in board.levels) <=> high)) => Grows(board, d, x)
      /\ Grows(board, LoseInput(board, n, high), FALSE)
  BY <1>1, <1>3, InputGrows
<1>5. CASE Happens("lose", LoseInput(board, n, high), {}) /\ NotExactly
  BY <1>4, <1>5, QuietFits
<1>6. CASE Happens("input", d, {}) /\ ~FollowsPin(n) /\ NotExactly
  <2>1. Grows(board, d, FALSE)
    BY <1>4
  <2> QED
    BY <1>6, <2>1, QuietFits
<1>7. CASE Happens("input", d, {}) /\ FollowsPin(n) /\ Exactly
  <2>1. /\ at = "idle" /\ loop.connected /\ Usable(board, Watch) /\ ~loop.awaiting_config
        /\ n \in DOMAIN loop.known /\ IsMonitored(board.config[n])
    BY <1>7 DEF FollowsPin
  <2>2. y => ~((n \in board.levels) <=> high)
    <3>1. n \in MonitoredMask(board.config)
      BY <1>3, <2>1 DEF MonitoredMask
    <3> QED
      BY <3>1 DEF Aware, Reads, Wired
  <2>3. y \in BOOLEAN /\ (y => ~inexact)
    BY <1>7 DEF Exactly, Precise
  <2>4. Grows(board, d, y)
    <3> HIDE DEF y, d, high
    <3> QED
      BY <1>4, <2>1, <2>2
  <2>5. ASSUME NEW r \in StatusReports, NEW o \in GPIOS, Appends(board, d, r), Moves(r, o)
        PROVE  o = n
    <3>1. d.moved[o] = board.moved[o] + 1 /\ board.moved[o] \in Nat
      BY <1>1, <2>5 DEF Appends, Bounded, Boards
    <3>2. o # n => d.moved[o] = board.moved[o]
      BY <1>1, <1>3, InputMoves
    <3> HIDE DEF d
    <3> QED
      BY <3>1, <3>2
  <2>6. Listening(loop, at)
    BY <2>1 DEF Listening
  <2>7. \A r \in StatusReports, o \in GPIOS :
          Aware /\ Appends(board, d, r) /\ Moves(r, o) /\ Precise(inexact', dropped', at') =>
            o \in DOMAIN loop.known /\ Listening(loop, at)
    BY <2>1, <2>5, <2>6
  <2>8. Aware /\ Precise(inexact', dropped', at') => y /\ ~inexact
    BY <2>3
  <2> HIDE DEF y, d
  <2> QED
    BY <1>7, <2>4, <2>7, <2>8, HappensFits
<1> QED
  BY <1>2, <1>5, <1>6, <1>7

\* The rest of the world.
LEMMA WorldFits ==
  ASSUME WatchInv, Fit, WatchInv', World \/ PlugIn
  PROVE  StepFits
<1>1. Bounded(board) /\ BoardOK(board)
  BY FitTypes
<1>2. /\ ~board.powered => Grows(board, Plug(board), FALSE)
      /\ Grows(board, Unplug(board), FALSE) /\ Grows(board, Reenumerate(board), FALSE)
      /\ Grows(board, Suspend(board), TRUE) /\ Grows(board, SkipReports(board, 1), FALSE)
      /\ Grows(board, [board EXCEPT !.open_error = ~@], TRUE)
      /\ Grows(board, [board EXCEPT !.version_ok = ~@], TRUE)
  BY <1>1, OperationsGrow
<1>3. DOMAIN board = BoardFields
  BY <1>1 DEF BoardOK
<1>4. /\ Suspend(board).moved = board.moved
      /\ [board EXCEPT !.open_error = ~@].moved = board.moved
      /\ [board EXCEPT !.version_ok = ~@].moved = board.moved
  <2>1. Suspend(board).moved = board.moved
    BY <1>3 DEF Suspend, OutputsReset, Send, BoardFields
  <2>2. \A o : [board EXCEPT !.open_error = o].moved = board.moved
    BY <1>3 DEF BoardFields
  <2>3. \A o : [board EXCEPT !.version_ok = o].moved = board.moved
    BY <1>3 DEF BoardFields
  <2> QED
    BY <2>1, <2>2, <2>3, Zenon
<1>5. \A config \in OtherConfigs : /\ Grows(board, WritePinConfig(board, config), TRUE)
                                   /\ WritePinConfig(board, config).moved = board.moved
  <2>1. \A p : WriteConfig(board, p).moved = board.moved
    BY <1>3 DEF WriteConfig, Send, BoardFields
  <2> QED
    BY <1>1, <2>1, OtherPayload, WriteGrows DEF WritePinConfig
<1>6. ASSUME board.powered, Inputs PROVE StepFits
  BY <1>6, InputsFit
<1>7. CASE PlugIn
  BY <1>2, <1>7, QuietFits DEF PlugIn
<1>8. CASE World
  <2>1. CASE Happens("unplug", Unplug(board), OutputsMask(board.config)) /\ NotExactly
    BY <1>2, <2>1, QuietFits
  <2>2. CASE Happens("bus", Reenumerate(board), OutputsMask(board.config)) /\ NotExactly
    BY <1>2, <2>2, QuietFits
  <2>3. CASE Happens("bus", Suspend(board), OutputsMask(board.config)) /\ Exactly
    BY <1>2, <1>4, <2>3, QuietFits
  <2>4. CASE \E config \in OtherConfigs :
               Happens("other", WritePinConfig(board, config), {}) /\ Exactly
    BY <1>5, <2>4, QuietFits
  <2>5. CASE Happens("skip", SkipReports(board, 1), {}) /\ NotExactly
    BY <1>2, <2>5, QuietFits
  <2>6. CASE Happens("fail", [board EXCEPT !.open_error = ~@], {}) /\ Exactly
    <3> DEFINE d == [board EXCEPT !.open_error = ~@]
    <3>1. Happens("fail", d, {}) /\ Grows(board, d, TRUE) /\ d.moved = board.moved /\ Exactly
      BY <1>2, <1>4, <2>6
    <3> HIDE DEF d
    <3> QED
      BY <3>1, QuietFits
  <2>7. CASE Happens("fail", [board EXCEPT !.version_ok = ~@], {}) /\ Exactly
    <3> DEFINE d == [board EXCEPT !.version_ok = ~@]
    <3>1. Happens("fail", d, {}) /\ Grows(board, d, TRUE) /\ d.moved = board.moved /\ Exactly
      BY <1>2, <1>4, <2>7
    <3> HIDE DEF d
    <3> QED
      BY <3>1, QuietFits
  <2> QED
    BY <1>6, <1>8, <2>1, <2>2, <2>3, <2>4, <2>5, <2>6, <2>7 DEF World
<1> QED
  BY <1>7, <1>8

\* set_outputs and the periodic report.
LEMMA ReportsFit ==
  ASSUME WatchInv, Fit, WatchInv', SetOutputs \/ Heartbeat
  PROVE  StepFits
<1>1. Bounded(board) /\ BoardOK(board) /\ DOMAIN board = BoardFields
  BY FitTypes DEF BoardOK
<1>2. /\ loop' = loop /\ at' = at /\ task' = task /\ inexact' = inexact
      /\ dropped' = dropped \/ dropped' = (dropped \/ board'.handles[Watch].gap > 0)
      /\ board' = Periodic(board) \/ board' = WriteOutputs(board, GPIOS, GPIOS)
  BY DEF SetOutputs, Heartbeat
<1>3. Grows(board, board', TRUE)
  BY <1>1, <1>2, OperationsGrow
<1>4. board'.moved = board.moved
  BY <1>1, <1>2 DEF Periodic, WriteOutputs, Send, BoardFields
<1>5. \A r \in StatusReports, n \in GPIOS : Appends(board, board', r) => ~Moves(r, n)
  BY <1>1, <1>4, StillMoves
<1>6. Precise(inexact', dropped', at') => Precise(inexact, dropped, at)
  BY <1>2 DEF Precise
<1>7. Adopts(loop, loop')
  BY <1>2, HelpersAdopt DEF Fit
<1> QED
  BY <1>2, <1>3, <1>5, <1>6, <1>7, BoardFits

-----------------------------------------------------------------------------
(***************************************************************************)
(* The snapshot                                                            *)
(***************************************************************************)

\* What a snapshot tells.
LEMMA SnapshotReport ==
  ASSUME NEW b, Bounded(b)
  PROVE  LET r == StatusNow(b)
         IN  /\ r \in StatusReports /\ r.events = <<>> /\ r.reason = {"HOST_REQUEST"}
             /\ r.flags = {} /\ r.seq = b.last_seq /\ r.levels = b.levels
             /\ r.monitored = MonitoredMask(b.config) /\ Shows(b, r)
<1> DEFINE r == StatusNow(b)
<1>1. /\ b.last_seq \in SeqNumbers /\ b.levels \subseteq GPIOS
      /\ MonitoredMask(b.config) \subseteq GPIOS /\ OutputsMask(b.config) \subseteq GPIOS
      /\ "HOST_REQUEST" \in Reasons /\ <<>> \in Seq(EdgeEvents)
  BY DEF Bounded, Boards, MonitoredMask, OutputsMask, Reasons
<1>2. /\ r.events = <<>> /\ r.reason = {"HOST_REQUEST"} /\ r.flags = {} /\ r.seq = b.last_seq
      /\ r.levels = b.levels /\ r.monitored = MonitoredMask(b.config)
  BY DEF StatusNow, Status
<1>3. r \in StatusReports
  <2>1. {"HOST_REQUEST"} \in SUBSET Reasons /\ {} \in SUBSET Flags /\ 0 \in Nat
    BY <1>1
  <2> QED
    BY <1>1, <2>1 DEF StatusReports, StatusNow, Status
<1> HIDE DEF r
<1>4. Shows(b, r)
  BY <1>2 DEF Shows
<1> QED
  BY <1>2, <1>3, <1>4 DEF r

\* A snapshot is used, and is the reference of the reports that follow.
LEMMA StorySnapshot ==
  ASSUME NEW l, Learned(l), NEW m, Learned(m), m.known = l.known, m.counted = l.counted,
         m.config = l.config, NEW b, Bounded(b), b.powered, Reads(b),
         m.snapshot_seq = (IF b.last_seq # 0 THEN Some(b.last_seq) ELSE None),
         Queue(b) \in Seq(StatusReports),
         m.blind <=> l.blind \/ (b.last_seq = 0 /\ Queue(b) # <<>>),
         NEW r, r = StatusNow(b),
         b.last_seq # 0 =>
           \A a : a.snapshot_seq = Some(b.last_seq) =>
             \A i \in 1 .. Len(Queue(b)) : IsStale(a, Queue(b)[i]),
         NEW D, NEW k, NEW x, Story(l, D, b, "snapshot", Queue(b), k, x), NEW y, y => x
  PROVE  LET a == Absorb(m, r) IN Tale(a, DOMAIN a.known, b, "idle", Queue(b), y)
<1> DEFINE a == Absorb(m, r)
           q == Queue(b)
           last == IF b.last_seq # 0 THEN Len(q) ELSE 0
<1>1. /\ r \in StatusReports /\ r.events = <<>> /\ r.levels = b.levels
      /\ r.monitored = MonitoredMask(b.config) /\ Shows(b, r)
  BY SnapshotReport
<1>2. /\ Learned(a) /\ a.snapshot_seq = m.snapshot_seq
      /\ a.known = OnOff(Overrides, m.config, r) /\ (a.blind <=> m.blind)
  BY <1>1, AbsorbLearns
<1>3. \A n \in GPIOS : a.counted[n] = m.counted[n] + Change(m, r, n)
  BY <1>1, Absorbed DEF Learned
<1>4. DOMAIN a.known = r.monitored
  BY <1>2 DEF OnOff
<1>5. Matches(a, r.monitored, b, y)
  BY <1>1, AbsorbMatches
<1>6. /\ q \in Seq(StatusReports) /\ Len(q) \in Nat /\ k \in 0 .. Len(q) /\ last \in 0 .. Len(q)
  BY DEF Story
<1>7. \A n \in GPIOS : \A c \in Nat : Parity(l, n, c) => Parity(m, n, c)
  BY DEF Parity
<1>8. ASSUME NEW n \in GPIOS
      PROVE  /\ Shown(r, n, b.moved[n]) /\ ~Moves(r, n) /\ b.moved[n] \in Nat
             /\ l.counted[n] \in Nat /\ Parity(a, n, b.moved[n])
             /\ \A c \in Nat : c <= b.moved[n] /\ Parity(l, n, c) =>
                  c + Change(m, r, n) <= b.moved[n] /\ Change(m, r, n) \in Nat
  <2>1. b.moved[n] \in Nat /\ l.counted[n] \in Nat
    BY DEF Bounded, Boards, Learned
  <2>2. Shown(r, n, b.moved[n])
    BY <1>1 DEF Shown, Reads, Wired
  <2>3. ~Moves(r, n)
    BY <1>1 DEF Moves
  <2>4. Parity(a, n, b.moved[n])
    BY <1>1, <2>2, AbsorbParity
  <2>5. ASSUME NEW c \in Nat, c <= b.moved[n], Parity(l, n, c)
        PROVE  c + Change(m, r, n) <= b.moved[n] /\ Change(m, r, n) \in Nat
    <3>1. Fits(r, n, c, b.moved[n])
      BY <2>2, <2>3, <2>5 DEF Fits
    <3>2. Parity(m, n, c) /\ m.known \in [DOMAIN m.known -> BOOLEAN]
      BY <1>7, <2>5 DEF Learned
    <3> QED
      BY <1>1, <2>1, <3>1, <3>2, ChangeFits
  <2> HIDE DEF a
  <2> QED
    BY <2>1, <2>2, <2>3, <2>4, <2>5
<1> HIDE DEF a, q
<1>9. \A i \in 1 .. last : IsStale(a, q[i])
  BY <1>2, <1>6 DEF q
<1>10. Reference(a, b, q, last)
  <2>1. CASE b.last_seq = 0
    BY <1>2, <2>1 DEF Reference, None
  <2>2. CASE b.last_seq # 0
    <3>1. a.snapshot_seq = {b.last_seq} /\ last = Len(q)
      BY <1>2, <2>2 DEF Some
    <3>2. Gap(b) \in Nat /\ b.next_seq = (b.last_seq + 1) % SEQ_MOD
      BY <2>2, WatchAssumption DEF Bounded, Boards, Handles, Gap, Reads
    <3>3. After(b.last_seq, b.next_seq, Gap(b))
      <4>1. 1 \in 1 .. Gap(b) + 1
        BY <3>2
      <4> QED
        BY <3>2, <4>1 DEF After
    <3> HIDE DEF last
    <3> QED
      BY <1>6, <3>1, <3>3 DEF Reference
  <2> QED
    BY <2>1, <2>2
<1>11. Latest(b, q)
  BY DEF Story, q
<1>12. Known(a, DOMAIN a.known, b, "idle", q, last, y)
  BY <1>4, <1>5 DEF Known
<1>13. ASSUME ~a.blind PROVE Ghost(a, b.moved, q, last)
  <2>1. Ghost(l, b.moved, q, k) /\ last = Len(q)
    <3>1. ~l.blind /\ (b.last_seq # 0 \/ q = <<>>)
      BY <1>2, <1>13 DEF q
    <3> QED
      BY <3>1 DEF Story, q
  <2> SUFFICES ASSUME NEW n \in GPIOS
               PROVE  /\ b.moved[n] \in Nat /\ a.counted[n] <= b.moved[n]
                      /\ Parity(a, n, b.moved[n])
                      /\ Rides(n, q, last, b.moved[n], b.moved[n])
    BY DEF Ghost
  <2>2. PICK c \in Nat : /\ l.counted[n] <= c /\ Parity(l, n, c) /\ Rides(n, q, k, c, b.moved[n])
    BY <2>1 DEF Ghost
  <2>3. b.moved[n] \in Nat /\ l.counted[n] \in Nat
    BY <1>8
  <2>4. c <= b.moved[n] /\ Rides(n, q, Len(q), b.moved[n], b.moved[n])
    BY <1>6, <2>2, <2>3, RidesEnd
  <2>5. c + Change(m, r, n) <= b.moved[n] /\ Change(m, r, n) \in Nat
    BY <1>8, <2>2, <2>4
  <2>6. a.counted[n] <= b.moved[n]
    BY <1>3, <2>2, <2>3, <2>5
  <2> QED
    BY <1>8, <2>1, <2>4, <2>6
<1>14. ASSUME y PROVE Exact(a, DOMAIN a.known, "idle", b.moved, q, last)
  <2>1. Exact(l, D, "snapshot", b.moved, q, k)
    BY <1>14 DEF Story, q
  <2> SUFFICES ASSUME NEW n \in GPIOS
               PROVE  /\ Parity(a, n, a.counted[n]) /\ Climbs(n, q, a.counted[n], b.moved[n])
                      /\ \A i \in 1 .. Len(q) : ~Moves(q[i], n)
    BY DEF Exact
  <2>2. /\ Parity(l, n, l.counted[n]) /\ Climbs(n, q, l.counted[n], b.moved[n])
        /\ \A i \in 1 .. Len(q) : ~Moves(q[i], n)
    BY <2>1 DEF Exact, Listening
  <2>3. l.counted[n] = b.moved[n]
    BY <1>6, <1>8, <2>2, ClimbsStill
  <2>4. l.counted[n] + Change(m, r, n) <= b.moved[n] /\ Change(m, r, n) \in Nat
    BY <1>8, <2>2, <2>3
  <2>5. a.counted[n] = b.moved[n]
    BY <1>3, <1>8, <2>3, <2>4
  <2> QED
    BY <1>8, <2>2, <2>3, <2>5
<1>15. Story(a, DOMAIN a.known, b, "idle", q, last, y)
  BY <1>6, <1>9, <1>10, <1>11, <1>12, <1>13, <1>14 DEF Story
<1> QED
  BY <1>15 DEF Tale, a, q

\* Reading the snapshot of the levels.
LEMMA TakeSnapshotFits ==
  ASSUME WatchInv, Fit, WatchInv', TakeSnapshot
  PROVE  StepFits
<1> DEFINE report == StatusNow(board)
           blind == loop.blind \/ (report.seq = 0 /\ Reports # <<>>)
           l == [loop EXCEPT !.snapshot_seq = SnapshotSeq(report), !.blind = blind]
           m == Noticed(l, report)
<1>1. /\ at = "snapshot" /\ loop.connected /\ task.report = None /\ task.why = "none"
      /\ Ahead(task, board) = Queue(board)
  BY PhaseOf DEF TakeSnapshot
<1>2. CASE Disconnect
  BY <1>1, <1>2, EndsFits
<1>3. CASE Usable(board, Watch) /\ Finish(Used(m, report, FALSE)) /\ board' = board
  <2>1. /\ Bounded(board) /\ BoardOK(board) /\ Learned(loop) /\ DOMAIN loop = LoopFields
        /\ ~loop.awaiting_config /\ loop.settle_at = Never
        /\ Queue(board) \in Seq(StatusReports)
    BY <1>1, FitTypes DEF Fit, Steady
  <2>2. /\ report \in StatusReports /\ report.events = <<>> /\ report.reason = {"HOST_REQUEST"}
        /\ report.flags = {} /\ report.seq = board.last_seq
        /\ report.monitored = MonitoredMask(board.config)
    BY <2>1, SnapshotReport
  <2> DEFINE s == IF board.last_seq # 0 THEN Some(board.last_seq) ELSE None
  <2>3. SnapshotSeq(report) = s
    BY <2>2 DEF SnapshotSeq
  <2>4. s \subseteq SeqNumbers
    BY <2>1 DEF Bounded, Boards, Some, None
  <2> HIDE DEF report, blind, s
  <2>5. /\ DOMAIN l = LoopFields /\ l.known = loop.known /\ l.counted = loop.counted
        /\ l.config = loop.config /\ l.blind = blind /\ l.snapshot_seq = s
        /\ l.scan_at = loop.scan_at /\ l.settle_at = loop.settle_at
        /\ l.connected = loop.connected /\ l.awaiting_config = loop.awaiting_config
    BY <2>1, <2>3 DEF LoopFields
  <2> HIDE DEF l
  <2>6. m = TellReset([l EXCEPT !.snapshot_seq = l.snapshot_seq,
                                !.awaiting_config = l.awaiting_config /\ TRUE,
                                !.settle_at = l.settle_at], {})
    BY <2>2 DEF Noticed, IsStale
  <2>7. /\ DOMAIN m = LoopFields /\ m.known = l.known /\ m.counted = l.counted
        /\ m.config = l.config /\ m.blind = l.blind /\ m.snapshot_seq = l.snapshot_seq
        /\ m.scan_at = l.scan_at /\ m.settle_at = l.settle_at /\ m.connected = l.connected
        /\ (m.awaiting_config <=> l.awaiting_config)
    BY <2>5, <2>6 DEF TellReset, LoopFields
  <2> HIDE DEF m
  <2>8. /\ m.connected /\ ~m.awaiting_config /\ m.settle_at = Never /\ (m.blind <=> blind)
        /\ m.known = loop.known /\ m.counted = loop.counted /\ m.config = loop.config
        /\ m.snapshot_seq = s
    BY <1>1, <2>1, <2>5, <2>7
  <2>9. Learned(m)
    <3>1. /\ m.config \in ValidConfigs /\ DOMAIN m.known \subseteq GPIOS
          /\ m.known \in [DOMAIN m.known -> BOOLEAN] /\ m.counted \in [GPIOS -> Nat]
      BY <2>1, <2>8, Zenon DEF Learned
    <3>2. {m.scan_at, m.settle_at} \subseteq {Never} \cup Nat
      BY <2>1, <2>5, <2>7 DEF Learned
    <3> QED
      BY <2>4, <2>7, <2>8, <3>1, <3>2 DEF Learned
  <2>10. /\ loop' = Absorb(m, report) /\ at' = "idle" /\ task' = NoTask /\ dropped' = dropped
         /\ inexact' = (inexact \/ ~(DOMAIN loop.known \subseteq DOMAIN loop'.known))
    <3>1. Used(m, report, FALSE) = Absorb(m, report)
      BY <2>2, <2>8 DEF Used
    <3> QED
      BY <1>1, <1>3, <3>1 DEF Finish, Steps, GoTo
  <2>11. /\ Learned(loop') /\ loop'.settle_at = Never /\ loop'.connected
         /\ ~loop'.awaiting_config
    BY <2>2, <2>8, <2>9, <2>10, AbsorbLearns
  <2>12. Fit'
    BY <1>3, <2>10, <2>11, NoReport DEF Fit, Steady, Linked
  <2>13. ASSUME Aware, InReach, Told PROVE Told'
    <3> DEFINE x == Precise(inexact, dropped, at)
               y == Precise(inexact', dropped', at')
    <3>1. PICK k : Story(loop, DOMAIN loop.known, board, "snapshot", Queue(board), k, x)
      BY <1>1, <2>13 DEF Told, Tale
    <3>2. y => x
      BY <1>1, <2>10 DEF Precise
    <3>3. board.powered /\ Reads(board)
      <4>1. Watch \in Clients
        BY WatchAssumption
      <4>2. board.powered
        BY <1>3, <2>1, <4>1 DEF BoardOK, Usable
      <4> QED
        BY <2>13, <4>2 DEF Aware
    <3>4. board.last_seq # 0 =>
            \A a : a.snapshot_seq = Some(board.last_seq) =>
              \A i \in 1 .. Len(Queue(board)) : IsStale(a, Queue(board)[i])
      BY <1>3, <2>13, SnapshotLast
    <3>5. m.blind <=> loop.blind \/ (board.last_seq = 0 /\ Queue(board) # <<>>)
      BY <2>2, <2>8 DEF blind, Queue, Reports
    <3>6. m.snapshot_seq = IF board.last_seq # 0 THEN Some(board.last_seq) ELSE None
      BY <2>8 DEF s
    <3>7. report = StatusNow(board)
      BY DEF report
    <3> HIDE DEF x, y
    <3>8. Tale(Absorb(m, report), DOMAIN Absorb(m, report).known, board, "idle",
               Queue(board), y)
      BY <2>1, <2>8, <2>9, <3>1, <3>2, <3>3, <3>4, <3>5, <3>6, <3>7, StorySnapshot
    <3>9. Ahead(task', board') = Queue(board)
      BY <1>3, <2>10, NoReport
    <3> QED
      BY <1>3, <2>10, <3>8, <3>9 DEF Told, y
  <2> QED
    BY <2>12, <2>13 DEF StepFits
<1> QED
  BY <1>2, <1>3 DEF TakeSnapshot

-----------------------------------------------------------------------------
(***************************************************************************)
(* Reading a report                                                        *)
(***************************************************************************)

\* A board of which only the queue is another.
Alike(b, d) ==
  /\ d.handles[Watch].state = b.handles[Watch].state /\ Gap(d) = Gap(b)
  /\ d.next_seq = b.next_seq /\ d.config = b.config /\ d.levels = b.levels
  /\ d.overflow = b.overflow /\ d.moved = b.moved

\* The queue is no part of the board in a story.
LEMMA StoryAlike ==
  ASSUME NEW b, NEW d, Alike(b, d), NEW l, NEW D, NEW a, NEW q, NEW k, NEW x,
         Story(l, D, b, a, q, k, x)
  PROVE  Story(l, D, d, a, q, k, x)
<1>1. (Usable(d, Watch) <=> Usable(b, Watch)) /\ Gap(d) = Gap(b)
  BY DEF Alike, Usable
<1>2. Reference(l, d, q, k)
  BY <1>1 DEF Story, Reference, Alike
<1>3. Latest(d, q)
  <2>1. \A r : Shows(b, r) => Shows(d, r)
    BY DEF Shows, Alike
  <2> QED
    BY <1>1, <2>1 DEF Story, Latest
<1>4. Known(l, D, d, a, q, k, x)
  <2>1. Matches(l, D, b, x) => Matches(l, D, d, x)
    BY DEF Matches, Alike
  <2> QED
    BY <1>1, <2>1 DEF Story, Known
<1> QED
  BY <1>2, <1>3, <1>4 DEF Story, Alike

\* The report that is read is taken from the queue.
LEMMA ReadAlike ==
  ASSUME NEW b, Bounded(b), Queue(b) # <<>>,
         NEW d, d = [b EXCEPT !.handles[Watch].reports = Tail(@)]
  PROVE  Alike(b, d) /\ Queue(d) = Tail(Queue(b))
<1>1. /\ DOMAIN b = BoardFields /\ DOMAIN b.handles = Clients
      /\ DOMAIN b.handles[Watch] = HandleFields /\ Watch \in Clients
  BY WatchAssumption DEF Bounded, Boards, BoardFields, Handles, HandleFields
<1> DEFINE h == b.handles[Watch]
           g == [h EXCEPT !.reports = Tail(h.reports)]
<1>2. g.state = h.state /\ g.gap = h.gap /\ g.reports = Tail(h.reports)
  BY <1>1 DEF HandleFields
<1>3. d.handles[Watch] = g
  BY <1>1 DEF BoardFields
<1>4. /\ d.next_seq = b.next_seq /\ d.config = b.config /\ d.levels = b.levels
      /\ d.overflow = b.overflow /\ d.moved = b.moved
  BY <1>1 DEF BoardFields
<1> HIDE DEF g
<1> QED
  BY <1>2, <1>3, <1>4 DEF Alike, Queue, Gap

\* A sequence that is not empty, put together again.
LEMMA HeadThenTail ==
  ASSUME NEW q \in Seq(StatusReports), q # <<>>
  PROVE  <<Head(q)>> \o Tail(q) = q
OBVIOUS

\* A report that is read: one from before the snapshot is shed, any other is
\* the next one of the story.
LEMMA StoryRead ==
  ASSUME NEW l, Learned(l), NEW m, Trims(l, m), NEW b, Bounded(b),
         NEW q \in Seq(StatusReports), q # <<>>, NEW D, NEW k, NEW x,
         Story(l, D, b, "idle", q, k, x), l.connected, m.connected,
         NEW z, z # "snapshot", Listening(l, "idle") => Listening(m, z),
         Reference(l, b, q, 0) => ~IsStale(l, Head(q)),
         m.snapshot_seq = IF IsStale(l, Head(q)) THEN l.snapshot_seq ELSE None,
         m.awaiting_config => l.awaiting_config,
         IsStale(l, Head(q)) => (m.awaiting_config <=> l.awaiting_config)
  PROVE  IF IsStale(l, Head(q))
         THEN \E j : Story(m, D, b, z, Tail(q), j, x)
         ELSE Story(m, D, b, z, q, 0, x)
<1>1. /\ Len(q) \in Nat /\ Len(q) > 0 /\ Head(q) = q[1] /\ Tail(q) \in Seq(StatusReports)
      /\ k \in 0 .. Len(q) /\ \A i \in 1 .. k : IsStale(l, q[i])
  BY Tailed DEF Story
<1>2. CASE IsStale(l, Head(q))
  <2>1. k > 0
    BY <1>1, <1>2 DEF Story
  <2>2. Story(l, D, b, "idle", Tail(q), k - 1, x)
    BY <2>1, StoryShed
  <2>3. \/ ~m.connected \/ m.awaiting_config \/ z = "snapshot"
        \/ l.connected /\ ~l.awaiting_config /\ "idle" # "snapshot"
    BY <1>2
  <2>4. Story(m, D, b, z, Tail(q), k - 1, x)
    <3>1. m.snapshot_seq = l.snapshot_seq
      BY <1>2
    <3>2. x => x
      OBVIOUS
    <3> DEFINE j == k - 1
               t == Tail(q)
    <3>3. Story(l, D, b, "idle", t, j, x) /\ t \in Seq(StatusReports)
      BY <1>1, <2>2
    <3> HIDE DEF j, t
    <3>4. Story(m, D, b, z, t, j, x)
      BY <2>3, <3>1, <3>2, <3>3, StoryTrims
    <3> QED
      BY <3>4 DEF j, t
  <2> QED
    BY <1>2, <2>4
<1>3. CASE ~IsStale(l, Head(q))
  <2>1. k = 0
    BY <1>1, <1>3
  <2>2. k # Len(q) /\ m.snapshot_seq = None
    BY <1>1, <1>3, <2>1
  <2>3. Story(m, D, b, z, q, k, x)
    BY <2>1, <2>2, StoryTrims
  <2> QED
    BY <1>3, <2>1, <2>3
<1> QED
  BY <1>2, <1>3

\* Reading a report that waits.
LEMMA ReadReportFits ==
  ASSUME WatchInv, Fit, WatchInv', ReadReport
  PROVE  StepFits
<1> DEFINE q == Queue(board)
           r == Head(q)
           stale == IsStale(loop, r)
           m == Noticed(loop, r)
           D == DOMAIN loop.known
           x == Precise(inexact, dropped, at)
           y == Precise(inexact', dropped', at')
<1>1. /\ at = "idle" /\ loop.connected /\ task.report = None /\ Ahead(task, board) = q
  BY PhaseOf DEF ReadReport
<1>2. CASE Disconnect
  BY <1>1, <1>2, EndsFits
<1>3. CASE ~Disconnect
  <2>1. /\ Usable(board, Watch) /\ q # <<>>
        /\ board' = [board EXCEPT !.handles[Watch].reports = Tail(@)]
        /\ "CONFIG_CHANGED" \in r.reason =>
             /\ Steps(m) /\ at' = "config"
             /\ task' = [NoTask EXCEPT !.why = "changed", !.report = Some(r), !.stale = stale]
        /\ "CONFIG_CHANGED" \notin r.reason => Finish(Used(m, r, stale))
    BY <1>3 DEF ReadReport, GoTo, Queue, Reports
  <2>2. /\ Bounded(board) /\ Learned(loop) /\ DOMAIN loop = LoopFields
        /\ q \in Seq(StatusReports) /\ PlainQueue(q) /\ Bounded(board')
    BY FitTypes DEF Fit, Learned, Sane, WatchInv, BoardInv
  <2>3. /\ Tail(q) \in Seq(StatusReports) /\ Len(q) \in Nat /\ Len(q) > 0 /\ r \in StatusReports
        /\ Len(Tail(q)) = Len(q) - 1 /\ r = q[1]
        /\ \A i \in 1 .. Len(Tail(q)) : Tail(q)[i] = q[i + 1]
    BY <2>1, <2>2, Tailed
  <2>4. Alike(board, board') /\ Queue(board') = Tail(q)
    BY <2>1, <2>2, ReadAlike
  <2>5. Plain(r) /\ "HOST_REQUEST" \notin r.reason
    <3> HIDE DEF q, r
    <3>1. 1 \in 1 .. Len(q)
      BY <2>3
    <3>2. Plain(r)
      BY <2>2, <2>3, <3>1 DEF PlainQueue
    <3> QED
      BY <3>2 DEF Plain
  <2>6. Sane(board')
    <3>1. Usable(board', Watch)
      BY <2>1, <2>4 DEF Alike, Usable
    <3>2. \A i \in 1 .. Len(Tail(q)) : Plain(Tail(q)[i])
      BY <2>2, <2>3 DEF PlainQueue
    <3> QED
      BY <2>3, <2>4, <3>1, <3>2 DEF Sane, PlainQueue
  <2> DEFINE changed == "CONFIG_CHANGED" \in r.reason /\ ~stale
  <2>7. /\ Trims(loop, m) /\ Learned(m) /\ m.connected /\ m.known = loop.known
        /\ m.snapshot_seq = (IF stale THEN loop.snapshot_seq ELSE None)
        /\ (m.awaiting_config <=> loop.awaiting_config /\ ~changed)
        /\ m.settle_at = (IF changed THEN Never ELSE loop.settle_at)
    BY <1>1, <2>2, <2>5, NoticedTrims
  <2>8. Aware /\ InReach /\ Reference(loop, board, q, 0) => ~stale
    <3>1. loop.snapshot_seq \subseteq SeqNumbers
      BY <2>2 DEF Learned
    <3> QED
      BY <2>1, <3>1, SnapshotLast
  <2>9. (loop.settle_at # Never => loop.awaiting_config) /\ (m.settle_at # Never => m.awaiting_config)
    BY <2>7 DEF Fit, Steady
  <2> DEFINE z == IF "CONFIG_CHANGED" \in r.reason THEN "config" ELSE "idle"
  <2> HIDE DEF q, r, m
  <2>10. ASSUME Aware, InReach, Told
         PROVE  IF stale THEN \E j : Story(m, D, board, z, Tail(q), j, x)
                ELSE Story(m, D, board, z, q, 0, x)
    <3>1. PICK k : Story(loop, D, board, "idle", q, k, x)
      BY <1>1, <2>10 DEF Told, Tale
    <3>2. Reference(loop, board, q, 0) => ~stale
      BY <2>8, <2>10
    <3>3. /\ z # "snapshot" /\ (Listening(loop, "idle") => Listening(m, z))
          /\ (m.awaiting_config => loop.awaiting_config)
          /\ (stale => (m.awaiting_config <=> loop.awaiting_config))
      BY <2>7 DEF Listening
    <3>4. q # <<>> /\ r = Head(q)
      BY <2>1 DEF r
    <3> HIDE DEF x, D, z
    <3> QED
      BY <1>1, <2>2, <2>7, <3>1, <3>2, <3>3, <3>4, StoryRead
  <2>11. ASSUME loop' = m, NEW p, NEW j, Story(m, D, board, z, p, j, x), at' = z,
                Ahead(task', board') = p, y => x
         PROVE  Told'
    <3>1. y => x /\ D = DOMAIN m.known
      BY <2>7, <2>11
    <3> HIDE DEF y, x, D
    <3>2. Story(m, DOMAIN m.known, board, z, p, j, y)
      BY <2>11, <3>1, StoryRenamed
    <3>3. Story(loop', DOMAIN loop'.known, board', at', Ahead(task', board'), j, y)
      BY <2>4, <2>11, <3>2, StoryAlike
    <3> QED
      BY <3>3 DEF Told, Tale, y
  <2>12. CASE "CONFIG_CHANGED" \in r.reason
    <3>1. /\ loop' = m /\ at' = "config" /\ z = "config" /\ dropped' = dropped
          /\ inexact' = (inexact \/ ~(D \subseteq DOMAIN loop'.known))
          /\ task' = [NoTask EXCEPT !.why = "changed", !.report = Some(r), !.stale = stale]
      BY <2>1, <2>12 DEF Steps
    <3>2. /\ task'.report = Some(r) /\ task'.stale = stale /\ task'.why = "changed"
          /\ task'.report # None
      BY <3>1 DEF NoTask, Some, None
    <3>3. TheReport(task') = r
      BY <3>2 DEF TheReport, Some
    <3>4. Holds(loop', task')
      BY <2>3, <2>5, <2>7, <2>12, <3>1, <3>2 DEF Holds, InHand, Plain
    <3>5. Fit'
      BY <2>6, <2>7, <2>9, <3>1, <3>2, <3>4 DEF Fit, Steady, Linked
    <3>6. Ahead(task', board') = IF stale THEN Tail(q) ELSE q
      <4>1. CASE stale
        BY <2>4, <3>2, <4>1 DEF Ahead, q
      <4>2. CASE ~stale
        <5>1. <<r>> \o Tail(q) = q
          BY <2>1, <2>2, HeadThenTail DEF q, r
        <5> QED
          BY <2>4, <3>2, <3>3, <4>2, <5>1 DEF Ahead, q
      <4> QED
        BY <4>1, <4>2
    <3>7. y => x
      BY <1>1, <3>1 DEF Precise
    <3>8. DOMAIN loop'.known = D
      BY <2>7, <3>1
    <3>9. ASSUME Aware, InReach, Told PROVE Told'
      <4> HIDE DEF y, x, stale
      <4>1. PICK j : Story(m, D, board, z, IF stale THEN Tail(q) ELSE q, j, x)
        BY <2>10, <3>9
      <4> QED
        BY <2>11, <3>1, <3>6, <3>7, <3>8, <4>1
    <3> QED
      BY <3>5, <3>9 DEF StepFits
  <2>13. CASE "CONFIG_CHANGED" \notin r.reason
    <3>1. /\ loop' = Used(m, r, stale) /\ at' = "idle" /\ task' = NoTask
          /\ dropped' = dropped /\ z = "idle"
          /\ inexact' = (inexact \/ ~(D \subseteq DOMAIN loop'.known))
      BY <1>1, <2>1, <2>13 DEF Finish, Steps, GoTo
    <3>2. Ahead(task', board') = Tail(q)
      BY <2>4, <3>1, NoReport
    <3>3. y => x /\ D \subseteq DOMAIN loop'.known
      BY <1>1, <3>1 DEF Precise
    <3>4. ASSUME Learned(loop'), loop'.connected,
                 loop'.settle_at = m.settle_at, loop'.awaiting_config <=> m.awaiting_config
          PROVE  Fit'
      BY <2>6, <2>9, <3>1, <3>4, NoReport DEF Fit, Steady, Linked
    <3>5. loop' = IF stale \/ m.awaiting_config THEN m ELSE Absorb(m, r)
      BY <2>5, <2>7, <3>1 DEF Used
    <3>6. CASE stale
      <4>1. loop' = m
        BY <3>5, <3>6
      <4>2. Fit'
        BY <2>7, <3>4, <4>1
      <4>3. ASSUME Aware, InReach, Told PROVE Told'
        <5> HIDE DEF y, x, stale
        <5>1. PICK j : Story(m, D, board, z, Tail(q), j, x)
          BY <2>10, <3>6, <4>3
        <5>2. DOMAIN m.known = D
          BY <2>7
        <5> QED
          BY <2>11, <3>1, <3>2, <3>3, <4>1, <5>1, <5>2
      <4> QED
        BY <4>2, <4>3 DEF StepFits
    <3>7. CASE ~stale /\ m.awaiting_config
      <4>1. loop' = m
        BY <3>5, <3>7
      <4>2. Fit'
        BY <2>7, <3>4, <4>1
      <4>3. ASSUME Aware, InReach, Told PROVE Told'
        <5>1. m.snapshot_seq = None /\ ~Listening(m, "idle")
          BY <2>7, <3>7 DEF Listening
        <5>2. q # <<>>
          BY <2>1
        <5> HIDE DEF y, x, stale
        <5>3. Story(m, D, board, "idle", q, 0, x)
          BY <2>10, <3>1, <3>7, <4>3
        <5>4. Story(m, D, board, "idle", Tail(q), 0, x)
          BY <2>2, <2>7, <3>7, <5>1, <5>2, <5>3, StoryShed
        <5>5. DOMAIN m.known = D
          BY <2>7
        <5> QED
          BY <2>11, <3>1, <3>2, <3>3, <4>1, <5>4, <5>5
      <4> QED
        BY <4>2, <4>3 DEF StepFits
    <3>8. CASE ~stale /\ ~m.awaiting_config
      <4>1. loop' = Absorb(m, r)
        BY <3>5, <3>8
      <4>2. /\ Learned(loop') /\ loop'.settle_at = m.settle_at /\ loop'.connected
            /\ (loop'.awaiting_config <=> m.awaiting_config)
            /\ loop'.known = OnOff(Overrides, m.config, r)
        BY <2>3, <2>5, <2>7, <4>1, AbsorbLearns
      <4>3. Fit'
        BY <3>4, <4>2
      <4>4. DOMAIN loop'.known = r.monitored
        BY <4>2 DEF OnOff
      <4>5. ASSUME Aware, InReach, Told PROVE Told'
        <5>1. m.snapshot_seq = None /\ D = DOMAIN m.known
          BY <2>7, <3>8
        <5>2. q # <<>> /\ r = Head(q)
          BY <2>1 DEF r
        <5>3. y => x /\ D \subseteq Head(q).monitored
          BY <3>3, <4>4, <5>2
        <5>4. Plain(Head(q))
          BY <2>5, <5>2
        <5> HIDE DEF y, x, stale, D
        <5>5. Story(m, D, board, "idle", q, 0, x)
          BY <2>10, <3>1, <3>8, <4>5
        <5>6. Story(Absorb(m, Head(q)), DOMAIN Absorb(m, Head(q)).known, board, "idle", Tail(q), 0, y)
          BY <2>2, <2>7, <5>1, <5>2, <5>3, <5>4, <5>5, StoryAbsorb
        <5>7. Story(loop', DOMAIN loop'.known, board, at', Ahead(task', board'), 0, y)
          BY <3>1, <3>2, <4>1, <5>2, <5>6
        <5>8. Story(loop', DOMAIN loop'.known, board', at', Ahead(task', board'), 0, y)
          BY <2>4, <5>7, StoryAlike
        <5> QED
          BY <5>8 DEF Told, Tale, y
      <4> QED
        BY <4>3, <4>5 DEF StepFits
    <3> QED
      BY <3>6, <3>7, <3>8
  <2> QED
    BY <2>12, <2>13
<1> QED
  BY <1>2, <1>3

-----------------------------------------------------------------------------
(***************************************************************************)
(* Every step, and what follows                                            *)
(***************************************************************************)

\* The first state.
LEMMA InitFits ==
  ASSUME Init
  PROVE  Fit /\ Told /\ (Floating = {} => Aware)
<1>1. PICK s \in Scenarios : loop = NewLoop(s.target)
  BY DEF Init
<1>2. /\ DOMAIN loop = LoopFields /\ loop.config = UnusedConfig
      /\ loop.known = [n \in {} |-> TRUE] /\ loop.counted = [n \in GPIOS |-> 0]
      /\ loop.snapshot_seq = None /\ loop.scan_at = 0 /\ loop.settle_at = Never
      /\ loop.connected = FALSE /\ loop.awaiting_config = FALSE
  BY <1>1 DEF NewLoop, LoopFields
<1>3. at = "idle" /\ task = NoTask /\ board \in {NewBoard, Plug(NewBoard)}
  BY DEF Init
<1>4. UnusedConfig \in ValidConfigs
  <2> DEFINE u == UnusedSetting
  <2>1. u.mode = MODE_UNUSED /\ u.param = 0 /\ u \in [mode : Modes, param : 0 .. 255]
    BY DEF UnusedSetting, PinSetting, MODE_UNUSED, MODE_OUTPUT, Modes
  <2>2. \A n \in GPIOS : UnusedConfig[n] = u
    BY DEF UnusedConfig
  <2>3. UnusedConfig \in PinConfigs
    BY <2>1 DEF UnusedConfig, PinConfigs
  <2> HIDE DEF u
  <2> QED
    BY <2>1, <2>2, <2>3 DEF ValidConfigs, MODE_UNUSED, MODE_OUTPUT
<1>5. DOMAIN loop.known = {} /\ \A n \in GPIOS : loop.counted[n] = 0
  BY <1>2
<1>6. Learned(loop)
  <2>1. loop.known \in [DOMAIN loop.known -> BOOLEAN]
    BY <1>2
  <2>2. loop.counted \in [GPIOS -> Nat] /\ loop.snapshot_seq \subseteq SeqNumbers
        /\ {loop.scan_at, loop.settle_at} \subseteq {Never} \cup Nat
    BY <1>2 DEF None
  <2> QED
    BY <1>2, <1>4, <1>5, <2>1, <2>2 DEF Learned
<1>7. /\ BoardOK(NewBoard) /\ DOMAIN NewBoard = BoardFields /\ Bounded(NewBoard)
      /\ NewBoard.handles = [c \in Clients |-> Closed]
      /\ NewBoard.moved = [n \in GPIOS |-> 0]
  BY PlugTypes DEF NewBoard, BoardOK, BoardFields, HandleFields, Closed
<1>8. /\ board.handles = [c \in Clients |-> Closed]
      /\ board.moved = [n \in GPIOS |-> 0]
  BY <1>3, <1>7 DEF Plug, BoardFields
<1>9. Queue(board) = <<>> /\ Gap(board) = 0 /\ ~Usable(board, Watch)
  BY <1>8, WatchAssumption DEF Queue, Gap, Usable, Closed
<1>10. Sane(board)
  BY <1>9 DEF Sane, Ends, PlainQueue
<1>11. Fit
  BY <1>2, <1>3, <1>6, <1>9, <1>10, NoReport DEF Fit, Steady, Linked
<1>12. Told
  <2> DEFINE x == Precise(inexact, dropped, at)
             q == Queue(board)
  <2>1. q \in Seq(StatusReports)
    BY <1>9
  <2>2. Len(q) = 0 /\ q = <<>>
    BY <1>9
  <2>3. Reference(loop, board, q, 0) /\ Latest(board, q)
        /\ Known(loop, DOMAIN loop.known, board, at, q, 0, x)
    BY <1>2, <1>9 DEF Reference, Latest, Known, None
  <2>4. ASSUME NEW n \in GPIOS
        PROVE  /\ loop.counted[n] = 0 /\ board.moved[n] = 0 /\ 0 \in Nat
               /\ Parity(loop, n, 0)
               /\ Rides(n, q, 0, 0, 0) /\ Climbs(n, q, 0, 0)
    <3>1. loop.counted[n] = 0 /\ board.moved[n] = 0 /\ Parity(loop, n, 0)
      <4>1. n \notin DOMAIN loop.known
        BY <1>5
      <4>2. board.moved[n] = 0
        BY <1>8
      <4>3. Parity(loop, n, 0)
        BY <4>1, Zenon DEF Parity
      <4> QED
        BY <1>5, <4>2, <4>3
    <3>2. Rides(n, q, 0, 0, 0)
      <4> HIDE DEF q
      <4>1. ASSUME NEW c \in Nat PROVE Rides(n, q, Len(q), c, c)
        BY <2>1, RidesEnd
      <4> QED
        BY <2>2, <4>1
    <3>3. Climbs(n, q, 0, 0)
      BY <2>2, ClimbsEmpty
    <3> QED
      BY <3>1, <3>2, <3>3
  <2> HIDE DEF q, x
  <2>5. Ghost(loop, board.moved, q, 0)
    <3> SUFFICES ASSUME NEW n \in GPIOS
                 PROVE  /\ loop.counted[n] <= 0 /\ Parity(loop, n, 0)
                        /\ Rides(n, q, 0, 0, board.moved[n]) /\ 0 \in Nat
      BY DEF Ghost
    <3> QED
      BY <2>4
  <2>6. Exact(loop, DOMAIN loop.known, at, board.moved, q, 0)
    BY <2>2, <2>4 DEF Exact
  <2>7. Story(loop, DOMAIN loop.known, board, at, q, 0, x)
    BY <2>1, <2>2, <2>3, <2>5, <2>6 DEF Story
  <2>8. Ahead(task, board) = q
    BY <1>3, NoReport DEF q
  <2> QED
    BY <2>7, <2>8 DEF Told, Tale, x
<1>13. ASSUME Floating = {} PROVE Aware
  <2>1. Reads(board)
    BY <1>3, <1>7, <1>13, PlugReads
  <2> QED
    BY <1>9, <2>1 DEF Aware, Chained, Usable
<1> QED
  BY <1>11, <1>12, <1>13

\* Every step.
LEMMA NextFits == WatchInv /\ Fit /\ [Next]_vars => StepFits
<1> SUFFICES ASSUME WatchInv, Fit, [Next]_vars PROVE StepFits
  OBVIOUS
<1>1. WatchInv'
  BY NextGood
<1>2. ThreadStep => StepFits
  BY <1>1, TryConnectFits, ConnectInfoFits, ReadConfigFits, SendFits, VerifyFits, TargetFits,
     SettleFits, TakeSnapshotFits, ReadReportFits DEF ThreadStep
<1>3. UNCHANGED vars => StepFits
  BY DEF vars, StepFits, Fit, Told
<1> QED
  BY <1>1, <1>2, <1>3, TargetFits, ReportsFit, WorldFits, TickFits DEF Next

\* A loop knows pins of a board only, its configuration is one that the board
\* would accept, it counts in whole numbers and its timers wait or are off: what
\* the WatchLoop of watch.rs:465 holds is of the types that it declares, and each
\* of its phases is one of them (TypeOK), whatever the board does.
THEOREM WatchTypes == Spec => []TypeOK
<1> DEFINE Inv == WatchInv /\ Fit
<1>1. Init => Inv
  BY InitLoop, InitWatch, InitFits DEF WatchInv
<1>2. Inv /\ [Next]_vars => Inv'
  BY NextGood, NextFits DEF StepFits
<1>3. Inv => TypeOK
  <2> SUFFICES ASSUME Inv PROVE TypeOK
    OBVIOUS
  <2>1. /\ at \in {"idle", "info", "config", "send", "verify", "snapshot", "stopped"}
        /\ task.why \in {"none", "connect", "changed", "restore", "target"}
    BY DEF WatchInv, Sound, Phase
  <2>2. /\ loop.config \in ValidConfigs /\ DOMAIN loop.known \subseteq GPIOS
        /\ loop.snapshot_seq \subseteq 0 .. SEQ_MOD - 1 /\ loop.counted \in [GPIOS -> Nat]
        /\ loop.scan_at \in {Never} \cup Nat /\ loop.settle_at \in {Never} \cup Nat
    BY DEF Fit, Learned, SeqNumbers
  <2>3. loop.restore_at \in {Never} \cup Nat
    BY DEF WatchInv, LoopInv, Spaced
  <2>4. board.config \in ValidConfigs
    BY DEF WatchInv, BoardInv, Bounded, Boards
  <2> QED
    BY <2>1, <2>2, <2>3, <2>4 DEF TypeOK
<1> HIDE DEF Inv
<1> QED
  BY <1>1, <1>2, <1>3, PTL DEF Spec

\* The story goes on.
StoryInv == WatchInv /\ Fit /\ Aware /\ Told

\* The story goes on, with a board whose inputs are driven.
LEMMA StoryGoesOn ==
  ASSUME Floating = {}
  PROVE  /\ Init => StoryInv
         /\ StoryInv /\ InReach /\ [Next]_vars => StoryInv'
<1>1. Init => StoryInv
  BY InitLoop, InitWatch, InitFits DEF WatchInv, StoryInv
<1>2. ASSUME StoryInv, InReach, [Next]_vars PROVE StoryInv'
  <2>1. WatchInv'
    BY <1>2, NextGood DEF StoryInv
  <2>2. StepFits
    BY <1>2, NextFits DEF StoryInv
  <2>3. Aware'
    BY <1>2, AwareNext DEF StoryInv
  <2> QED
    BY <1>2, <2>1, <2>2, <2>3 DEF StoryInv, StepFits
<1> QED
  BY <1>1, <1>2

\* No change is told that did not happen: a watcher never told more changes of a
\* pin than its input made, whatever was lost, restarted, reconfigured or
\* reconnected in between, unless it took a snapshot numbered 0 over waiting
\* reports (blind).  This is "exactly once" (docs/HOST_API.md:953) from above, by
\* the reference that snapshot takes and the comparison with it in status
\* (watch.rs:756 and 770).  Two hypotheses: the inputs are driven, as those of
\* the board of testing.rs are (a pin that floats changes with its pull and makes
\* no edge), and the numbers of the reports in the queue stay in reach of each
\* other (InReach), which fails when a reader is 32767 reports behind.
THEOREM NoGhostChanges ==
  ASSUME Floating = {}
  PROVE  Spec /\ []InReach => []NoGhostChange
<1>1. Init => StoryInv
  BY StoryGoesOn
<1>2. StoryInv /\ InReach /\ [Next]_vars => StoryInv'
  BY StoryGoesOn
<1>3. StoryInv => NoGhostChange
  <2> SUFFICES ASSUME StoryInv, ~loop.blind, NEW n \in GPIOS
               PROVE  loop.counted[n] <= board.moved[n]
    BY DEF NoGhostChange, EachChangeOnce
  <2> DEFINE q == Ahead(task, board)
  <2>1. q \in Seq(StatusReports) /\ Bounded(board) /\ Learned(loop)
    BY FitTypes DEF StoryInv, Fit
  <2>2. PICK k : Story(loop, DOMAIN loop.known, board, at, q, k,
                       Precise(inexact, dropped, at))
    BY DEF StoryInv, Told, Tale
  <2> HIDE DEF q
  <2>3. k \in 0 .. Len(q) /\ Ghost(loop, board.moved, q, k)
    BY <2>2 DEF Story
  <2>4. PICK c \in Nat : loop.counted[n] <= c /\ Rides(n, q, k, c, board.moved[n])
    BY <2>3 DEF Ghost
  <2>5. board.moved[n] \in Nat /\ loop.counted[n] \in Nat
    BY <2>1 DEF Bounded, Boards, Learned
  <2>6. c <= board.moved[n]
    BY <2>1, <2>3, <2>4, <2>5, RidesEnd
  <2> QED
    BY <2>4, <2>5, <2>6
<1> QED
  BY <1>1, <1>2, <1>3, PTL DEF Spec

\* A watcher that has read everything knows what is true: of each pin it knows, the
\* level; and when it forgot no pin, lost no report and no two changes merged, it
\* knows every monitored pin and has told each of its changes exactly once
\* (docs/HOST_API.md:953; status and absorb, watch.rs:761 and 812).  The hypotheses are
\* those of NoGhostChanges.
THEOREM WatcherCatchesUp ==
  ASSUME Floating = {}
  PROVE  Spec /\ []InReach => []CaughtUp
<1>1. Init => StoryInv
  BY StoryGoesOn
<1>2. StoryInv /\ InReach /\ [Next]_vars => StoryInv'
  BY StoryGoesOn
<1>3. StoryInv => CaughtUp
  <2> SUFFICES ASSUME StoryInv, Quiet, loop.config = board.config
               PROVE  /\ \A n \in DOMAIN loop.known :
                           n \in DOMAIN Truth /\ loop.known[n] = Truth[n]
                      /\ ~inexact /\ ~dropped =>
                           /\ DOMAIN loop.known = DOMAIN Truth
                           /\ \A n \in DOMAIN Truth : loop.counted[n] = board.moved[n]
    BY DEF CaughtUp
  <2> DEFINE x == Precise(inexact, dropped, at)
  <2>1. /\ at = "idle" /\ loop.connected /\ Usable(board, Watch) /\ Queue(board) = <<>>
        /\ Gap(board) = 0 /\ ~board.overflow /\ ~loop.awaiting_config
    BY DEF Quiet, Reports, Queue, Gap
  <2>2. Ahead(task, board) = <<>> /\ Bounded(board) /\ Learned(loop)
    BY <2>1, PhaseOf, FitTypes DEF StoryInv, Fit
  <2>3. PICK k : Story(loop, DOMAIN loop.known, board, at, <<>>, k, x)
    BY <2>2 DEF StoryInv, Told, Tale
  <2>4. x <=> ~inexact /\ ~dropped
    BY <2>1 DEF Precise
  <2> HIDE DEF x
  <2>5. k = 0 /\ Len(<<>>) = 0
    BY <2>3 DEF Story
  <2>6. Matches(loop, DOMAIN loop.known, board, x)
    BY <2>1, <2>3, <2>5 DEF Story, Known
  <2>7. /\ DOMAIN Truth = MonitoredMask(board.config)
        /\ \A n \in MonitoredMask(board.config) :
             Truth[n] = ((n \in board.levels) # ActiveLow(Overrides, board.config, n))
    BY DEF Truth, OnOff, StatusNow, Status
  <2>8. ASSUME NEW n \in DOMAIN loop.known
        PROVE  n \in DOMAIN Truth /\ loop.known[n] = Truth[n]
    BY <2>1, <2>6, <2>7 DEF Matches
  <2>9. ASSUME x
        PROVE  /\ DOMAIN loop.known = DOMAIN Truth
               /\ \A n \in DOMAIN Truth : loop.counted[n] = board.moved[n]
    <3>1. DOMAIN loop.known = MonitoredMask(board.config)
      BY <2>6, <2>9 DEF Matches
    <3>2. ASSUME NEW n \in GPIOS PROVE loop.counted[n] = board.moved[n]
      <4>1. Climbs(n, <<>>, loop.counted[n], board.moved[n])
        BY <2>3, <2>9 DEF Story, Exact
      <4>2. loop.counted[n] \in Nat /\ board.moved[n] \in Nat
        BY <2>2 DEF Learned, Bounded, Boards
      <4> QED
        BY <4>1, <4>2, ClimbsEmpty
    <3> QED
      BY <2>7, <3>1, <3>2 DEF MonitoredMask
  <2> QED
    BY <2>4, <2>8, <2>9
<1> QED
  BY <1>1, <1>2, <1>3, PTL DEF Spec
=============================================================================
