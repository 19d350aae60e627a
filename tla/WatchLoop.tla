----------------------------- MODULE WatchLoop -----------------------------
(***************************************************************************)
(* The device side of a watcher (rust/src/watch.rs, WatchLoop): the thread *)
(* that finds its board, makes it follow the target configuration, reads   *)
(* its reports, and keeps the ON/OFF of the monitored pins.                *)
(*                                                                         *)
(* Each transfer to the board is a step of its own, and between two steps  *)
(* the board may be unplugged, reset or written to by another program, its *)
(* inputs may change, and reports may fill the queue of the handle.  at    *)
(* names the transfer that comes next.  What the thread shares with the    *)
(* application is in WatcherChannel; a thread that waits for the           *)
(* application to take events is one that is slow to read.                 *)
(*                                                                         *)
(* Time passes in ticks.  A timer is the ticks that are left, Never when   *)
(* it is not set; one that is due is at 0.                                 *)
(***************************************************************************)
EXTENDS DeviceAccess, SequencesExt

CONSTANTS
  Watch,             \* the watcher, one of Clients
  Overrides,         \* WatchOptions.active_low
  Targets,           \* what set_target_pins is called with
  OtherConfigs,      \* what other programs write
  Switches,          \* the inputs that change
  SCAN_INTERVAL, SETTLE_TIMEOUT, RESTORE_INTERVAL,
  Scenarios          \* the initial target, and how often each kind of
                     \* disturbance happens

Disturbances == {"input", "lose", "plug", "unplug", "bus", "other", "skip",
                 "fail", "target", "outputs", "glitch"}

ASSUME WatchAssumption ==
  /\ Watch \in Clients
  /\ \A n \in DOMAIN Overrides : Overrides[n] \in BOOLEAN
  /\ Targets \cup OtherConfigs \subseteq PinConfigs
  /\ Switches \subseteq GPIOS
  /\ {SCAN_INTERVAL, SETTLE_TIMEOUT, RESTORE_INTERVAL} \subseteq Nat \ {0}
  /\ \A s \in Scenarios : /\ s.budget \in [Disturbances -> Nat]
                         /\ s.target \subseteq PinConfigs
                         /\ \A c, d \in s.target : c = d

VARIABLES
  board,
  loop,       \* the WatchLoop struct, with its Connection, and history
  at,         \* what the thread does next
  task,       \* what the calls it is in have read so far
  left,       \* what is left of the budget of each disturbance
  dropped,    \* history: the handle lost a report in this connection
  inexact     \* history: a change may be merged with another, or not seen

vars == <<board, loop, at, task, left, dropped, inexact>>

Never == -1

(***************************************************************************)
(* History: counted, the changes told to the application for each pin;     *)
(* untold, the outputs that went back to their initial level without it    *)
(* being told; and blind, when a snapshot that is no reference was taken   *)
(* with reports waiting.                                                   *)
(***************************************************************************)
NewLoop(target) ==
  [target |-> target, config |-> UnusedConfig, known |-> [n \in {} |-> TRUE],
   met |-> FALSE, ever_connected |-> FALSE, connected |-> FALSE,
   last_request_id |-> 0, snapshot_seq |-> None, awaiting_config |-> FALSE,
   failure |-> "", failures |-> 0, since_restore |-> RESTORE_INTERVAL,
   scan_at |-> 0, restore_at |-> Never, settle_at |-> Never,
   counted |-> [n \in GPIOS |-> 0], untold |-> {}, blind |-> FALSE]

NoTask == [why |-> "none", found |-> UnusedConfig, id |-> 0, report |-> None,
           stale |-> FALSE, previous |-> None, driven |-> {}]

Init ==
  /\ board \in {NewBoard, Plug(NewBoard)}
  /\ \E s \in Scenarios : loop = NewLoop(s.target) /\ left = s.budget
  /\ at = "idle" /\ task = NoTask
  /\ dropped = FALSE /\ inexact = FALSE

-----------------------------------------------------------------------------
(***************************************************************************)
(* The helpers of the loop, from a loop to the loop after them             *)
(***************************************************************************)
\* An OutputsReset event.
TellReset(l, gpios) == [l EXCEPT !.untold = @ \ gpios]

\* The pins that writing new over prev drives to their initial level.
DrivenOutputs(prev, new) ==
  {n \in GPIOS : IsOutput(new[n]) /\ prev[n] # new[n]}

\* A failed attempt to use the device; the second in a row with the same
\* cause is reported, and a higher count makes no difference.
FailedAttempt(l, cause) ==
  [l EXCEPT !.failures = IF cause # l.failure THEN 1 ELSE 2,
            !.failure = cause, !.scan_at = SCAN_INTERVAL]

ResetFailures(l) == [l EXCEPT !.failure = "", !.failures = 0]

\* The ON/OFF of a pin is kept while it is monitored with the same pull.
SetConfig(l, config) ==
  LET kept == {n \in DOMAIN l.known :
                 IsMonitored(config[n]) /\ config[n].mode = l.config[n].mode}
  IN  [l EXCEPT !.known = [n \in kept |-> l.known[n]], !.config = config]

DropConnection(l) ==
  IF ~l.connected THEN l
  ELSE [l EXCEPT !.connected = FALSE, !.snapshot_seq = None,
                 !.awaiting_config = FALSE,
                 !.restore_at = Never, !.settle_at = Never]

\* Mutated form of Lost: nothing looks for the device again.
LostForGood(l) == DropConnection(l)

Lost(l) ==
  IF ~l.connected THEN l
  ELSE [DropConnection(l) EXCEPT !.scan_at = SCAN_INTERVAL]

\* Mutated form of Wrote: the pins that were driven are not told.
WroteSilently(l, found, config) ==
  [SetConfig(l, config) EXCEPT !.awaiting_config = TRUE,
                               !.settle_at = SETTLE_TIMEOUT]

Wrote(l, found, config) ==
  TellReset([SetConfig(l, config) EXCEPT !.awaiting_config = TRUE,
                                         !.settle_at = SETTLE_TIMEOUT],
            DrivenOutputs(found, config))

\* An edge event of a known pin is a change, and two when it leaves the pin
\* where it already was: the opposite one was lost.
AbsorbEvent(l, e) ==
  LET on == e.level # ActiveLow(Overrides, l.config, e.gpio)
  IN  IF e.gpio \notin DOMAIN l.known THEN l
      ELSE [l EXCEPT !.counted[e.gpio] =
                       @ + IF on = l.known[e.gpio] THEN 2 ELSE 1,
                     !.known[e.gpio] = on]

AbsorbLevels(l, report) ==
  LET on      == OnOff(Overrides, l.config, report)
      changes == {n \in DOMAIN on \cap DOMAIN l.known : on[n] # l.known[n]}
  IN  [l EXCEPT !.known = on,
                !.counted = [n \in GPIOS |->
                               @[n] + IF n \in changes THEN 1 ELSE 0]]

Absorb(l, report) ==
  LET told == FoldLeft(AbsorbEvent, l, report.events)
  IN  AbsorbLevels([l EXCEPT !.known = told.known, !.counted = told.counted],
                   report)

\* Mutated form of IsStale: sequence numbers are compared without the wrap.
IsStaleNoWrap(l, report) ==
  \E snapshot \in l.snapshot_seq :
    "HOST_REQUEST" \notin report.reason /\ report.seq <= snapshot

\* Whether an interrupt report was sent before the snapshot.
IsStale(l, report) ==
  \E snapshot \in l.snapshot_seq :
    LET distance == SeqDistance(report.seq, snapshot, SEQ_MOD)
    IN  /\ "HOST_REQUEST" \notin report.reason
        /\ distance = 0 \/ distance >= SEQ_MOD \div 2

\* The first half of status(), up to the reading of a new configuration.
Noticed(l, report) ==
  LET stale   == IsStale(l, report)
      changed == "CONFIG_CHANGED" \in report.reason /\ ~stale
      told    == IF "OUTPUT_RESET" \in report.reason THEN report.outputs ELSE {}
  IN  TellReset(
        [l EXCEPT !.snapshot_seq =
                    IF stale \/ "HOST_REQUEST" \in report.reason THEN @ ELSE None,
                  !.awaiting_config = @ /\ ~changed,
                  !.settle_at = IF changed THEN Never ELSE @], told)

\* The second half.
Used(l, report, stale) ==
  IF \/ ~l.connected \/ stale \/ l.awaiting_config
     \/ "HOST_REQUEST" \in report.reason /\ "MORE_EVENTS" \in report.flags
  THEN l ELSE Absorb(l, report)

-----------------------------------------------------------------------------
(***************************************************************************)
(* Steps                                                                   *)
(***************************************************************************)
Reports == board.handles[Watch].reports

\* History of a step: a pin that is forgotten may change unseen.
Steps(l) ==
  /\ loop' = l
  /\ inexact' = (inexact \/ ~(DOMAIN loop.known \subseteq DOMAIN l.known))
  /\ UNCHANGED dropped

GoTo(step) == at' = step

\* The end of what main_loop was doing, with the report that led to it, if
\* any, still to be used.
Finish(l) ==
  /\ Steps(IF task.report = None THEN l
           ELSE Used(l, CHOOSE r \in task.report : TRUE, task.stale))
  /\ GoTo("idle")
  /\ task' = NoTask

\* The handle is closed with the connection, or with the failed attempt.
FinishClosed(l) ==
  /\ board' = CloseHandle(board, Watch)
  /\ loop' = l /\ GoTo("idle") /\ task' = NoTask
  /\ inexact' = (inexact \/ Reports # <<>>)
  /\ UNCHANGED dropped

\* An error that stops the watcher.
Stop ==
  /\ board' = CloseHandle(board, Watch)
  /\ Steps(DropConnection(loop)) /\ GoTo("stopped") /\ task' = NoTask

\* A transfer fails when the handle did, and now and then by itself.
Fails ==
  \/ ~Usable(board, Watch) /\ UNCHANGED left
  \/ /\ Usable(board, Watch) /\ left.glitch > 0
     /\ left' = [left EXCEPT !.glitch = @ - 1]

Due(timer) == timer = 0
Timers(l)  == <<l.scan_at, l.restore_at, l.settle_at>>

-----------------------------------------------------------------------------
(***************************************************************************)
(* Connecting                                                              *)
(***************************************************************************)
\* devices() and open(): nothing there, an open that fails, or a handle.
\* History: what an earlier connection did not see stays unseen.
TryConnect ==
  /\ at = "idle" /\ Due(loop.scan_at)
  /\ \/ /\ ~board.powered
        /\ Steps([ResetFailures(loop) EXCEPT !.scan_at = SCAN_INTERVAL])
        /\ UNCHANGED <<board, at, task>>
     \/ /\ board.powered /\ ~CanOpen(board)
        /\ Steps(FailedAttempt(loop, "open"))
        /\ UNCHANGED <<board, at, task>>
     \/ /\ CanOpen(board)
        /\ board' = OpenHandle(board, Watch)
        /\ loop' = [loop EXCEPT !.scan_at = Never, !.last_request_id = 0]
        /\ inexact' = (inexact \/ dropped)
        /\ dropped' = FALSE
        /\ GoTo("info")
        /\ task' = [NoTask EXCEPT !.why = "connect"]
  /\ UNCHANGED left

Attempt(cause) == FinishClosed(FailedAttempt(loop, cause))

ConnectInfo ==
  /\ at = "info"
  /\ \/ Fails /\ Attempt("io")
     \/ /\ Usable(board, Watch) /\ ~board.version_ok
        /\ Attempt("version")
        /\ UNCHANGED left
     \/ /\ Usable(board, Watch) /\ board.version_ok
        /\ Steps([loop EXCEPT !.met = TRUE])
        /\ GoTo("config")
        /\ UNCHANGED <<board, task, left>>

\* Connected, with the configuration in force and the pins a write drove.
\* History: an output of an earlier connection that is none any more has no
\* level to be told of, and drove are the pins that the write did drive.
Connected(config, driven, awaiting, drove) ==
  LET l     == SetConfig([ResetFailures(loop) EXCEPT
                            !.connected = TRUE, !.ever_connected = TRUE,
                            !.awaiting_config = awaiting,
                            !.untold = (@ \cup drove) \cap OutputsMask(config),
                            !.settle_at = IF awaiting THEN SETTLE_TIMEOUT ELSE @],
                         config)
      reset == IF loop.ever_connected THEN OutputsMask(config) ELSE driven
  IN  /\ Steps(TellReset(l, reset))
      /\ GoTo(IF awaiting THEN "idle" ELSE "snapshot")
      /\ task' = NoTask

-----------------------------------------------------------------------------
(***************************************************************************)
(* Reading the pin configuration, and writing the target when it differs.  *)
(* task.why is who asks: "connect", "changed" (after a CONFIG_CHANGED),    *)
(* "restore" or "target" (set_target_pins).                                *)
(***************************************************************************)
Disconnect == FinishClosed(Lost(loop))

\* A transfer that failed: an attempt to connect is given up, a connection
\* is lost, and set_target_pins returns the error and leaves it at that.
TransferFailed(cause) ==
  CASE task.why = "connect" -> Attempt(cause)
    [] task.why = "target"  -> Finish(loop) /\ UNCHANGED board
    [] OTHER                -> Disconnect

\* A PinConfigRejected, of the library itself or of the device.
Rejected ==
  IF task.why = "target"
  THEN Finish([loop EXCEPT !.target = task.previous]) /\ UNCHANGED board
  ELSE Stop

\* set_pin_config up to its first transfer: validation, then a request id.
SetTargetOver(l, found) ==
  IF \A config \in loop.target : Suits(config, Available)
  THEN /\ \E id \in FreshIds(loop.last_request_id) :
            /\ Steps([l EXCEPT !.last_request_id = id])
            /\ task' = [task EXCEPT !.found = found, !.id = id]
       /\ GoTo("send")
       /\ UNCHANGED board
  ELSE Rejected

StartRestore(l) == [l EXCEPT !.restore_at = Never, !.since_restore = 0]

\* Mutated form of ConfigChanged: too early is never.
ConfigChangedForgets(l) ==
  IF \/ loop.target \in {None, Some(l.config)}
     \/ l.since_restore < RESTORE_INTERVAL
  THEN Finish(l)
  ELSE Steps(StartRestore(l)) /\ UNCHANGED at
         /\ task' = [task EXCEPT !.why = "restore"]

\* Mutated form of ConfigChanged: a restoration does not wait.
ConfigChangedAtOnce(l) ==
  IF loop.target \in {None, Some(l.config)} THEN Finish(l)
  ELSE Steps(StartRestore(l)) /\ UNCHANGED at
         /\ task' = [task EXCEPT !.why = "restore"]

\* config_changed: follow the configuration, or write the target back, but
\* not more often than every RESTORE_INTERVAL.
ConfigChanged(l) ==
  IF loop.target \in {None, Some(l.config)} THEN Finish(l)
  ELSE IF l.since_restore < RESTORE_INTERVAL
       THEN Finish([l EXCEPT !.restore_at =
                       RESTORE_INTERVAL - l.since_restore])
  ELSE /\ Steps(StartRestore(l))
       /\ task' = [task EXCEPT !.why = "restore"]
       /\ UNCHANGED at

ReadConfig ==
  /\ at = "config"
  /\ \/ Fails /\ TransferFailed("io")
     \/ /\ Usable(board, Watch)
        /\ LET found == board.config
               l     == SetConfig(loop, found)
               same  == loop.target \in {None, Some(found)}
           IN  CASE task.why = "changed" -> ConfigChanged(l) /\ UNCHANGED board
                 [] task.why = "connect" ->
                      IF same THEN Connected(found, {}, FALSE, {}) /\ UNCHANGED board
                              ELSE SetTargetOver(loop, found)
                 [] OTHER ->
                      IF same THEN Finish(l) /\ UNCHANGED board
                              ELSE SetTargetOver(l, found)
        /\ UNCHANGED left

TheTarget == CHOOSE config \in loop.target : TRUE

Written == WriteConfig(board, EncodePinConfigSet(TheTarget, task.id))

\* History: the pins that the write drives, unless another program wrote
\* since the configuration was read; and reports from before a write are not
\* used, so that a change in one of them may be merged with the next.
SendTarget ==
  /\ at = "send"
  /\ \/ Fails /\ TransferFailed("io")
     \/ /\ Usable(board, Watch)
        /\ board' = Written
        /\ GoTo("verify")
        /\ dropped' = (dropped \/ board'.handles[Watch].gap > 0)
        /\ inexact' = (inexact \/ Reports # <<>>)
        /\ task' = [task EXCEPT !.driven =
                      IF board.config = task.found
                      THEN DrivenOutputs(board.config, board'.config) ELSE {}]
        /\ UNCHANGED <<loop, left>>

\* The readback.  History: once it confirms the write, the pins it drove are
\* to be told.
VerifyTarget ==
  /\ at = "verify"
  /\ \/ Fails /\ TransferFailed("io")
     \/ /\ Usable(board, Watch)
        /\ LET outcome == SetOutcome(PinConfigReport(board), task.id, TheTarget)
               later   == [loop EXCEPT !.restore_at = RESTORE_INTERVAL]
               drove   == [loop EXCEPT !.untold = @ \cup task.driven]
           IN  CASE outcome = "ok" /\ task.why = "connect" ->
                      /\ Connected(TheTarget,
                                   DrivenOutputs(task.found, TheTarget), TRUE,
                                   task.driven)
                      /\ UNCHANGED board
                 [] outcome = "ok" /\ task.why # "connect" ->
                      /\ Finish(Wrote(drove, task.found, TheTarget))
                      /\ UNCHANGED board
                 [] outcome = "rejected" -> Rejected
                 [] outcome = "conflict" /\ task.why # "connect" ->
                      Finish(later) /\ UNCHANGED board
                 [] outcome = "conflict" /\ task.why = "connect" ->
                      Attempt("conflict")
                 [] outcome = "mismatch" -> TransferFailed("mismatch")
        /\ UNCHANGED left

-----------------------------------------------------------------------------
(***************************************************************************)
(* Timers, requests and reports                                            *)
(***************************************************************************)
RestoreDue ==
  /\ at = "idle" /\ ~Due(loop.scan_at) /\ Due(loop.restore_at)
  /\ Steps(StartRestore(loop))
  /\ GoTo("config")
  /\ task' = [NoTask EXCEPT !.why = "restore"]
  /\ UNCHANGED <<board, left>>

\* The CONFIG_CHANGED that was waited for has not come.
SettleDue ==
  /\ at = "idle" /\ ~Due(loop.scan_at) /\ ~Due(loop.restore_at)
  /\ Due(loop.settle_at)
  /\ Steps([loop EXCEPT !.settle_at = Never, !.awaiting_config = FALSE])
  /\ GoTo("snapshot")
  /\ UNCHANGED <<board, task, left>>

\* Mutated form of SnapshotSeq: a snapshot is never a reference.
SnapshotSeqNone(report) == None

\* What a snapshot tells of the reports that come after it.
SnapshotSeq(report) ==
  IF report.seq # 0 /\ "MORE_EVENTS" \notin report.flags
  THEN Some(report.seq) ELSE None

TakeSnapshot ==
  /\ at = "snapshot"
  /\ \/ Fails /\ Disconnect
     \/ /\ Usable(board, Watch)
        /\ LET report == StatusNow(board)
               l      == [loop EXCEPT !.snapshot_seq = SnapshotSeq(report),
                            !.blind = @ \/ (report.seq = 0 /\ Reports # <<>>)]
           IN  Finish(Used(Noticed(l, report), report, FALSE))
        /\ UNCHANGED <<board, left>>

\* set_target_pins: the caller's thread checks the configuration against
\* every GPIO, the loop against the board once it was met.
SetTarget ==
  /\ at = "idle" /\ left.target > 0
  /\ left' = [left EXCEPT !.target = @ - 1]
  /\ \E config \in Targets :
       /\ Suits(config, GPIOS)
       /\ loop.met => Suits(config, Available)
       /\ Steps([loop EXCEPT !.target = Some(config),
                             !.restore_at = IF loop.connected THEN Never ELSE @])
       /\ IF loop.connected
          THEN /\ GoTo("config")
               /\ task' = [NoTask EXCEPT !.why = "target",
                                         !.previous = loop.target]
          ELSE UNCHANGED <<at, task>>
  /\ UNCHANGED board

\* Watcher::set_outputs; an error is the caller's.
SetOutputs ==
  /\ at = "idle" /\ left.outputs > 0
  /\ loop.connected /\ Usable(board, Watch)
  /\ left' = [left EXCEPT !.outputs = @ - 1]
  /\ board' = WriteOutputs(board, GPIOS, GPIOS)
  /\ dropped' = (dropped \/ board'.handles[Watch].gap > 0)
  /\ UNCHANGED <<loop, at, task, inexact>>

NothingDue == \A i \in 1 .. 3 : ~Due(Timers(loop)[i])

ReadReport ==
  /\ at = "idle" /\ loop.connected /\ NothingDue
  /\ \/ ~Usable(board, Watch) /\ Disconnect /\ UNCHANGED left
     \/ /\ Usable(board, Watch) /\ Reports # <<>>
        /\ board' = [board EXCEPT !.handles[Watch].reports = Tail(@)]
        /\ LET report == Head(Reports)
               stale  == IsStale(loop, report)
               l      == Noticed(loop, report)
           IN  IF "CONFIG_CHANGED" \in report.reason
               THEN /\ Steps(l)
                    /\ GoTo("config")
                    /\ task' = [NoTask EXCEPT !.why = "changed",
                                  !.report = Some(report), !.stale = stale]
               ELSE Finish(Used(l, report, stale))
        /\ UNCHANGED left

ThreadStep ==
  \/ TryConnect \/ ConnectInfo \/ ReadConfig \/ SendTarget \/ VerifyTarget
  \/ RestoreDue \/ SettleDue \/ TakeSnapshot \/ ReadReport

-----------------------------------------------------------------------------
(***************************************************************************)
(* The rest of the world                                                   *)
(***************************************************************************)
\* History: a handle that fails or drops a report loses what was in it, and
\* an output pin that was reset after the first connection waits to be told.
Happens(kind, b, reset) ==
  /\ left[kind] > 0
  /\ left' = [left EXCEPT ![kind] = @ - 1]
  /\ board' = b
  /\ loop' = [loop EXCEPT !.untold =
                @ \cup IF loop.ever_connected THEN reset ELSE {}]
  /\ dropped' = (dropped \/ b.handles[Watch].gap > 0)
  /\ UNCHANGED <<at, task>>

Exactly    == UNCHANGED inexact
NotExactly == inexact' = TRUE

\* A change of an input is told exactly when the board and the watcher follow
\* the pin and nothing is going on.
FollowsPin(n) ==
  /\ at = "idle" /\ loop.connected /\ Usable(board, Watch)
  /\ ~loop.awaiting_config
  /\ n \in DOMAIN loop.known /\ IsMonitored(board.config[n])

Inputs ==
  \E n \in Switches :
    LET high == n \notin board.inputs
    IN  \/ /\ Happens("input", SetInput(board, n, high), {})
           /\ IF FollowsPin(n) THEN Exactly ELSE NotExactly
        \/ Happens("lose", LoseInput(board, n, high), {}) /\ NotExactly

PlugIn == ~board.powered /\ Happens("plug", Plug(board), {}) /\ NotExactly

World ==
  /\ board.powered
  /\ \/ Inputs
     \/ /\ Happens("unplug", Unplug(board), OutputsMask(board.config))
        /\ NotExactly
     \/ /\ Happens("bus", Reenumerate(board), OutputsMask(board.config))
        /\ NotExactly
     \/ /\ Happens("bus", Suspend(board), OutputsMask(board.config))
        /\ Exactly
     \/ \E config \in OtherConfigs :
          Happens("other", WritePinConfig(board, config), {}) /\ Exactly
     \/ Happens("skip", SkipReports(board, 1), {}) /\ NotExactly
     \/ Happens("fail", [board EXCEPT !.open_error = ~@], {}) /\ Exactly
     \/ Happens("fail", [board EXCEPT !.version_ok = ~@], {}) /\ Exactly

\* What an ON/OFF should be.
Truth == OnOff(Overrides, board.config, StatusNow(board))

\* The board's periodic report, when it makes a difference: those that do not
\* are left out.
Heartbeat ==
  /\ Usable(board, Watch) /\ Reports = <<>>
  /\ loop.connected /\ ~loop.awaiting_config
  /\ loop.known # Truth \/ board.overflow \/ board.handles[Watch].gap > 0
  /\ board' = Periodic(board)
  /\ UNCHANGED <<loop, at, task, left, dropped, inexact>>

\* Mutated form of Later: a timer that is not set runs, too.
LaterAlways(timer) == timer - 1

\* A tick of every timer that is set; since_restore stops at the interval.
Later(timer) == IF timer > 0 THEN timer - 1 ELSE timer

Tick ==
  /\ at # "stopped"
  /\ \/ \E i \in 1 .. 3 : Timers(loop)[i] > 0
     \/ loop.since_restore < RESTORE_INTERVAL
  /\ loop' = [loop EXCEPT !.scan_at = Later(@), !.restore_at = Later(@),
                          !.settle_at = Later(@),
                          !.since_restore = IF @ < RESTORE_INTERVAL
                                            THEN @ + 1 ELSE @]
  /\ UNCHANGED <<board, at, task, left, dropped, inexact>>

Next ==
  ThreadStep \/ SetTarget \/ SetOutputs \/ World \/ PlugIn \/ Heartbeat \/ Tick

Spec == Init /\ [][Next]_vars

\* The thread is scheduled, the application takes events, time passes, and
\* the board goes on reporting.
Fairness == WF_vars(ThreadStep) /\ WF_vars(Tick) /\ WF_vars(Heartbeat)

FairSpec == Spec /\ Fairness

-----------------------------------------------------------------------------
(***************************************************************************)
(* Properties                                                              *)
(***************************************************************************)
TypeOK ==
  /\ at \in {"idle", "info", "config", "send", "verify", "snapshot", "stopped"}
  /\ task.why \in {"none", "connect", "changed", "restore", "target"}
  /\ loop.config \in ValidConfigs /\ board.config \in ValidConfigs
  /\ DOMAIN loop.known \subseteq GPIOS
  /\ \A timer \in {loop.scan_at, loop.restore_at, loop.settle_at} :
       timer \in {Never} \cup Nat
  /\ loop.snapshot_seq \subseteq 0 .. SEQ_MOD - 1
  /\ loop.counted \in [GPIOS -> Nat]

\* Nothing is going on and nothing is on its way.
Quiet ==
  /\ at = "idle" /\ loop.connected /\ Usable(board, Watch)
  /\ Reports = <<>> /\ board.handles[Watch].gap = 0 /\ ~board.overflow
  /\ ~loop.awaiting_config

\* "Each change is reported exactly once" (docs/HOST_API.md:953), half of it:
\* never more changes than the input made.
EachChangeOnce == \A n \in GPIOS : loop.counted[n] <= board.moved[n]

\* The same where a snapshot with sequence number 0 was not taken over
\* waiting reports: snapshots, stale reports and writes of the
\* configuration never make a change count twice.
NoGhostChange == loop.blind \/ EachChangeOnce

\* The other half: what a watcher that has read everything knows of a pin is
\* true; and it knows every pin and has told each of its changes, unless it
\* forgot a pin, lost a report, or two changes may have merged.
CaughtUp ==
  Quiet /\ loop.config = board.config =>
    /\ \A n \in DOMAIN loop.known :
         n \in DOMAIN Truth /\ loop.known[n] = Truth[n]
    /\ inexact \/ dropped \/
         /\ DOMAIN loop.known = DOMAIN Truth
         /\ \A n \in DOMAIN Truth : loop.counted[n] = board.moved[n]

\* Every output that went back to its initial level since the first
\* connection is told to the application: by a USB suspend or
\* re-enumeration (OUTPUT_RESET in a report, or the reconnection), a loss of
\* power (the reconnection, for the outputs there are then), or a write of
\* the target that its readback confirmed (docs/HOST_API.md:944).  Left out
\* are the writes of other programs, which the application hears of as
\* PinConfigChanged, and the target's write when another program wrote just
\* before or after it: the code then tells the pins that differ from the
\* configuration it read, or none.
ResetTold == Quiet /\ ~dropped => loop.untold = {}

\* "The new target stays and is written again later" (watch.rs:327), and it
\* is written back after another program's write: a connected watcher with
\* nothing left to read has its target on the device or a timer to write it.
TargetPursued ==
  Quiet /\ ~dropped /\ loop.target # None /\ board.config \notin loop.target
    => loop.restore_at # Never

\* A restoration of the target (restore_target) starts at most once per
\* RESTORE_INTERVAL, whatever other programs write, after conflicts, too, and
\* whatever happens to the connection.  What connect() and set_target_pins
\* write themselves is not counted.
RestoresSpaced ==
  [][task.why # "restore" /\ task'.why = "restore"
       => loop.since_restore = RESTORE_INTERVAL]_vars

\* Once the board stays plugged in and usable and no report of the connection
\* was dropped, the watcher connects, catches
\* up and brings the board to its target, or has stopped with an error: no
\* wait for a CONFIG_CHANGED, no retry and no fight with another program
\* that ends lasts for ever.
Follows ==
  /\ Quiet /\ loop.config = board.config /\ loop.known = Truth
  /\ loop.target \in {None, Some(board.config)}

Converges ==
  <>[](CanOpen(board) /\ board.version_ok /\ ~dropped)
    => <>[](Follows \/ at = "stopped")
=============================================================================
