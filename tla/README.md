# A verification of hidpin

hidpin turns a small board (RP2040/RP2350) into a USB HID device with GPIO
pins: the firmware watches input pins, removes chattering, queues edge events
and sends status reports; host libraries in Rust, Go and Python configure the
pins, drive outputs and follow the reports. This directory holds TLA+ modules
of its core logic, TLC runs that check them on small instances, and TLAPS
proofs that hold for every value of the constants. Paths below are relative to
the repository root.

Check a run with `tlc -config <cfg> <module>`, a proof with `tlapm <module>.tla`;
`PROJECT.json` lists the runs, the mutated definitions each property was tried
against, the source lines of every definition, the hazards and the theorems.

## 1. The system

| Part | Where | State | Operations |
|---|---|---|---|
| Protocol core | `firmware/core/src/protocol.c` | none | default pin configuration, validation of a Set, byte layout |
| Debouncer | `firmware/core/src/debounce.c` | per pin: confirmed, raw, pending, time of the last change, debounce time | reset, set_time, edge, poll |
| Event queue | `firmware/core/src/event_queue.c` | ring of 32 events, head, count, overflowed | init, push, peek, drop |
| Engine | `firmware/core/src/engine.c` | configuration, debouncers, queue, published masks, output levels, settle state, reasons to report, sequence numbers | on_edge, resync, task, prepare/commit report, get_status, set/get pin config, output, usb_reset |
| GPIO and edge buffer | `firmware/app/gpio_hw.c` | ring of 256 edges, head, tail, overflow flag; the pins | interrupt handler, pop_edge, take_overflow, hw callbacks |
| Main loop | `firmware/app/main.c` | was_mounted, LED timing | tud_task with its callbacks, drain, resync, task, unmount detection, send report |
| Protocol codec | `rust/src/protocol.rs`, `hidpin/protocol.go`, `python/src/hidpin/protocol.py` | none | encode, decode, validate |
| Device access | `rust/src/device.rs`, `hidpin/device.go`, `python/.../device.py` | request id, last seq | set/get pin config, read_status, set_outputs |
| Watch layer | `rust/src/watch.rs`, `hidpin/watch*.go`, `python/.../watcher.py` | connection, target, known levels, timers; event queue and requests shared with the application | connect, snapshot, status, restore, settle timeout; recv, call, close |
| hidraw backends | `rust/src/hidraw.rs`, `hidpin/internal/hidraw`, `python/.../_hidraw.py` | file descriptors | open, read, write |
| Fake boards, CLI, LED, descriptors, udev rules | see `PROJECT.json` | | |

How they interact:

* The interrupt handler writes the edge buffer at any point of the main loop;
  the main loop pops the edges into `hp_engine_on_edge`, and after an overflow
  hands a reading of all GPIOs to `hp_engine_resync`.
* TinyUSB callbacks run inside `tud_task`, so the engine's entry points never
  interrupt each other. It is not reentrant and need not be.
* The engine drives the GPIOs through the `hp_hw_t` callbacks, queues events,
  and hands over one status report at a time when the endpoint is free.
* A host's Set and Output reports, Gets and the polling of the interrupt
  endpoint come at any time, from any number of hosts' programs.
* A host's Set is two transfers: it writes the configuration with a request id,
  then reads back the result and request id of the last Set of anyone.
* The board puts each status report into the queue of every open handle, where
  a report that finds it full is dropped. A snapshot (Get_Report(Input)) shows
  the present levels and may be ahead of the reports still in the queue.
* In the Rust watch layer one thread owns the device; application threads take
  events from a bounded queue and queue closures for that thread, all under one
  mutex and one condition variable.

What is hard in it: an interrupt against a loop without locks; two bounded
buffers that drop and must make up for it; configuration changes that overlap
each other's settle time, pending debouncing and queued events; reports cut
into parts whose levels must match their events; the wake-ups between the
watcher thread and the application; hosts that interfere with each other
between a write and its readback; reports that arrive late, after a snapshot or
a write that already counted them; waits for a report that may never come.
`PROJECT.json` lists these as hazards with their lines.

What makes each part correct:

* event queue: it is a first-in first-out queue that never overwrites;
* debouncer: no event without a full debounce time of stability, no change forgotten;
* engine: published masks and pins follow the configuration; events, levels
  and flags of the reports are consistent; what changed gets reported, a dropped
  event included, and then only the periodic reports go on;
* edge buffer: no change is lost without a resynchronisation, and the engine
  catches up with the pins;
* watcher: events in order and, before the end of one that failed, complete; no
  lost wake-up, every operation returns;
* validation: the library refuses what the firmware refuses, for the same reason;
* device access: a Set's answer is about that Set, missed reports are counted exactly;
* watch loop: no change counts twice, what is known when everything has been
  read is true, resets of outputs are told, the target is pursued and restored
  no more often than the interval allows, and the watcher comes to follow its board.

## 2. Modules

| Module | Models | Notes |
|---|---|---|
| `Protocol` | masks, modes, results, default configuration, Set validation | a bitmask is a set of GPIO numbers |
| `Debounce` | `debounce.c` | functions from a debounce record to its next value |
| `EdgeFifo` | what callers expect of a bounded queue with an overflow flag | the abstract specification of both rings |
| `EventQueue` | `event_queue.c` | slots, head, count; implements `EdgeFifo` |
| `Engine` | `engine.c` | one action per state-changing entry point, `GetStatus` and `GetPinConfig` as state functions |
| `EngineHistory` | `Engine` with what the host was told | the properties about reports |
| `EngineTiming` | `Engine` with the times of electrical changes | the properties about event times |
| `EdgeBuffer` | `gpio_hw.c` with the loop of `main.c` | interrupt handler and main loop step by step; implements `EdgeFifo` |
| `WatcherChannel` | the shared state of `watch.rs` | watcher thread, receivers, callers, closers |
| `HostProtocol` | `rust/src/protocol.rs` | settings, configurations, the report of a Set, the library's validation |
| `FakeBoard` | `rust/src/testing.rs` | the board as a host meets it: operators from a board to a board |
| `DeviceAccess` | `rust/src/device.rs` | what one `Device` makes of what it reads: operators |
| `PinConfigWriters` | `device.rs` on `testing.rs` | several programs on one board, a step for every transfer |
| `WatchLoop` | `rust/src/watch.rs`, `WatchLoop` | the thread that owns the device, a step for every transfer |
| `ProtocolProofs`, `EngineProofs`, `EventQueueProofs`, `EdgeBufferProofs`, `WatcherProofs`, `DeviceProofs`, `WatchLoopProofs` | | theorems |
| `BoardProofs` | | lemmas about `HostProtocol` and `FakeBoard` that the last two share, and `HostValidationAgrees` |
| `MCEngine`, `MCEngineHistory`, `MCEngineTiming`, `MCPinConfigWriters`, `MCWatchLoop` | | payloads, commands, configurations and scenarios for TLC |

The modules of the host side build on each other: `Protocol` (the firmware's
view), `HostProtocol`, `FakeBoard`, `DeviceAccess`, and on that
`PinConfigWriters` and `WatchLoop`, which compose a board with the programs
that use it. The environment of these two is the library's own test board and
not `Engine`: it is what the library's tests say a board does, in a form small
enough to compose. What it leaves out of the engine (several events in a
report, settling, debouncing) is named below.

`Engine` works on the sequence of `EdgeFifo` and not on the ring; `EventQueue`
shows that the ring behaves as that sequence, and `RingImplementsFifo` proves it
for every size.

Abstractions, and why they keep what matters:

* **Entry points are atomic.** All of them run in the main loop or in
  callbacks of `tud_task`; only the interrupt handler interleaves, and
  `EdgeBuffer` models that step by step.
* **Prepare, hand-over and commit are one action** (`SendStatusReport`):
  `main.c` makes the three calls in a row with one clock reading. A refused
  hand-over leaves staged fields only, which the next prepare rewrites.
* **A poll of all pins pushes its events as one sequence** in the order of the
  loop over the GPIOs (`InGpioOrder`), and a pin that settles is reset before
  the pins are polled, as in `hp_engine_task`.
* **`hp_engine_on_edge` gets a time that may lie back by `MaxEdgeDelay`** and
  never before an earlier edge: the interrupt handler stamps the edge, the main
  loop delivers it later. Edges that repeat the known value are included.
* **Levels read by `hp_engine_task` and `hp_engine_resync` are arbitrary**, so
  the properties of `Engine` need no assumption about the pins.
* **Byte layouts, device info and log output** are left out. A bitmask is a set
  of GPIO numbers and a payload the record of its fields.
* **Every transfer of `Device` is a step** in `PinConfigWriters` and
  `WatchLoop`, and what a call has read so far is in `task`. Anything may happen
  to the board before the next transfer. Between two transfers the code touches
  only its own state, so that a handler is split nowhere else; the guard of the
  next step is the field `at`. A transfer fails when its handle did (unplugged,
  re-enumerated), and in `watch_converges` also by itself.
* **The board of `FakeBoard`** applies a Set at once and sends one event per
  report. Snapshots that show `MORE_EVENTS` therefore do not occur, though
  `SnapshotSeq` and `Used` treat them; that the engine's own reports are
  consistent is what `EngineHistory` checks. Pins in `Floating` follow their
  pull when nothing drives them, which the test board does not do.
* **History variables** of `WatchLoop` count, for each pin, how often its input
  moved and how many changes the application was told, the reports a handle
  dropped, and the outputs whose reset is still to be told (`untold`): those that a
  suspend, a re-enumeration or a loss of power resets, and those a confirmed write
  of the watcher drove. `EngineHistory` remembers what the host was told, and
  whether an event was dropped that no report has announced (`lost`): a confirmed
  level changed and the queue got no event of it. Only properties read them.
* **Time in `WatchLoop`** passes in ticks and a timer is the number of ticks left,
  so that what is due may be late by any number of steps. A cause of failed
  attempts is counted up to two, where it is reported.
* **In `EdgeBuffer`** the SDK dispatcher reads and acknowledges the latched
  edges in one step, then calls the handler; the handler's body is one step
  because the main loop stands still while it runs. `gpio_hw_pop_edge` is two
  steps (copy, move the tail), so the handler can come in between. Of the
  engine only the raw value it knows is kept. Pins that become outputs are not
  modelled there.
* **In `WatcherChannel`** a section under the mutex is one step. The device
  side may connect, lose the connection, set or clear a timer, emit up to
  `MaxEmit` events and stop the watcher with an error in any step where
  `main_loop` lets it. Time is left out: a timer that is set may be due at any
  time, a timed wait may end at any time. A spurious wake-up makes a thread
  look again and is the same as a timeout or no step.

## 3. Runs

| Run | Instance | What it shows |
|---|---|---|
| `queue_ring` | ring of 3, 3 events, drops of up to 4 | the ring is a FIFO for every position of the head |
| `engine_queue` | 2 pins, no debouncing, queue of 3, 2 events per report | `QueueExplainsLevels`, `EventsAlternate`, `ReportsFollow`, `OverflowAnnounced` |
| `engine_pins` | 3 pins, one not available, 5 payloads (2 invalid), 3 commands (1 invalid) | `TypeOK`, `PublishedFollowsConfig`, `HwFollowsConfig`, `QuietMeansTold` |
| `engine_debounce` | 1 pin, debounce times 0, 1 and 2, edges late by up to 1; fair clock, task and reports | `DebounceFollowsConfig`, `EventsAreStable`, `ChangeAnnounced`, `ComesToRest` |
| `edge_buffer` | 2 pins, ring of 3 slots, 4 changes | the ring is a FIFO; `PoppedIsOldest`, `NothingForgotten`, `CatchesUp` |
| `watcher` | 2 receivers, 2 callers, 1 close, room for 1 event, 4 events | `EventsInOrder`, `SleepersHaveNothingToDo`, `EndIsHeardLast`, `CallsReturn`, `ClosesReturn`, `RecvReturns` |
| `pin_config_writers` | 2 programs with the library, 1 without, 2 request ids, handles that hold 1 report | `RepliesAsFirmware`, `SetAnswersForItself`, `MissedIsExact` |
| `watch_loop` | 3 scenarios: without a target, with one, and one whose outputs are reset again and again | `NoGhostChange`, `CaughtUp`, `ResetTold`, `TargetPursued`, `RestoresSpaced` |
| `watch_converges` | 2 scenarios with failing opens, versions and transfers, under fairness | `Converges` |

What the properties of reports, rest and resets say exactly:

* `OverflowAnnounced` is `PROTOCOL.md` 4.5: from the drop of an event until a report
  announces it the queue holds events; the reports in between carry MORE_EVENTS and
  no OVERFLOW; the one that empties the queue carries OVERFLOW, and no report
  does when nothing was dropped since it was last announced.
* `ReportsFollow` leaves out the reports that carry OVERFLOW, whose levels make up
  for the dropped event, and those with CONFIG_CHANGED; the partial reports sent
  while an overflow waits to be announced are included.
* `ComesToRest` does not say that reports stop. The device sends a periodic report
  as long as it runs (`engine.c:169`). Once inputs stop, nothing settles or is
  pending for good, the queue stays empty and no reason comes but PERIODIC; and
  again and again no report is due.
* `EndIsHeardLast` is about watchers that failed; a close of a running watcher
  drops the events that wait.
* `ResetTold` covers a USB suspend or re-enumeration (told by the report, or by the
  reconnection if that report is lost with the handle), a loss of power (told by
  the reconnection, for the outputs of the configuration found then) and the
  watcher's own writes that the readback confirms, from `connect`, a restoration or
  `set_target_pins`, unless another program wrote between the reading of the
  configuration and the Set.
* `RestoresSpaced` counts the starts of `restore_target`. What `connect` writes when
  the device comes back, and `set_target_pins`, are not restorations.
* `RepliesAsFirmware`: the payloads of `pin_config_writers` are refused for their
  length or an output level only; the theorem covers every reason.

Three runs end in a violation, each of a sentence of the documentation:

| Run | What TLC finds |
|---|---|
| `edge_storm` | `engine.h:67`: a resynchronisation makes up for lost edge notifications, every differing pin is treated as changed. If the edge buffer fills and overflows between the pop that finds it empty and `gpio_hw_take_overflow` (255 interrupts in a few instructions on the real board), the resynchronisation comes before older entries, which undo it. |
| `first_report` | `HOST_API.md` 9.6, `watch.rs:755`: each change is reported exactly once. A snapshot with sequence number 0 is not a reference, as 0 is also what a board answers that has sent nothing. If its first report (or one with the wrapped number 0) is sent between the opening and the snapshot, the event in it meets a level that already reflects it, and the opposite change is inferred and told though it never happened. `NoGhostChange` is what does hold: it leaves out the runs in which such a snapshot was taken over waiting reports (`blind`). |
| `failed_target` | `watch.rs:326`, `HOST_API.md` line 941: a target that `set_target_pins` could not write stays and is written again later. When one of its transfers fails by itself, the connection and the new target stay, but `restore_at` was cleared (`watch.rs:976`) and nothing sets it (`watch.rs:977`, `992`): only the next CONFIG_CHANGED or connection writes the target. `TargetIsPursued` is proved for behaviours without such a failure. |

Further departures from the documentation were read from the code and get no run:

* `PROTOCOL.md` 4.4: events are ordered by the time the change started. They are
  queued when they are confirmed (`engine.c:164`), and pins with different
  debounce times overtake each other.
* `PROTOCOL.md` 6.4: until a Set has settled Get_Report(Input) shows the contents
  from before. The level of an output that was and stays published changes at
  once (`engine.c:300`).
* `CONTEXT.md`: the events of a report lead to its levels. A pin with a new pull is
  read afresh while its older events stay queued (`engine.c:100`); a later report
  shows the level these lead to, and the last one takes it back without an
  event. `ReportsFollow` is the property that does hold, for all other pins.
* `PROTOCOL.md` section 8: a new debounce time set while a change is pending also
  moves the start time of its event (`debounce.c:16`).
* `watch.rs:300`: close stops the watcher and closes the device, from any thread. A
  second close at the same time returns before that (`watch.rs:307`); and a close
  of a watcher that had stopped by itself leaves the events not yet taken
  (`watch.rs:501`, against `HOST_API.md` 9.2).
* `watch.rs:693`: a connection given up after a transfer that failed by itself is
  followed by an `OutputsReset` on the next one, though no output was reset.
* `HOST_API.md` line 944: every write that makes pins outputs or changes their initial
  level emits `OutputsReset`. The code tells the pins in which the target differs from
  the configuration it had read (`watch.rs:1005`), and after a conflict none
  (`watch.rs:943`): outputs that only another program's write in between made
  differ, or that a write drove which another one then replaced, are not told.
  `ResetTold` leaves out these writes.
* A CONFIG_CHANGED that finds the queue of its handle full is lost, and with it the
  news of another program's configuration, until the next one or a new
  connection. `CaughtUp`, `ResetTold`, `TargetPursued` and `Converges` leave out
  connections that dropped a report.
* A write of another program that is refused under the request id of a
  watcher's own stops that watcher as rejected (`watch.rs:942`): the readback
  cannot tell them apart, which is also the exception in `SetAnswersForItself`.
* A snapshot that is taken after another program's change and before its
  CONFIG_CHANGED is read tells an `InitialOnOff` by the old polarity; the report
  then makes the watcher read the configuration and forget the pin until the
  next report.

### Bounds

* Pins: two are needed for order and for a pin that disturbs another, a third
  that is not available for validation. Pins do not interact otherwise.
* Queue of 3 with 2 events per report: a report that leaves events, one that
  empties the queue exactly, and an overflow all occur. Queue of 1 elsewhere,
  where the queue is not the question.
* `LastInput` and `MaxNow` end the inputs and the clock: after the last input
  the clock still runs long enough for a settle, a debounce time and, in
  `engine_pins` and `engine_debounce`, a periodic report. `ComesToRest` does not
  rest on the end of the clock: every wait that an input can start is over before
  it, and what a running clock goes on creating, PERIODIC, is allowed for. `US_PER_MS = 1` makes one
  unit of time a millisecond of debounce time.
* `SEQ_MOD` and `ACTIVITY_MOD` are 1 or 2: the wrap is what could matter and
  happens at once. Nothing in the engine reads either value back.
* `MaxChanges` bounds the electrical changes in `EdgeBuffer`: 4 fill the ring
  of two usable slots and leave changes for after the resynchronisation.
  `MaxInWindow` is an assumption on the hardware, not only a bound: fewer
  interrupts than the buffer holds come between the last pop and the look at
  the flag. `edge_storm` shows what happens without it.
* `MaxEvents = 4`, `MaxEmit = 2` and `OUT_CAPACITY = 1` let events wait on both
  sides of the queue and a fatal error come with events in both.

The first settle after boot ends without a report, as `config_changed` is not
set; `QuietMeansTold` therefore does not compare against a report sent in that
first millisecond.

* `pin_config_writers`: two request ids are the least with which ids differ and
  collide; `SEQ_MOD = 3` and `QUEUE_LEN = 1` make numbers wrap and handles drop
  reports within the two Sets and one event that `MaxWrites` and `MaxEvents`
  allow, and `SkipReports` may skip a whole round. The hosts are symmetric. A Set
  with its readback, another program's write in between and something that
  happens to the board fit into these bounds. GPIO 2 is not available, GPIO 1
  floats.
* `watch_loop`: `Scenarios` gives each kind of disturbance a budget, as all of
  them at once are out of reach: two input changes, a lost edge, two foreign
  writes, a skipped report and a reset without a target; a change, two foreign
  writes, a new target and a board that is unplugged and back with one; two
  resets after a plug. One switch, one pin that is mostly an output, one GPIO the
  board does not have. `SEQ_MOD = 18` with `FirstSeq = 16` wraps after two
  reports, and half of 18 is just more than the reports that wait or are dropped
  at a time, as 2^15 is on a board (`InReach` in section 4). The timers are 1, 1 and 2 ticks: `RESTORE_INTERVAL` is longer
  than a settle, so that a late restoration meets both.
* `watch_converges`: the disturbances end, as the antecedent of `Converges` says;
  one failing transfer at any step, opens and versions that fail and recover,
  and a foreign write that is the target itself.
* `first_report`: one input change and `FirstSeq = 0`, a board as it is plugged in.
* `failed_target`: one call of `set_target_pins` and one transfer that fails by
  itself, and nothing else, so that nothing else can be to blame.

### Fairness

* `Engine`: the clock runs, the main loop keeps calling `hp_engine_task`, and a
  due report is eventually taken, which is what a host that polls the endpoint
  gives. Nothing is assumed of edges, Sets, commands or USB resets.
* `EdgeBuffer`: the processor takes pending interrupts and goes on with the
  loop. Pins need not change.
* `WatcherChannel`: the watcher thread is scheduled, and so are threads inside
  recv or close. The application need not take events, call or close, which is
  what makes `CallsReturn` and `ClosesReturn` mean something: they hold with
  the queue full and nobody taking from it.
* `WatchLoop`: the watcher thread takes its next step (which assumes that the
  application takes events, as a full queue makes it wait), the clock runs, and
  the board goes on sending its periodic report. The code gives the first two;
  the third is `PERIODIC_INTERVAL_US` in the firmware. Reports that would change
  nothing are left out of `Heartbeat`. Nothing is assumed of users or other
  programs.

`watcher` does not check deadlock: a watcher that has stopped does nothing more.
Neither do `pin_config_writers`, `watch_loop` and its variants: once their
budgets are used up there may be nothing to do.

## 4. Proofs

All constants are arbitrary within the named assumptions `ProtocolAssumption`,
`DebounceAssumption`, `EngineAssumption`, `RingAssumption`,
`EdgeBufferAssumption`, `WatcherAssumption`,
`BoardAssumption`, `RequestIdAssumption`, `WritersAssumption`, `WatchAssumption`,
which say little more than that sizes are positive numbers, payloads have the
shape of one, overrides are truth values, and the first sequence number is in
range.

| Theorem | Statement |
|---|---|
| `EngineProofs!TypeCorrect` | `Spec => []TypeOK` |
| `EngineProofs!PublishedCorrect` | `Spec => []PublishedFollowsConfig` |
| `EngineProofs!HwCorrect` | `Spec => []HwFollowsConfig` |
| `EngineProofs!DebounceCorrect` | `Spec => []DebounceFollowsConfig` |
| `EngineProofs!QueueExplains` | `HistSpec => []QueueExplainsLevels` |
| `EngineProofs!EventsAreChanges` | `HistSpec => []EventsAlternate` |
| `EngineProofs!QuietDeviceHasTold` | `HistSpec => []QuietMeansTold` |
| `EngineProofs!EachReportFollows` | `HistSpec => ReportsFollow` |
| `EngineProofs!LossesAreAnnounced` | `HistSpec => OverflowAnnounced` |
| `EngineProofs!QueuedEventsAreStable` | `TimingSpec => EventsAreStable` |
| `EventQueueProofs!RingTypeCorrect` | `Spec => []TypeOK` |
| `EventQueueProofs!RingImplementsFifo` | `Spec => ImplementsFifo` |
| `EdgeBufferProofs!EdgeBufferTypeCorrect` | `Spec => []TypeOK` |
| `EdgeBufferProofs!PoppedIsTheOldest` | `Spec => []PoppedIsOldest` |
| `EdgeBufferProofs!EdgeBufferImplementsFifo` | `Spec => ImplementsFifo` |
| `EdgeBufferProofs!NothingIsForgotten` | `Spec => []NothingForgotten`, if `MaxInWindow < EDGE_BUFFER_SIZE` |
| `WatcherProofs!WatcherTypeCorrect` | `Spec => []TypeOK /\ []Phases` |
| `WatcherProofs!NoLostWakeUp` | `Spec => []SleepersHaveNothingToDo` |
| `WatcherProofs!EventsStayInOrder` | `Spec => []EventsInOrder` |
| `WatcherProofs!EndComesLast` | `Spec => []EndIsHeardLast` |
| `BoardProofs!HostValidationAgrees` | the library's validation of any payload is the firmware's |
| `DeviceProofs!BoardRepliesAsFirmware` | `Spec => []RepliesAsFirmware` |
| `DeviceProofs!AnswerOfSet` | `Spec => []SetAnswersForItself` |
| `DeviceProofs!TypesOfWriters` | `Spec => []TypeOK` |
| `DeviceProofs!MissedIsCounted` | `Spec => []MissedIsExact` |
| `WatchLoopProofs!RestorationsAreSpaced` | `Spec => RestoresSpaced` |
| `WatchLoopProofs!ResetsAreTold` | `Spec => []ResetTold` |
| `WatchLoopProofs!TargetIsPursued` | `Spec /\ [][TargetTransferWorks]_vars => []TargetPursued` |
| `WatchLoopProofs!WatchTypes` | `Spec => []TypeOK` |
| `WatchLoopProofs!NoGhostChanges` | `Spec /\ []InReach => []NoGhostChange`, if `Floating = {}` |
| `WatchLoopProofs!WatcherCatchesUp` | `Spec /\ []InReach => []CaughtUp`, if `Floating = {}` |

**Engine.** `TypeOK` is inductive by itself once it says that the configuration
in force is valid: an accepted Set passes `PinConfigDecodeSet`, and a lemma
shows that what passes is in `ValidConfigs`. `PublishedFollowsConfig` is
inductive given the types: a Set leaves the published masks alone but makes
`settle_active` true, and the inputs it adds enter `settling`, so its third
conjunct (inputs that do not settle are published) is what `finish_settle`
needs. `HwFollowsConfig` is inductive with the types. `DebounceFollowsConfig`
needs `PublishedFollowsConfig`: a pin whose pull changes is tracked again only
after `finish_settle` has reset its record with the configuration in force, and a
pin whose time changes keeps its record and gets the new time. That a pin in
`monitored` is tracked only if its mode is an input is where the settle state of
a pin that was an output for a while comes in.

**Reports.** The five properties of what a host is told hold for every queue
size, report size, set of pins and debounce time. Two invariants carry them.
`Stories` says of each monitored pin that its queued events lead from the level
last told to the confirmed level, each turning the one before; it is what
`QueueExplainsLevels` and `EventsAlternate` say, in one formula that grows by an
event of the pin (`StoryGrows`), ignores those of others (`StoryKept`) and loses
its beginning to a report (`StoryShrinks`). A pass of the task takes two steps of
it: first the pins that settle, with no events queued, are told as they are read,
then the ripe changes are pushed, each of which turns a level because of
`DebounceFollowsConfig`; that other inputs were monitored before is
`PublishedFollowsConfig`. `Told` relates the last report to the engine: its
monitored levels are those the queue counts from unless CONFIG_CHANGED is
pending, its outputs are true unless one of their reasons is pending or a change
settles. A quiet device then has an empty queue, so that the levels told are the
confirmed ones. `OverflowAnnounced` rests on two facts: the flag is up exactly when
a loss is unannounced (`Flagged`), for which every step is shown to queue an event
for each level it confirms or to raise the flag, and a flag that is up has events
in the queue (`GapAfterEvents`), since it rises on a full queue only and goes with
the last event. The history variables restrict no step (`HistoryOnlyRecords`), so
the invariants of the engine are at hand.

**Times.** `EventsAreStable` is a property of a step: an event is queued a whole
debounce time after the last change of its pin that the engine was told of. What
it needs to know of the state is `Timed`: the wait of a pending change of a tracked
pin began no earlier than that change. An edge with a late stamp, a
resynchronisation and a Set with another debounce time each keep this, and a poll
queues only what has been pending for the whole debounce time of the configuration
in force (`DebounceFollowsConfig`). A pin that is not tracked is reset before it is
tracked again. One lemma says which events of a step are new: those of a push,
as no step both takes events and adds some.

**Event queue.** The refinement maps the ring to the sequence of what `peek`
returns. The proof has one step per action; the arithmetic of slots modulo the
size is in lemmas of its own.

**Edge buffer.** A push appends to what the ring holds and a pop takes the first
entry (`PushAppends`, `AdvanceRemoves`), which gives the refinement; the pop is two
steps, and `PoppedIsOldest` is what makes its second one right. `NothingForgotten`
is not inductive. `EdgeInv` adds to it: what is latched or in the handler agrees
with the pin unless a newer edge is latched (`Latches`); since the ring was found
empty there are at most as many entries as interrupts (`Room`); and as long as
nothing was dropped since then, the entries lead to the values of all pins,
tracked or not (`Fresh`). A resynchronisation and a pin that is tracked again rest
on `Fresh`, a drop between the last pop and the look at the flag is excluded by
`Room` and the hypothesis, and `edge_storm` shows a behaviour where only the
hypothesis fails. What the engine will know is the level of the last entry of a
pin; the proof speaks of that entry (`Leads`) and shows once that it exists
(`LastPlace`, from the well-ordering of the naturals).

**Watcher.** For any number of threads and events and any capacity. `TypeOK`
holds the bound of the event queue, and needs `Phases`, which ties the shared
flags to the watcher thread: it is finished exactly when the thread has ended,
then owns no event and no request, and sleeps only before its loop. From those,
`SleepersHaveNothingToDo` is inductive: every section that gives a sleeper
something to do notifies. `EventsInOrder` is inductive once `taken <= emitted`
is added (`Ordered`), which a take keeps because the event it takes is the next
one; lemmas say how the sequence of waiting events grows and loses its first.
`EndIsHeardLast` follows: a receiver that heard the end found the watcher finished
and the queue empty, and a watcher that ends with an error has handed over all
its events first. Of a watcher that was closed it says nothing.

**Validation.** Both sides look for the first GPIO with a faulty entry. A lemma
shows that their four checks find fault with the same entries and for the same
reason; the sets of faulty GPIOs are then equal, and so are their least
elements (`LeastOfSet`, from the well-ordering of the naturals). The theorem has
no assumption on the payload, and `BoardRepliesAsFirmware` carries it over to a
board that was written to, with one step for every operation of `FakeBoard`.

**Writers.** `SetAnswersForItself` needs to know what a host that is about to read
back will find: as long as nobody wrote since its Set, the board has its request
id, the result OK and its configuration; otherwise the id on the board is one of
those others wrote (`ReadingBack`). With the fact that what a host sends passed
the validation (`SuitsIsAccepted`) and that only writes and a loss of power
change the answer of a board (`Keeps`), this is inductive; a loss of power fails
the handle first. `TypeOK` needs the handles' reports and the arguments of the
calls typed, too (`TypeInv`), and that an accepted payload is a valid
configuration, a lemma shared with the engine (`DecodeSet`).

**Missed reports.** `MissedIsExact` says that what a program counts from sequence
numbers is what its handle dropped. `GapInv` says why: in a queue each report
comes after the one before it by the number of reports that were dropped in
between, modulo `SEQ_MOD`, and so does the next report of the board after the
last in the queue (`Chain`). Each operation of the board keeps these chains
(`KeepsChains`): a report that finds room carries the gap with it, one that
does not makes the gap grow. A program that reads the first report of its queue then
counts just the gap of that report (`MissedBeforeIsGap`). The property counts a
whole round of dropped reports in one gap as none, as no program can see it.

**Restoration.** `RestoresSpaced` is not inductive: the timer `restore_at` is set in
one step and expires in others. The invariant `Spaced` says that what is left of
it and what has passed since the last restoration make at least one
`RESTORE_INTERVAL` together, so that the time has passed when the timer is due;
a tick takes from one what it gives to the other. Only restorations are counted,
not what a connection or `set_target_pins` writes.

**Resets and target.** Both properties speak of a watcher that has read every
report, and both are invariants only with what waits in the queue of its handle.
`Resets`: while the handle dropped nothing, an output whose reset is still to be
told is in a waiting report that says so; when the connection is lost it stays
untold until the next one tells all outputs. What a write drove is to be told
when the readback confirms it, and `Drives` says that it is among the pins that the
code then tells: those in which the target differs from the configuration that was
read, which is the one the write replaced if nobody else wrote in between.
`Pursues`: while the target is not on
the board, a timer runs or a CONFIG_CHANGED waits, or the thread is on its way
to write it, with what it knows of the board either still true or announced by
a waiting report. That is the argument for the readback, too: between a write and
`verify` any other program may write, and the report about that is what makes
the watcher look again. The board's part is `Evolves`: each of its operations
keeps the waiting reports, and puts one into every open queue that has room
when the configuration changes or outputs are reset. The thread's part is one
lemma for each of its steps, resting on `Phase` (what `at`, `why` and the
connection say of each other) and on lemmas about what each helper of the loop
leaves alone. `TargetTransferWorks` (no transfer of `set_target_pins` fails while
the device stays usable) is a hypothesis on behaviours; `failed_target` shows that
it cannot be left out, and everything else (refused targets, conflicts, failing
transfers of other calls, a board that is unplugged or loses power at any step,
any number of them) is allowed.

**Changes.** `NoGhostChange` and `CaughtUp` are the two halves of "each change is
reported exactly once" (`HOST_API.md` 9.6), and neither is inductive: a change
that is counted now was put into a report long ago, or was lost with one and is
inferred from the levels of a later one. The invariant `StoryInv` says what the
reports that wait, the knowledge of the loop and the board have to do with each
other; TLC found its parts to hold on the scenarios of `watch_loop` before they were
proved:

* `Ghost`: for each pin there is a number of changes, no smaller than what was
  told and as even or odd as what is known of the pin, from which the waiting
  reports lead to the number of changes its input made (`Rides`), where a report
  with an event comes after at least one more change. What `Absorb` tells when
  it reads a report is never more than that report stands for (`ChangeFits`):
  levels that differ from what is known stand for one change, and an event that
  leaves the pin where it was for two, since it is a change, and an even number of
  changes lies between equal levels (`Alternates`).
* `Exact`: while no pin was forgotten, no report dropped and no changes merged,
  each change still to be told has an event of its own (`Climbs`), in a report
  that the loop will use.
* `Known` and `Latest`: when nothing waits, what is known is what the board
  shows; when something does, its last report shows that.
* `Reference`: reports from before the snapshot come first (the first `k`, which
  the loop will shed), and the next one comes after it by no more than the reports
  dropped in between. A snapshot is a story of its own: it is used at once and
  covers all that waits (`StorySnapshot`), except one numbered 0, where nothing
  is shed and `blind` says so.

The report that `main_loop` has in hand while it reads the configuration is the
first of those that wait (`Ahead`). The board's part is `Grows`: every operation
is silent towards the watcher, ends its handle, drops reports or appends one, and
then the change of an input goes with an event or makes the run inexact. Each step
of the loop is a lemma again, and `StoryTrims`, `StoryShed`, `StoryAbsorb` and
`StorySnapshot` are what a step can do to the story.

Two hypotheses are needed. `InReach` says that the numbers of the reports waiting
or dropped since the last one read span less than half of all sequence numbers,
2^15 on a board. Beyond that `status` takes a new report for one from before
the snapshot or an old one for new, as any comparison modulo 2^16 must
(`watch.rs:770`); a handle keeps 64 reports (`testing.rs`), so it would take some
32000 reports dropped in a row. The budgets keep every state of `watch_loop` in
reach, with 8 of 18 numbers at most. `Floating = {}` is the test board of the
repository, whose inputs always have a level of their own. A floating pin follows
its pull when it is configured, so that its level differs without a change of the
input that a history variable could count. `TypeOK` needs neither.

## 5. Model-checked only, and not modelled

Liveness under fairness (`ChangeAnnounced`, `ComesToRest`, `CatchesUp`,
`CallsReturn`, `ClosesReturn`, `RecvReturns`, `Converges`) stays with TLC: the
prover does not handle ENABLED and fairness.

Every invariant and action property that a run finds to hold is also a theorem
above. What `Absorb` computes from a report with several events is not proved: it
folds over the events, and what a fold computes for every length is induction over
data, which the installed provers cannot do. The proofs need it for the reports of
`FakeBoard` only, which have one event or none (`FoldNone`, `FoldOne`). Neither is
it proved that `InReach` holds on a board: that is a matter of how fast its host
reads.

Not modelled:

* hidraw backends, CLI, LED, USB descriptors and udev rules (I/O and tables), the
  byte layouts (shared test vectors cover them), the wording of errors;
* `DeviceClock`, which gives a change its host time: no property here is about
  host times;
* several devices on one bus and the search for one, beyond what a device that is
  there, gone or cannot be opened does to a watcher;
* the Go and Python libraries: the same design as the Rust one, which is the
  reference here; the hand-over of events through Go channels differs;
* a failed hand-over of a report to TinyUSB and the order of the USB callbacks
  inside a pass of the main loop.

## 6. Plan

What is left, in the order of what matters most:

1. `Firmware`: the main loop with its USB callbacks, mount detection, and the
   hand-over split from the commit, on top of `Engine`.
2. `StatusFeed`: the abstract specification of what a host sees of the engine
   (levels, events, flags), with `EngineHistory` and `FakeBoard` shown to
   implement it, so that `WatchLoop` rests on the engine and not on the test
   board.
3. `DeviceClock`: the estimate of device times, against its reference.
4. The Go hand-over of events (`hidpin/watch_events.go`), which differs from
   the Rust one.
5. Proofs: that `FakeBoard` implements `StatusFeed`, with the events of a report as
   a function of the report instead of a fold, so that the story of a watcher's
   reports carries over to reports with several events and `MORE_EVENTS`.
