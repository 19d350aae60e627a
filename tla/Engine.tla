------------------------------- MODULE Engine -------------------------------
(***************************************************************************)
(* The device behaviour of hidpin (firmware/core/src/engine.c): pin        *)
(* configuration, debouncing, the queue of edge events, output levels and  *)
(* the status reports handed to Interrupt IN.                              *)
(*                                                                         *)
(* One action per entry point of engine.h that changes state; the          *)
(* Get_Report entry points are state functions.  The engine is not         *)
(* reentrant, so an entry point is one atomic step.  Time is the           *)
(* microsecond clock of the board; now is its current value and Tick       *)
(* advances it.  hp_engine_prepare_report, the hand-over to TinyUSB and    *)
(* hp_engine_commit_report are one action: the firmware makes the three    *)
(* calls in a row with one clock reading, and a hand-over that fails       *)
(* leaves nothing behind but staged fields that the next prepare rewrites. *)
(***************************************************************************)
EXTENDS Protocol, Debounce, Integers, Sequences

CONSTANTS
  QUEUE_SIZE,            \* HP_EVENT_QUEUE_SIZE (32)
  EVENTS_PER_REPORT,     \* HP_EVENTS_PER_REPORT (7)
  SETTLE_US,             \* HP_SETTLE_US (1000)
  PERIODIC_INTERVAL_US,  \* HP_PERIODIC_INTERVAL_MS in microseconds
  AGE_MAX,               \* UINT32_MAX, where an event's age saturates
  SEQ_MOD,               \* sequence numbers are u16 (65536)
  ACTIVITY_MOD,          \* the activity counter is u32 (2^32)
  Payloads,              \* Set_Report(Feature) payloads the hosts send
  OutputCmds,            \* Output reports the hosts send
  MaxEdgeDelay,          \* how long an edge may wait in the edge buffer
  LastInput,             \* bound: edges and host commands come until then
  MaxNow                 \* bound of the clock

EdgeEvents == [gpio : GPIOS, level : BOOLEAN, start_us : Nat]

ASSUME EngineAssumption ==
  /\ QUEUE_SIZE \in Nat \ {0}
  /\ EVENTS_PER_REPORT \in Nat \ {0}
  /\ SETTLE_US \in Nat
  /\ PERIODIC_INTERVAL_US \in Nat \ {0}
  /\ AGE_MAX \in Nat
  /\ SEQ_MOD \in Nat \ {0}
  /\ ACTIVITY_MOD \in Nat \ {0}
  /\ Payloads \subseteq SetPayloads
  /\ OutputCmds \subseteq [len : Nat, mask : SUBSET GPIOS,
                           value : SUBSET GPIOS]
  /\ MaxEdgeDelay \in Nat
  /\ LastInput \in Nat
  /\ MaxNow \in Nat

VARIABLES
  now,                 \* the clock
  edge_us,             \* the time of the last edge taken from the edge buffer
  hw,                  \* what the hw callbacks last made of each GPIO
  config,              \* latest accepted pin configuration
  result,              \* reply to the last Set_Report(Feature)
  debounce,            \* debounce state of each GPIO
  queue, overflowed,   \* edge events not yet handed to the host
  monitored, outputs,  \* published masks
  reported_levels,     \* levels up to the last event handed to the host
  output_levels,
  settling,            \* inputs waiting for their first read
  settle_active, config_changed, settle_deadline_us,
  activity,
  pending_reasons, next_seq, last_seq, has_sent, last_sent_us

INSTANCE EdgeFifo WITH Events <- EdgeEvents

queueVars  == <<queue, overflowed>>
pinVars    == <<hw, config, output_levels>>
settleVars == <<settling, settle_active, config_changed, settle_deadline_us>>
publishedVars == <<monitored, outputs, reported_levels>>
reportVars == <<next_seq, last_seq, has_sent, last_sent_us>>

vars == <<now, edge_us, pinVars, result, debounce, queueVars, publishedVars,
          settleVars, activity, pending_reasons, reportVars>>

-----------------------------------------------------------------------------
(***************************************************************************)
(* What the hw callbacks make of a GPIO.                                   *)
(***************************************************************************)
HwInputs  == {"nopull", "pullup", "pulldown"}
HwOutputs == {"low", "high"}
HwStates  == HwInputs \cup HwOutputs \cup {"untouched", "unused"}

HwInput(mode) == CASE mode = MODE_INPUT_NOPULL   -> "nopull"
                   [] mode = MODE_INPUT_PULLUP   -> "pullup"
                   [] mode = MODE_INPUT_PULLDOWN -> "pulldown"
HwOutput(level) == IF level THEN "high" ELSE "low"

WriteOutputs(mask, value) ==
  hw' = [n \in GPIOS |-> IF n \in mask THEN HwOutput(n \in value) ELSE hw[n]]

-----------------------------------------------------------------------------
(***************************************************************************)
(* Pins and levels                                                         *)
(***************************************************************************)
ConfirmedLevels == {n \in monitored : debounce[n].confirmed}

TrackedPins(mon, waiting) ==
  {n \in mon \ waiting : ModeIsInput(config[n].mode)}
Tracked == TrackedPins(monitored, settling)

\* The levels after a sequence of edge events.
AfterEvents(levels, events) ==
  LET last(n, i) == /\ events[i].gpio = n
                    /\ \A j \in DOMAIN events : j > i => events[j].gpio # n
  IN  {n \in GPIOS :
         \/ \E i \in DOMAIN events : last(n, i) /\ events[i].level
         \/ n \in levels /\ \A i \in DOMAIN events : events[i].gpio # n}

\* Pushing events counts as activity, dropped or not.
PushEvents(events) ==
  /\ PushAll(events)
  /\ activity' = (activity + Len(events)) % ACTIVITY_MOD

\* The events of E, one per GPIO, in the order of the loops over the GPIOs.
InGpioOrder(E) ==
  {events \in [1 .. Cardinality(E) -> E] :
     /\ {events[i] : i \in DOMAIN events} = E
     /\ \A i, j \in DOMAIN events : i < j => events[i].gpio < events[j].gpio}

EventAge(start_us) == IF start_us >= now THEN 0
                      ELSE Least(now - start_us, AGE_MAX)

-----------------------------------------------------------------------------
(***************************************************************************)
(* hp_engine_init, with the clock at 0.                                    *)
(***************************************************************************)
Init ==
  /\ now = 0
  /\ edge_us = 0
  /\ config = PinConfigDefault
  /\ hw = [n \in GPIOS |-> IF n \in Available THEN HwInput(config[n].mode)
                           ELSE "untouched"]
  /\ result = [result |-> "OK", result_gpio |-> RESULT_GPIO_NONE,
               request_id |-> 0]
  /\ debounce = [n \in GPIOS |-> DebounceZero]
  /\ FifoInit
  /\ monitored = {} /\ outputs = {} /\ reported_levels = {}
  /\ output_levels = {}
  /\ settling = InputMask(config)
  /\ settle_active = TRUE
  /\ config_changed = FALSE
  /\ settle_deadline_us = SETTLE_US
  /\ activity = 0
  /\ pending_reasons = {}
  /\ next_seq = 0 /\ last_seq = 0 /\ has_sent = FALSE
  /\ last_sent_us = 0

(***************************************************************************)
(* hp_engine_on_edge for an edge of a GPIO to the electrical value raw     *)
(* that the interrupt handler stamped with time t.                         *)
(***************************************************************************)
Edge(gpio, raw, t) ==
  IF gpio \notin Tracked THEN UNCHANGED <<debounce, queueVars, activity>>
  ELSE /\ debounce' = [debounce EXCEPT ![gpio] = DebounceEdge(@, raw, t)]
       /\ IF EdgeConfirms(debounce[gpio], raw)
          THEN PushEvents(<<[gpio |-> gpio, level |-> raw, start_us |-> t]>>)
          ELSE UNCHANGED <<queueVars, activity>>

OnEdge(gpio, raw, t) ==
  /\ edge_us <= t /\ t <= now /\ now <= t + MaxEdgeDelay
  /\ Edge(gpio, raw, t)
  /\ edge_us' = t
  /\ UNCHANGED <<now, pinVars, result, publishedVars, settleVars,
                 pending_reasons, reportVars>>

(***************************************************************************)
(* hp_engine_resync after edges were lost: every tracked pin whose raw     *)
(* value differs from the one the engine knew changes now.                 *)
(***************************************************************************)
Resync(raw) ==
  LET differing == {n \in Tracked : (n \in raw) # debounce[n].raw}
      confirmed == {[gpio |-> n, level |-> n \in raw, start_us |-> now] :
                      n \in {m \in differing :
                               EdgeConfirms(debounce[m], m \in raw)}}
  IN  /\ debounce' = [n \in GPIOS |->
                        IF n \in differing
                        THEN DebounceEdge(debounce[n], n \in raw, now)
                        ELSE debounce[n]]
      /\ \E events \in InGpioOrder(confirmed) : PushEvents(events)
      /\ UNCHANGED <<now, edge_us, pinVars, result, publishedVars, settleVars,
                     pending_reasons, reportVars>>

(***************************************************************************)
(* hp_engine_task.  raw is the electrical value finish_settle reads.       *)
(***************************************************************************)
SettleDue == settle_active /\ now >= settle_deadline_us

\* The levels the host counts from: the first read of a pin is no event.
SettledLevels(raw) == (reported_levels \ settling) \cup (raw \cap settling)

FinishSettle(raw) ==
  /\ monitored' = InputMask(config)
  /\ outputs' = OutputMask(config)
  /\ reported_levels' = SettledLevels(raw) \cap InputMask(config)
  /\ settling' = {}
  /\ settle_active' = FALSE
  /\ config_changed' = FALSE
  /\ UNCHANGED settle_deadline_us

\* The debounce records after finish_settle, if it is due.
SettledDebounce(raw) ==
  [n \in GPIOS |-> IF SettleDue /\ n \in settling
                   THEN DebounceReset(n \in raw, config[n].param)
                   ELSE debounce[n]]

\* Mutated form of TaskReasons: only changed masks count as a changed
\* configuration.
TaskReasonsForMasks ==
  IF SettleDue /\ <<monitored, outputs>> # <<InputMask(config), OutputMask(config)>>
  THEN {"CONFIG_CHANGED"} ELSE {}

\* The reasons to report that the passing of time creates.
TaskReasons ==
  (IF SettleDue /\ config_changed THEN {"CONFIG_CHANGED"} ELSE {})
    \cup (IF now - last_sent_us >= PERIODIC_INTERVAL_US
          THEN {"PERIODIC"} ELSE {})

Task(raw) ==
  LET settled == SettledDebounce(raw)
      ripe    == {n \in TrackedPins(monitored', settling') :
                    PollConfirms(settled[n], now)}
      confirmed == {[gpio |-> n, level |-> settled[n].raw,
                     start_us |-> settled[n].last_change_us] : n \in ripe}
  IN  /\ IF SettleDue THEN FinishSettle(raw)
         ELSE UNCHANGED <<publishedVars, settleVars>>
      /\ debounce' = [n \in GPIOS |-> IF n \in ripe
                                      THEN DebouncePoll(settled[n])
                                      ELSE settled[n]]
      /\ \E events \in InGpioOrder(confirmed) : PushEvents(events)
      /\ pending_reasons' = pending_reasons \cup TaskReasons
      /\ UNCHANGED <<now, edge_us, pinVars, result, reportVars>>

-----------------------------------------------------------------------------
(***************************************************************************)
(* Status reports                                                          *)
(***************************************************************************)
Drained == Len(queue) <= EVENTS_PER_REPORT

\* The queued events that go into the next report.
NextEvents == SubSeq(queue, 1, Least(Len(queue), EVENTS_PER_REPORT))

\* Mutated forms of Reflected: only the events count, or never do.
ReflectedByEvents == AfterEvents(reported_levels, NextEvents)
ReflectedConfirmed == ConfirmedLevels

\* The monitored levels as of the last of them; the report that empties the
\* queue also covers the effect of dropped events.
Reflected == IF Drained THEN ConfirmedLevels
             ELSE AfterEvents(reported_levels, NextEvents)

ReportDue == pending_reasons # {} \/ queue # <<>> \/ overflowed

\* An overflow is announced by the report that empties the queue.
ReportFlags == IF ~Drained THEN {"MORE_EVENTS"}
               ELSE IF overflowed THEN {"OVERFLOW"} ELSE {}

\* What hp_engine_prepare_report builds.
StatusReport ==
  [seq          |-> next_seq,
   reason       |-> pending_reasons
                    \cup (IF queue = <<>> THEN {} ELSE {"LEVEL_CHANGED"}),
   flags        |-> ReportFlags,
   monitored    |-> monitored,
   outputs      |-> outputs,
   levels       |-> (Reflected \cap monitored) \cup (output_levels \cap outputs),
   timestamp_us |-> now,
   events       |-> [i \in DOMAIN NextEvents |->
                       [gpio   |-> NextEvents[i].gpio,
                        level  |-> NextEvents[i].level,
                        age_us |-> EventAge(NextEvents[i].start_us)]]]

\* Mutated form of ReasonsLeft: some reasons stay.
ReasonsLeftUncleared == pending_reasons \ {"PERIODIC", "LEVEL_CHANGED"}
ReasonsLeft == pending_reasons \ StatusReport.reason

\* Mutated form of OverflowLeft: every report clears the flag.
OverflowLeftNever == FALSE
\* The flag stays until the report that announces it.
OverflowLeft == overflowed /\ ~Drained

\* hp_engine_prepare_report and, the report being taken, the commit.
SendStatusReport ==
  /\ ReportDue
  /\ DropFirst(Len(NextEvents))
  /\ overflowed' = OverflowLeft
  /\ reported_levels' = Reflected \cap monitored
  /\ pending_reasons' = ReasonsLeft
  /\ last_seq' = next_seq
  /\ next_seq' = (next_seq + 1) % SEQ_MOD
  /\ has_sent' = TRUE
  /\ last_sent_us' = now
  /\ UNCHANGED <<now, edge_us, pinVars, result, debounce, monitored, outputs,
                 settleVars, activity>>

\* hp_engine_get_status, the reply to Get_Report(Input).
GetStatus ==
  [seq          |-> IF has_sent THEN last_seq ELSE 0,
   reason       |-> {"HOST_REQUEST"},
   flags        |-> IF queue # <<>> THEN {"MORE_EVENTS"} ELSE {},
   monitored    |-> monitored,
   outputs      |-> outputs,
   levels       |-> ConfirmedLevels \cup (output_levels \cap outputs),
   timestamp_us |-> now,
   events       |-> <<>>]

\* hp_engine_get_pin_config, the reply to Get_Report(Feature).
GetPinConfig == [reply |-> result, config |-> config]

-----------------------------------------------------------------------------
(***************************************************************************)
(* The GPIOs whose entry differs from the configuration in force, by what  *)
(* becomes of them: an input with another debounce time, an input with     *)
(* another pull or that was none, an output, and unused.                   *)
(***************************************************************************)
Changed(next)  == {n \in GPIOS : config[n] # next[n]}
Retimed(next)  == {n \in Changed(next) \cap InputMask(next) :
                     config[n].mode = next[n].mode}
Repulled(next) == (Changed(next) \cap InputMask(next)) \ Retimed(next)
Driven(next)   == Changed(next) \cap OutputMask(next)
Released(next) == (Changed(next) \ InputMask(next)) \ OutputMask(next)

\* Mutated form of SettlingAfter: a pin that stops being an input waits on.
SettlingKept(next) == settling \cup Repulled(next)

SettlingAfter(next) ==
  (settling \cup Repulled(next)) \ (Driven(next) \cup Released(next))

\* hp_engine_set_pin_config with an accepted payload that changes something.
ApplyPinConfig(next) ==
  /\ debounce' = [n \in GPIOS |->
                    IF n \in Retimed(next)
                    THEN DebounceSetTime(debounce[n], next[n].param, now)
                    ELSE debounce[n]]
  /\ hw' = [n \in GPIOS |->
              CASE n \in Repulled(next) -> HwInput(next[n].mode)
                [] n \in Driven(next)   -> HwOutput(next[n].param # 0)
                [] n \in Released(next) -> "unused"
                [] OTHER                -> hw[n]]
  /\ settling' = SettlingAfter(next)
  /\ output_levels' = (output_levels \ Changed(next))
                        \cup (Driven(next) \cap InitialOutputLevels(next))
  /\ config' = next
  /\ config_changed' = TRUE
  /\ settle_active' = TRUE
  /\ settle_deadline_us' = now + SETTLE_US

SetPinConfig(p) ==
  LET reply == PinConfigDecodeSet(p)
  IN  /\ result' = reply
      /\ IF reply.result = "OK" /\ Changed(p.pins) # {}
         THEN ApplyPinConfig(p.pins)
         ELSE UNCHANGED <<pinVars, debounce, settleVars>>
      /\ UNCHANGED <<now, edge_us, queueVars, publishedVars, activity,
                     pending_reasons, reportVars>>

\* Mutated form of OutputTarget: the outputs as last published.
OutputTargetPublished(cmd) == cmd.mask \cap outputs
OutputTarget(cmd) == cmd.mask \cap OutputMask(config)

\* hp_engine_output; a command of any other length is ignored altogether.
Output(cmd) ==
  LET target == OutputTarget(cmd)
  IN  /\ cmd.len = OUTPUT_PAYLOAD_LEN
      /\ output_levels' = (output_levels \ target) \cup (cmd.value \cap target)
      /\ WriteOutputs(target, cmd.value)
      /\ activity' = (activity + 1) % ACTIVITY_MOD
      /\ pending_reasons' = pending_reasons \cup {"OUTPUT_APPLIED"}
      /\ UNCHANGED <<now, edge_us, config, result, debounce, queueVars,
                     publishedVars, settleVars, reportVars>>

\* hp_engine_usb_reset: disconnection, suspend or bus reset.
UsbReset ==
  LET driven == OutputMask(config)
      levels == InitialOutputLevels(config)
  IN  /\ driven # {}
      /\ output_levels' = (output_levels \ driven) \cup levels
      /\ WriteOutputs(driven, levels)
      /\ pending_reasons' = pending_reasons \cup {"OUTPUT_RESET"}
      /\ UNCHANGED <<now, edge_us, config, result, debounce, queueVars,
                     publishedVars, settleVars, activity, reportVars>>

Tick ==
  /\ now < MaxNow
  /\ now' = now + 1
  /\ UNCHANGED <<edge_us, pinVars, result, debounce, queueVars, publishedVars,
                 settleVars, activity, pending_reasons, reportVars>>

-----------------------------------------------------------------------------
\* What the pins, the hosts and USB do to the engine, until LastInput.
Input ==
  /\ now <= LastInput
  /\ \/ \E n \in GPIOS, raw \in BOOLEAN, t \in 0 .. now : OnEdge(n, raw, t)
     \/ \E raw \in SUBSET GPIOS : Resync(raw)
     \/ \E p \in Payloads : SetPinConfig(p)
     \/ \E cmd \in OutputCmds : Output(cmd)
     \/ UsbReset

Step == (\E raw \in SUBSET settling : Task(raw)) \/ SendStatusReport \/ Tick

Next == Input \/ Step

Spec == Init /\ [][Next]_vars

(***************************************************************************)
(* The clock runs, the main loop keeps calling hp_engine_task, and a       *)
(* report that is due is eventually taken by the USB stack: the host polls *)
(* the Interrupt IN endpoint.  Nothing is assumed of the inputs.           *)
(***************************************************************************)
Fairness ==
  /\ WF_vars(Tick)
  /\ WF_vars(\E raw \in SUBSET settling : Task(raw))
  /\ WF_vars(SendStatusReport)
-----------------------------------------------------------------------------
(***************************************************************************)
(* Types.                                                                  *)
(***************************************************************************)
TypeOK ==
  /\ now \in 0 .. MaxNow
  /\ edge_us \in 0 .. now
  /\ hw \in [GPIOS -> HwStates]
  /\ config \in ValidConfigs
  /\ result \in [result : Results, result_gpio : GPIOS \cup {RESULT_GPIO_NONE},
                 request_id : 0 .. 255]
  /\ debounce \in [GPIOS -> Debouncers]
  /\ FifoTypeOK
  /\ monitored \subseteq GPIOS /\ outputs \subseteq GPIOS
  /\ reported_levels \subseteq GPIOS /\ output_levels \subseteq GPIOS
  /\ settling \subseteq GPIOS
  /\ settle_active \in BOOLEAN /\ config_changed \in BOOLEAN
  /\ settle_deadline_us \in Nat
  /\ activity \in 0 .. ACTIVITY_MOD - 1
  /\ pending_reasons \subseteq Reasons
  /\ next_seq \in 0 .. SEQ_MOD - 1 /\ last_seq \in 0 .. SEQ_MOD - 1
  /\ has_sent \in BOOLEAN
  /\ last_sent_us \in 0 .. now

(***************************************************************************)
(* The published masks are those of the configuration in force, except     *)
(* while a change of it settles; until then a pin waits for its first read *)
(* only if it is an input, and every other input has been published.       *)
(* set_pin_config and finish_settle share this between them over any       *)
(* number of changes in a row, each restarting the wait.                   *)
(***************************************************************************)
PublishedFollowsConfig ==
  /\ ~settle_active => /\ settling = {} /\ ~config_changed
                       /\ monitored = InputMask(config)
                       /\ outputs = OutputMask(config)
  /\ settling \subseteq InputMask(config)
  /\ InputMask(config) \ settling \subseteq monitored

(***************************************************************************)
(* The GPIOs are driven as the configuration and output_levels say: a pin  *)
(* outside the available ones is never touched, an input is never driven,  *)
(* and an output carries the level that status reports and Get_Report      *)
(* claim for it, whatever mix of configuration changes, output commands    *)
(* and USB resets came before.                                             *)
(***************************************************************************)
HwFollowsConfig ==
  /\ output_levels \subseteq OutputMask(config)
  /\ \A n \in GPIOS :
       /\ n \notin Available => hw[n] = "untouched"
       /\ ModeIsInput(config[n].mode) => hw[n] = HwInput(config[n].mode)
       /\ config[n].mode = MODE_OUTPUT => hw[n] = HwOutput(n \in output_levels)
       /\ config[n].mode = MODE_UNUSED => hw[n] \in {"untouched", "unused"}

(***************************************************************************)
(* Debouncing of a tracked pin: a change is pending exactly while the      *)
(* electrical value differs from the confirmed level, so no change is      *)
(* forgotten and none waits for nothing; and it waits for the debounce     *)
(* time of the configuration in force, even if that was set while the pin  *)
(* settled or while a change was pending.                                  *)
(***************************************************************************)
DebounceFollowsConfig ==
  \A n \in Tracked :
    /\ debounce[n].pending <=> debounce[n].raw # debounce[n].confirmed
    /\ debounce[n].debounce_us = config[n].param * US_PER_MS

(***************************************************************************)
(* Every accepted change of the configuration comes to be announced, even  *)
(* when further changes keep restarting the wait for as long as inputs     *)
(* come.                                                                   *)
(***************************************************************************)
ChangeAnnounced ==
  config_changed ~> (~config_changed /\ "CONFIG_CHANGED" \in pending_reasons)

(***************************************************************************)
(* Once the inputs stop the device comes to rest: no change is pending     *)
(* that is never confirmed, no configuration settles for ever, the queue   *)
(* drains, the overflow flag clears, and no reason to report stays but the *)
(* one that time creates again and again; and that one is served, too:     *)
(* reports never become due faster than the host takes them.               *)
(***************************************************************************)
AtRest ==
  /\ ~settle_active
  /\ \A n \in Tracked : ~debounce[n].pending
  /\ queue = <<>> /\ ~overflowed
  /\ pending_reasons \subseteq {"PERIODIC"}

ComesToRest == <>[]AtRest /\ []<>~ReportDue
=============================================================================
