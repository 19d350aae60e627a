---------------------------- MODULE EngineProofs ----------------------------
(***************************************************************************)
(* The engine's type correctness and its safety invariants, for every      *)
(* value of the constants, and the lemmas on the operators it is built     *)
(* from.  Each invariant is inductive together with the type invariant and *)
(* the invariants proved before it.                                        *)
(*                                                                         *)
(* After the state of the engine comes what its queue of edge events tells *)
(* of each pin, for every size of the queue and of a report and for any    *)
(* debounce times: the events of a pin alternate, starting away from the   *)
(* level the host was last told, and end at the pin's confirmed level.     *)
(* Last come the times at which events are queued.                         *)
(***************************************************************************)
EXTENDS EngineHistory, EngineTiming, ProtocolProofs, TLAPS, FiniteSetTheorems,
        SequenceTheorems

-----------------------------------------------------------------------------
(***************************************************************************)
(* The queue                                                               *)
(***************************************************************************)

(***************************************************************************)
(* What pushing a sequence of events onto the queue does: it keeps what is *)
(* there, appends as many as fit, and notes whether some did not.          *)
(***************************************************************************)
LEMMA Pushed ==
  ASSUME QUEUE_SIZE \in Nat, FifoTypeOK,
         NEW events \in Seq(EdgeEvents), PushAll(events)
  PROVE  /\ FifoTypeOK'
         /\ Len(queue') = Least(Len(queue) + Len(events), QUEUE_SIZE)
         /\ Len(queue) <= Len(queue')
         /\ \A i \in 1 .. Len(queue) : queue'[i] = queue[i]
         /\ \A i \in Len(queue) + 1 .. Len(queue') :
              queue'[i] = events[i - Len(queue)]
         /\ overflowed' <=> overflowed \/ Len(queue) + Len(events) > QUEUE_SIZE
<1> DEFINE whole == queue \o events
           n == Least(Len(queue) + Len(events), QUEUE_SIZE)
<1>1. /\ queue \in Seq(EdgeEvents) /\ Len(queue) \in Nat
      /\ Len(events) \in Nat /\ Len(queue) <= QUEUE_SIZE
  BY LenProperties DEF FifoTypeOK
<1>2. /\ whole \in Seq(EdgeEvents)
      /\ Len(whole) = Len(queue) + Len(events)
      /\ \A i \in 1 .. Len(queue) + Len(events) :
           whole[i] = IF i <= Len(queue) THEN queue[i] ELSE events[i - Len(queue)]
  BY <1>1, ConcatProperties
<1>3. n \in Nat /\ n <= Len(whole) /\ n <= QUEUE_SIZE /\ Len(queue) <= n
  BY <1>1, <1>2 DEF Least
<1>4. \A i \in 1 .. n : whole[i] \in EdgeEvents
  BY <1>2, <1>3, ElementOfSeq
<1>5. queue' = SubSeq(whole, 1, n)
  BY DEF PushAll
<1>6. /\ queue' \in Seq(EdgeEvents)
      /\ Len(queue') = n
      /\ \A i \in 1 .. n : queue'[i] = whole[i]
  <2> HIDE DEF whole, n
  <2>1. /\ SubSeq(whole, 1, n) \in Seq(EdgeEvents)
        /\ Len(SubSeq(whole, 1, n)) = IF 1 <= n THEN n - 1 + 1 ELSE 0
        /\ \A i \in 1 .. n - 1 + 1 : SubSeq(whole, 1, n)[i] = whole[1 + i - 1]
    BY <1>3, <1>4, SubSeqProperties
  <2> QED
    BY <1>3, <1>5, <2>1
<1>7. \A i \in 1 .. n : queue'[i] = IF i <= Len(queue) THEN queue[i]
                                    ELSE events[i - Len(queue)]
  BY <1>1, <1>2, <1>3, <1>6
<1>8. overflowed' <=> overflowed \/ Len(queue) + Len(events) > QUEUE_SIZE
  BY DEF PushAll
<1> HIDE DEF whole, n
<1>9. FifoTypeOK'
  BY <1>1, <1>3, <1>6, Zenon DEF FifoTypeOK, PushAll
<1> QED
  BY <1>1, <1>3, <1>6, <1>7, <1>8, <1>9 DEF n

\* What handing the first events to the host leaves in the queue.
LEMMA Dropped ==
  ASSUME FifoTypeOK, NEW n \in Nat, n <= Len(queue), DropFirst(n)
  PROVE  /\ queue' \in Seq(EdgeEvents)
         /\ Len(queue') = Len(queue) - n
         /\ \A i \in 1 .. Len(queue') : queue'[i] = queue[n + i]
<1>1. /\ queue \in Seq(EdgeEvents) /\ Len(queue) \in Nat
  BY LenProperties DEF FifoTypeOK
<1>2. queue' = SubSeq(queue, n + 1, Len(queue))
  BY <1>1 DEF DropFirst, Least
<1>3. \A i \in n + 1 .. Len(queue) : queue[i] \in EdgeEvents
  BY <1>1, ElementOfSeq
<1>4. /\ queue' \in Seq(EdgeEvents)
      /\ Len(queue') = IF n + 1 <= Len(queue) THEN Len(queue) - (n + 1) + 1 ELSE 0
      /\ \A i \in 1 .. Len(queue) - (n + 1) + 1 : queue'[i] = queue[n + 1 + i - 1]
  BY <1>1, <1>2, <1>3, SubSeqProperties
<1> QED
  BY <1>1, <1>4

(***************************************************************************)
(* The events of a set with one event per GPIO, put in the order of their  *)
(* GPIOs, are a sequence with every event of the set in it.                *)
(***************************************************************************)
LEMMA Ordered ==
  ASSUME GPIO_COUNT \in Nat, NEW E \in SUBSET EdgeEvents,
         \A e, f \in E : e.gpio = f.gpio => e = f,
         NEW events \in InGpioOrder(E)
  PROVE  /\ events \in Seq(EdgeEvents) /\ Len(events) \in Nat
         /\ DOMAIN events = 1 .. Len(events)
         /\ {events[i] : i \in 1 .. Len(events)} = E
         /\ \A i, j \in 1 .. Len(events) :
              i < j => events[i].gpio < events[j].gpio
<1> DEFINE f == [e \in E |-> e.gpio]
<1>1. IsFiniteSet(GPIOS)
  BY FS_Interval DEF GPIOS
<1>2. f \in Injection(E, GPIOS)
  BY DEF Injection, IsInjective, EdgeEvents
<1>3. IsFiniteSet(E)
  BY <1>1, <1>2, FS_Injection
<1>4. Cardinality(E) \in Nat
  BY <1>3, FS_CardinalityType
<1>5. events \in [1 .. Cardinality(E) -> E]
  BY DEF InGpioOrder
<1>6. events \in Seq(EdgeEvents) /\ Len(events) = Cardinality(E)
  BY <1>4, <1>5
<1> QED
  BY <1>4, <1>5, <1>6 DEF InGpioOrder

-----------------------------------------------------------------------------
(***************************************************************************)
(* Types                                                                   *)
(***************************************************************************)

\* The operations on a debounce record yield a debounce record.
LEMMA DebounceTypes ==
  ASSUME DebounceAssumption, NEW d \in Debouncers
  PROVE  /\ \A raw \in BOOLEAN, t \in Nat : DebounceEdge(d, raw, t) \in Debouncers
         /\ \A ms \in 0 .. 255, t \in Nat : DebounceSetTime(d, ms, t) \in Debouncers
         /\ DebouncePoll(d) \in Debouncers
<1>1. \A ms \in 0 .. 255 : ms * US_PER_MS \in Nat
  BY DEF DebounceAssumption
<1> QED
  BY <1>1 DEF DebounceAssumption, Debouncers, DebounceEdge, DebounceSetTime,
              DebouncePoll, EdgeConfirms

LEMMA DebounceResetType ==
  ASSUME DebounceAssumption, NEW level \in BOOLEAN, NEW ms \in 0 .. 255
  PROVE  DebounceReset(level, ms) \in Debouncers
<1>1. ms * US_PER_MS \in Nat
  BY DEF DebounceAssumption
<1> QED
  BY <1>1 DEF Debouncers, DebounceReset

\* A default pin configuration is valid.
LEMMA DefaultIsValid ==
  ASSUME ProtocolAssumption
  PROVE  PinConfigDefault \in ValidConfigs
BY DEF ProtocolAssumption, PinConfigDefault, ValidConfigs, PinConfigs, Modes,
       MODE_INPUT_PULLUP, MODE_UNUSED, MODE_OUTPUT

\* Pushing events keeps the types of what it changes.
LEMMA PushEventsTypes ==
  ASSUME EngineAssumption, TypeOK, NEW events \in Seq(EdgeEvents),
         PushEvents(events)
  PROVE  FifoTypeOK' /\ activity' \in 0 .. ACTIVITY_MOD - 1
<1>1. PushAll(events) /\ activity' = (activity + Len(events)) % ACTIVITY_MOD
  BY DEF PushEvents
<1>2. FifoTypeOK'
  BY <1>1, Pushed DEF EngineAssumption, TypeOK
<1>3. activity + Len(events) \in Nat
  BY LenProperties DEF TypeOK, EngineAssumption
<1> QED
  BY <1>1, <1>2, <1>3 DEF EngineAssumption

\* The queue of one edge of one pin.
LEMMA EdgeTypes ==
  ASSUME EngineAssumption, DebounceAssumption, TypeOK,
         NEW gpio \in GPIOS, NEW raw \in BOOLEAN, NEW t \in Nat,
         Edge(gpio, raw, t)
  PROVE  /\ debounce' \in [GPIOS -> Debouncers]
         /\ FifoTypeOK' /\ activity' \in 0 .. ACTIVITY_MOD - 1
         /\ \/ UNCHANGED queueVars
            \/ \E events \in Seq(EdgeEvents) : PushEvents(events)
<1>1. CASE gpio \notin Tracked
  BY <1>1 DEF Edge, TypeOK, queueVars, FifoTypeOK
<1>2. CASE gpio \in Tracked
  <2>1. debounce' = [debounce EXCEPT ![gpio] = DebounceEdge(@, raw, t)]
    BY <1>2 DEF Edge
  <2>2. DebounceEdge(debounce[gpio], raw, t) \in Debouncers
    BY DebounceTypes DEF TypeOK
  <2>3. debounce' \in [GPIOS -> Debouncers]
    BY <2>1, <2>2 DEF TypeOK
  <2>4. CASE EdgeConfirms(debounce[gpio], raw)
    <3>1. <<[gpio |-> gpio, level |-> raw, start_us |-> t]>> \in Seq(EdgeEvents)
      BY DEF EdgeEvents
    <3>2. PushEvents(<<[gpio |-> gpio, level |-> raw, start_us |-> t]>>)
      BY <1>2, <2>4 DEF Edge
    <3> QED
      BY <2>3, <3>1, <3>2, PushEventsTypes
  <2>5. CASE ~EdgeConfirms(debounce[gpio], raw)
    BY <1>2, <2>3, <2>5 DEF Edge, TypeOK, queueVars, FifoTypeOK
  <2> QED
    BY <2>4, <2>5
<1> QED
  BY <1>1, <1>2

\* The resynchronisation of all tracked pins.
LEMMA ResyncTypes ==
  ASSUME EngineAssumption, ProtocolAssumption, DebounceAssumption, TypeOK,
         NEW raw \in SUBSET GPIOS, Resync(raw)
  PROVE  /\ debounce' \in [GPIOS -> Debouncers]
         /\ FifoTypeOK' /\ activity' \in 0 .. ACTIVITY_MOD - 1
         /\ \E events \in Seq(EdgeEvents) : PushEvents(events)
<1> DEFINE differing == {n \in Tracked : (n \in raw) # debounce[n].raw}
           S == {m \in differing : EdgeConfirms(debounce[m], m \in raw)}
           E == {[gpio |-> n, level |-> n \in raw, start_us |-> now] : n \in S}
<1>1. now \in Nat
  BY DEF TypeOK
<1>2. debounce' \in [GPIOS -> Debouncers]
  <2>1. debounce' = [n \in GPIOS |-> IF n \in differing
                                     THEN DebounceEdge(debounce[n], n \in raw, now)
                                     ELSE debounce[n]]
    BY DEF Resync
  <2>2. \A n \in GPIOS : DebounceEdge(debounce[n], n \in raw, now) \in Debouncers
    <3> TAKE n \in GPIOS
    <3>1. (n \in raw) \in BOOLEAN
      OBVIOUS
    <3>2. debounce[n] \in Debouncers
      BY DEF TypeOK
    <3> QED
      BY <1>1, <3>1, <3>2, DebounceTypes
  <2> QED
    BY <2>1, <2>2 DEF TypeOK
<1>3. S \subseteq GPIOS
  BY DEF TypeOK, Tracked, TrackedPins
<1>4. E \in SUBSET EdgeEvents /\ \A e, f \in E : e.gpio = f.gpio => e = f
  <2> HIDE DEF S
  <2>1. \A n \in S : (n \in raw) \in BOOLEAN
    OBVIOUS
  <2>2. \A n \in S : [gpio |-> n, level |-> n \in raw, start_us |-> now] \in EdgeEvents
    BY <1>1, <1>3, <2>1 DEF EdgeEvents
  <2>3. \A e \in E : e = [gpio |-> e.gpio, level |-> e.gpio \in raw, start_us |-> now]
    OBVIOUS
  <2> QED
    BY <2>2, <2>3
<1>5. PICK events \in InGpioOrder(E) : PushEvents(events)
  BY DEF Resync
<1> HIDE DEF E
<1>6. events \in Seq(EdgeEvents)
  BY <1>4, Ordered DEF ProtocolAssumption
<1> QED
  BY <1>2, <1>5, <1>6, PushEventsTypes

\* A pass of hp_engine_task: what settles and what is confirmed.
LEMMA TaskTypes ==
  ASSUME EngineAssumption, ProtocolAssumption, DebounceAssumption, TypeOK,
         NEW raw \in SUBSET settling, Task(raw)
  PROVE  /\ monitored' \subseteq GPIOS /\ outputs' \subseteq GPIOS
         /\ reported_levels' \subseteq GPIOS /\ settling' \subseteq GPIOS
         /\ settle_active' \in BOOLEAN /\ config_changed' \in BOOLEAN
         /\ settle_deadline_us' \in Nat
         /\ debounce' \in [GPIOS -> Debouncers]
         /\ FifoTypeOK' /\ activity' \in 0 .. ACTIVITY_MOD - 1
         /\ \E events \in Seq(EdgeEvents) : PushEvents(events)
<1> DEFINE settled == SettledDebounce(raw)
           ripe == {n \in TrackedPins(monitored', settling') :
                      PollConfirms(settled[n], now)}
           E == {[gpio |-> n, level |-> settled[n].raw,
                  start_us |-> settled[n].last_change_us] : n \in ripe}
<1>1. /\ monitored' \subseteq GPIOS /\ outputs' \subseteq GPIOS
      /\ reported_levels' \subseteq GPIOS /\ settling' \subseteq GPIOS
      /\ settle_active' \in BOOLEAN /\ config_changed' \in BOOLEAN
      /\ settle_deadline_us' \in Nat
  <2>1. CASE SettleDue
    <3>1. FinishSettle(raw)
      BY <2>1 DEF Task
    <3>2. /\ InputMask(config) \subseteq GPIOS /\ OutputMask(config) \subseteq GPIOS
          /\ settle_deadline_us \in Nat
      BY DEF InputMask, OutputMask, TypeOK
    <3> QED
      BY <3>1, <3>2 DEF FinishSettle
  <2>2. CASE ~SettleDue
    <3>1. UNCHANGED <<monitored, outputs, reported_levels, settling, settle_active,
                      config_changed, settle_deadline_us>>
      BY <2>2 DEF Task, publishedVars, settleVars
    <3> QED
      BY <3>1 DEF TypeOK
  <2> QED
    BY <2>1, <2>2
<1>2. settled \in [GPIOS -> Debouncers]
  <2>1. ASSUME NEW n \in GPIOS
        PROVE  DebounceReset(n \in raw, config[n].param) \in Debouncers
    <3>1. (n \in raw) \in BOOLEAN
      OBVIOUS
    <3>2. config[n].param \in 0 .. 255
      BY DEF TypeOK, ValidConfigs, PinConfigs
    <3> QED
      BY <3>1, <3>2, DebounceResetType
  <2>2. \A n \in GPIOS : debounce[n] \in Debouncers
    BY DEF TypeOK
  <2> QED
    BY <2>1, <2>2 DEF SettledDebounce
<1>3. debounce' \in [GPIOS -> Debouncers]
  <2>1. debounce' = [n \in GPIOS |-> IF n \in ripe THEN DebouncePoll(settled[n])
                                     ELSE settled[n]]
    BY DEF Task
  <2>2. \A n \in GPIOS : DebouncePoll(settled[n]) \in Debouncers
    BY <1>2, DebounceTypes
  <2> HIDE DEF settled, ripe
  <2> QED
    BY <1>2, <2>1, <2>2
<1>4. ripe \subseteq GPIOS
  BY <1>1 DEF TrackedPins
<1>5. E \in SUBSET EdgeEvents /\ \A e, f \in E : e.gpio = f.gpio => e = f
  <2> HIDE DEF ripe, settled
  <2>1. \A n \in ripe : [gpio |-> n, level |-> settled[n].raw,
                         start_us |-> settled[n].last_change_us] \in EdgeEvents
    BY <1>2, <1>4 DEF EdgeEvents, Debouncers
  <2>2. \A e \in E : e = [gpio |-> e.gpio, level |-> settled[e.gpio].raw,
                          start_us |-> settled[e.gpio].last_change_us]
    OBVIOUS
  <2> QED
    BY <2>1, <2>2
<1>6. PICK events \in InGpioOrder(E) : PushEvents(events)
  BY DEF Task
<1> HIDE DEF E
<1>7. events \in Seq(EdgeEvents)
  BY <1>5, Ordered DEF ProtocolAssumption
<1> QED
  BY <1>1, <1>3, <1>6, <1>7, PushEventsTypes

-----------------------------------------------------------------------------
\* A Set_Report(Feature), whatever is in it.
LEMMA SetPinConfigTypes ==
  ASSUME EngineAssumption, ProtocolAssumption, DebounceAssumption, TypeOK,
         NEW p \in SetPayloads, SetPinConfig(p)
  PROVE  TypeOK'
<1>1. /\ PinConfigDecodeSet(p) \in
           [result : Results, result_gpio : GPIOS \cup {RESULT_GPIO_NONE},
            request_id : 0 .. 255]
      /\ PinConfigDecodeSet(p).result = "OK" => p.pins \in ValidConfigs
  BY DecodeSet DEF SetPayloads
<1>2. /\ result' = PinConfigDecodeSet(p)
      /\ UNCHANGED <<now, edge_us, queue, overflowed, monitored, outputs,
                     reported_levels, activity, pending_reasons, next_seq,
                     last_seq, has_sent, last_sent_us>>
  BY DEF SetPinConfig, queueVars, publishedVars, reportVars
<1>3. CASE p.pins \in ValidConfigs /\ ApplyPinConfig(p.pins)
  <2> DEFINE next == p.pins
  <2>1. /\ Driven(next) \subseteq GPIOS /\ Repulled(next) \subseteq GPIOS
        /\ InitialOutputLevels(next) \subseteq GPIOS
    BY DEF Driven, Repulled, Changed, OutputMask, InputMask, InitialOutputLevels
  <2>2. settling' \subseteq GPIOS /\ output_levels' \subseteq GPIOS
    BY <1>3, <2>1 DEF ApplyPinConfig, SettlingAfter, TypeOK
  <2>3. debounce' \in [GPIOS -> Debouncers]
    <3>1. debounce' = [n \in GPIOS |->
                         IF n \in Retimed(next)
                         THEN DebounceSetTime(debounce[n], next[n].param, now)
                         ELSE debounce[n]]
      BY <1>3 DEF ApplyPinConfig
    <3>2. ASSUME NEW n \in GPIOS
          PROVE  DebounceSetTime(debounce[n], next[n].param, now) \in Debouncers
      <4>1. next[n].param \in 0 .. 255 /\ now \in Nat
        BY <1>3 DEF ValidConfigs, PinConfigs, TypeOK
      <4> QED
        BY <4>1, DebounceTypes DEF TypeOK
    <3> HIDE DEF next
    <3> QED
      BY <3>1, <3>2 DEF TypeOK
  <2>4. hw' \in [GPIOS -> HwStates]
    <3>1. ASSUME NEW n \in Repulled(next)
          PROVE  HwInput(next[n].mode) \in HwStates
      <4>1. ModeIsInput(next[n].mode)
        BY DEF Repulled, InputMask
      <4>2. next[n].mode \in {1, 2, 3}
        BY <4>1 DEF ModeIsInput, MODE_INPUT_NOPULL, MODE_INPUT_PULLDOWN
      <4> QED
        BY <4>2 DEF HwInput, HwStates, HwInputs, MODE_INPUT_NOPULL,
                    MODE_INPUT_PULLUP, MODE_INPUT_PULLDOWN
    <3>2. \A n \in GPIOS : HwOutput(next[n].param # 0) \in HwStates
      BY DEF HwOutput, HwStates, HwOutputs
    <3>3. "unused" \in HwStates /\ \A n \in GPIOS : hw[n] \in HwStates
      BY DEF HwStates, TypeOK
    <3>4. hw' = [n \in GPIOS |->
                   CASE n \in Repulled(next) -> HwInput(next[n].mode)
                     [] n \in Driven(next)   -> HwOutput(next[n].param # 0)
                     [] n \in Released(next) -> "unused"
                     [] OTHER                -> hw[n]]
      BY <1>3 DEF ApplyPinConfig
    <3>5. ASSUME NEW n \in GPIOS
          PROVE  (CASE n \in Repulled(next) -> HwInput(next[n].mode)
                    [] n \in Driven(next)   -> HwOutput(next[n].param # 0)
                    [] n \in Released(next) -> "unused"
                    [] OTHER                -> hw[n]) \in HwStates
      <4>1. n \in Repulled(next) => n \notin Driven(next) /\ n \notin Released(next)
        BY DEF Repulled, Driven, Released, Retimed, InputMask, OutputMask,
               ModeIsInput, MODE_INPUT_NOPULL, MODE_INPUT_PULLDOWN, MODE_OUTPUT
      <4>2. n \in Driven(next) => n \notin Released(next)
        BY DEF Driven, Released
      <4> HIDE DEF next
      <4> QED
        BY <3>1, <3>2, <3>3, <4>1, <4>2
    <3> HIDE DEF next
    <3> QED
      BY <3>4, <3>5
  <2>5. settle_deadline_us' \in Nat /\ config' \in ValidConfigs
    BY <1>3 DEF ApplyPinConfig, TypeOK, EngineAssumption
  <2> QED
    BY <1>1, <1>2, <1>3, <2>2, <2>3, <2>4, <2>5
       DEF TypeOK, FifoTypeOK, ApplyPinConfig
<1>4. CASE UNCHANGED <<hw, config, output_levels, debounce, settling, settle_active,
                       config_changed, settle_deadline_us>>
  BY <1>1, <1>2, <1>4 DEF TypeOK, FifoTypeOK
<1> QED
  BY <1>1, <1>3, <1>4 DEF SetPinConfig, pinVars, settleVars

\* Handing a report to the host.
LEMMA SendTypes ==
  ASSUME EngineAssumption, TypeOK, SendStatusReport
  PROVE  TypeOK'
<1> DEFINE n == Least(Len(queue), EVENTS_PER_REPORT)
<1>1. Len(queue) \in Nat /\ n \in Nat /\ n <= Len(queue)
  BY LenProperties DEF TypeOK, FifoTypeOK, EngineAssumption, Least
<1>2. Len(NextEvents) = n
  BY <1>1, ElementOfSeq, SubSeqProperties DEF NextEvents, TypeOK, FifoTypeOK
<1>3. /\ queue' \in Seq(EdgeEvents)
      /\ Len(queue') = Len(queue) - n
  <2> HIDE DEF n
  <2>1. DropFirst(n)
    BY <1>2 DEF SendStatusReport
  <2> QED
    BY <1>1, <2>1, Dropped DEF TypeOK
<1>4. FifoTypeOK'
  <2> HIDE DEF n
  <2>1. Len(queue') <= QUEUE_SIZE
    BY <1>1, <1>3 DEF TypeOK, FifoTypeOK, EngineAssumption
  <2>2. overflowed' \in BOOLEAN
    BY DEF SendStatusReport, OverflowLeft, TypeOK, FifoTypeOK
  <2> QED
    BY <1>3, <2>1, <2>2 DEF FifoTypeOK
<1>5. reported_levels' \subseteq GPIOS /\ pending_reasons' \subseteq Reasons
  BY DEF SendStatusReport, ReasonsLeft, TypeOK
<1>6. /\ next_seq' \in 0 .. SEQ_MOD - 1 /\ last_seq' \in 0 .. SEQ_MOD - 1
      /\ has_sent' \in BOOLEAN /\ last_sent_us' \in 0 .. now'
  BY DEF SendStatusReport, TypeOK, EngineAssumption
<1> QED
  BY <1>4, <1>5, <1>6
     DEF TypeOK, SendStatusReport, pinVars, settleVars

\* Writing outputs leaves every GPIO in a state the hardware has.
LEMMA WriteOutputsTypes ==
  ASSUME NEW mask, NEW value, hw \in [GPIOS -> HwStates], WriteOutputs(mask, value)
  PROVE  hw' \in [GPIOS -> HwStates]
<1>1. \A n \in GPIOS : HwOutput(n \in value) \in HwStates
  BY DEF HwOutput, HwStates, HwOutputs
<1> QED
  BY <1>1 DEF WriteOutputs

(***************************************************************************)
(* Type correctness: every entry point of engine.c leaves a well-formed    *)
(* state behind, with a valid pin configuration in force, a queue within   *)
(* its capacity, counters within their width and no time stamp ahead of    *)
(* the clock.                                                              *)
(***************************************************************************)
THEOREM TypeCorrect == Spec => []TypeOK
<1> USE ProtocolAssumption, DebounceAssumption, EngineAssumption
<1>1. Init => TypeOK
  <2> SUFFICES ASSUME Init PROVE TypeOK
    OBVIOUS
  <2>1. config \in ValidConfigs
    BY DefaultIsValid DEF Init
  <2>2. hw \in [GPIOS -> HwStates]
    <3>1. \A n \in Available : HwInput(config[n].mode) \in HwStates
      BY DEF Init, ProtocolAssumption, PinConfigDefault, HwInput, HwStates,
             HwInputs, MODE_INPUT_NOPULL, MODE_INPUT_PULLUP
    <3> QED
      BY <3>1 DEF Init, HwStates
  <2>3. DebounceZero \in Debouncers
    BY DEF DebounceZero, Debouncers
  <2>4. FifoTypeOK
    <3>1. queue = <<>> /\ overflowed = FALSE
      BY DEF Init, FifoInit
    <3>2. queue \in Seq(EdgeEvents) /\ Len(queue) = 0
      BY <3>1, EmptySeq
    <3>3. Len(queue) <= QUEUE_SIZE
      BY <3>2 DEF EngineAssumption
    <3> QED
      BY <3>1, <3>2, <3>3, Zenon DEF FifoTypeOK
  <2>5. settling \subseteq GPIOS
    BY DEF Init, InputMask
  <2>6. result \in [result : Results, result_gpio : GPIOS \cup {RESULT_GPIO_NONE},
                    request_id : 0 .. 255]
    BY DEF Init, Results
  <2>7. debounce \in [GPIOS -> Debouncers]
    BY <2>3 DEF Init
  <2>8. /\ now \in 0 .. MaxNow /\ edge_us \in 0 .. now /\ last_sent_us \in 0 .. now
        /\ settle_deadline_us \in Nat
        /\ activity \in 0 .. ACTIVITY_MOD - 1
        /\ next_seq \in 0 .. SEQ_MOD - 1 /\ last_seq \in 0 .. SEQ_MOD - 1
    BY DEF Init, EngineAssumption
  <2>9. /\ monitored = {} /\ outputs = {} /\ reported_levels = {}
        /\ output_levels = {} /\ pending_reasons = {}
        /\ settle_active \in BOOLEAN /\ config_changed \in BOOLEAN
        /\ has_sent \in BOOLEAN
    BY DEF Init
  <2> QED
    BY <2>1, <2>2, <2>4, <2>5, <2>6, <2>7, <2>8, <2>9 DEF TypeOK
<1>2. TypeOK /\ [Next]_vars => TypeOK'
  <2> SUFFICES ASSUME TypeOK, [Next]_vars PROVE TypeOK'
    OBVIOUS
  <2>1. ASSUME NEW n \in GPIOS, NEW raw \in BOOLEAN, NEW t \in 0 .. now,
               OnEdge(n, raw, t)
        PROVE  TypeOK'
    <3>1. t \in Nat /\ Edge(n, raw, t) /\ edge_us' \in 0 .. now'
      BY <2>1 DEF OnEdge, TypeOK
    <3>2. /\ debounce' \in [GPIOS -> Debouncers]
          /\ FifoTypeOK' /\ activity' \in 0 .. ACTIVITY_MOD - 1
      BY <3>1, EdgeTypes
    <3> QED
      BY <2>1, <3>1, <3>2
         DEF OnEdge, TypeOK, pinVars, publishedVars, settleVars, reportVars
  <2>2. ASSUME NEW raw \in SUBSET GPIOS, Resync(raw)
        PROVE  TypeOK'
    BY <2>2, ResyncTypes
       DEF Resync, TypeOK, pinVars, publishedVars, settleVars, reportVars
  <2>3. ASSUME NEW p \in Payloads, SetPinConfig(p)
        PROVE  TypeOK'
    BY <2>3, SetPinConfigTypes DEF EngineAssumption
  <2>4. ASSUME NEW cmd \in OutputCmds, Output(cmd)
        PROVE  TypeOK'
    <3>1. hw' \in [GPIOS -> HwStates]
      BY <2>4, WriteOutputsTypes DEF Output, TypeOK
    <3>2. /\ output_levels' \subseteq GPIOS
          /\ activity' \in 0 .. ACTIVITY_MOD - 1
          /\ pending_reasons' \subseteq Reasons
      BY <2>4 DEF Output, OutputTarget, OutputMask, TypeOK, EngineAssumption, Reasons
    <3> QED
      BY <2>4, <3>1, <3>2
         DEF Output, TypeOK, FifoTypeOK, queueVars, publishedVars, settleVars,
             reportVars
  <2>5. ASSUME UsbReset
        PROVE  TypeOK'
    <3>1. hw' \in [GPIOS -> HwStates]
      BY <2>5, WriteOutputsTypes DEF UsbReset, TypeOK
    <3>2. output_levels' \subseteq GPIOS /\ pending_reasons' \subseteq Reasons
      BY <2>5 DEF UsbReset, OutputMask, InitialOutputLevels, TypeOK, Reasons
    <3> QED
      BY <2>5, <3>1, <3>2
         DEF UsbReset, TypeOK, FifoTypeOK, queueVars, publishedVars, settleVars,
             reportVars
  <2>6. ASSUME NEW raw \in SUBSET settling, Task(raw)
        PROVE  TypeOK'
    <3>1. pending_reasons' \subseteq Reasons
      BY <2>6 DEF Task, TaskReasons, TypeOK, Reasons
    <3> QED
      BY <2>6, <3>1, TaskTypes DEF Task, TypeOK, pinVars, reportVars
  <2>7. CASE SendStatusReport
    BY <2>7, SendTypes
  <2>8. CASE Tick
    BY <2>8 DEF Tick, TypeOK, FifoTypeOK, EngineAssumption, pinVars, queueVars,
                publishedVars, settleVars, reportVars
  <2>9. CASE UNCHANGED vars
    BY <2>9 DEF vars, TypeOK, FifoTypeOK, pinVars, queueVars, publishedVars,
                settleVars, reportVars
  <2> QED
    BY <2>1, <2>2, <2>3, <2>4, <2>5, <2>6, <2>7, <2>8, <2>9 DEF Next, Input, Step
<1> QED
  BY <1>1, <1>2, PTL DEF Spec

-----------------------------------------------------------------------------
(***************************************************************************)
(* Safety                                                                  *)
(***************************************************************************)

\* The sets of GPIOs a pin configuration names.
LEMMA MaskMembers ==
  \A c, n : /\ n \in InputMask(c) <=> n \in GPIOS /\ ModeIsInput(c[n].mode)
            /\ n \in OutputMask(c) <=> n \in GPIOS /\ c[n].mode = MODE_OUTPUT
BY DEF InputMask, OutputMask

\* An input is neither an output nor unused.
LEMMA ModesDiffer ==
  /\ ~ModeIsInput(MODE_OUTPUT) /\ ~ModeIsInput(MODE_UNUSED)
  /\ MODE_OUTPUT # MODE_UNUSED
BY DEF ModeIsInput, MODE_INPUT_NOPULL, MODE_INPUT_PULLDOWN, MODE_OUTPUT, MODE_UNUSED

\* What becomes of a GPIO under a new configuration.
LEMMA FateOfPin ==
  ASSUME NEW next, NEW n \in GPIOS
  PROVE  /\ n \in Changed(next) <=> config[n] # next[n]
         /\ n \in Retimed(next) <=> /\ n \in Changed(next)
                                    /\ ModeIsInput(next[n].mode)
                                    /\ config[n].mode = next[n].mode
         /\ n \in Repulled(next) <=> /\ n \in Changed(next)
                                     /\ ModeIsInput(next[n].mode)
                                     /\ config[n].mode # next[n].mode
         /\ n \in Driven(next) <=> n \in Changed(next) /\ next[n].mode = MODE_OUTPUT
         /\ n \in Released(next) <=> /\ n \in Changed(next)
                                     /\ ~ModeIsInput(next[n].mode)
                                     /\ next[n].mode # MODE_OUTPUT
<1>1. n \in Changed(next) <=> config[n] # next[n]
  BY DEF Changed
<1>2. n \in Retimed(next) <=> /\ n \in Changed(next)
                              /\ ModeIsInput(next[n].mode)
                              /\ config[n].mode = next[n].mode
  BY MaskMembers, Zenon DEF Retimed
<1>3. n \in Repulled(next) <=> /\ n \in Changed(next)
                               /\ ModeIsInput(next[n].mode)
                               /\ config[n].mode # next[n].mode
  BY <1>2, MaskMembers, Zenon DEF Repulled
<1>4. n \in Driven(next) <=> n \in Changed(next) /\ next[n].mode = MODE_OUTPUT
  BY MaskMembers, Zenon DEF Driven
<1>5. n \in Released(next) <=> /\ n \in Changed(next)
                               /\ ~ModeIsInput(next[n].mode)
                               /\ next[n].mode # MODE_OUTPUT
  BY MaskMembers, Zenon DEF Released
<1> QED
  BY <1>1, <1>2, <1>3, <1>4, <1>5

-----------------------------------------------------------------------------
(***************************************************************************)
(* The published masks                                                     *)
(***************************************************************************)

\* Accepting a configuration starts the settle time it needs.
LEMMA PublishedSet ==
  ASSUME PublishedFollowsConfig, NEW next, ApplyPinConfig(next), UNCHANGED monitored
  PROVE  PublishedFollowsConfig'
<1>1. /\ settle_active' = TRUE /\ config' = next
      /\ settling' = SettlingAfter(next) /\ monitored' = monitored
  BY DEF ApplyPinConfig
<1>2. settling' \subseteq InputMask(config')
  <2> SUFFICES ASSUME NEW n \in settling' PROVE n \in InputMask(next)
    BY <1>1
  <2>1. /\ n \in settling \/ n \in Repulled(next)
        /\ n \notin Driven(next) /\ n \notin Released(next)
    BY <1>1 DEF SettlingAfter
  <2>2. n \in GPIOS
    BY <2>1 DEF PublishedFollowsConfig, InputMask, Repulled
  <2>3. n \in settling => ModeIsInput(config[n].mode)
    BY DEF PublishedFollowsConfig, InputMask
  <2> QED
    BY <2>1, <2>2, <2>3, FateOfPin, MaskMembers, Zenon
<1>3. InputMask(config') \ settling' \subseteq monitored'
  <2> SUFFICES ASSUME NEW n \in InputMask(next), n \notin settling'
               PROVE  n \in monitored
    BY <1>1
  <2>1. n \in GPIOS /\ ModeIsInput(next[n].mode)
    BY MaskMembers, Zenon
  <2>2. n \notin Driven(next) /\ n \notin Released(next)
    BY <2>1, FateOfPin, ModesDiffer, Zenon
  <2>3. n \notin settling /\ n \notin Repulled(next)
    BY <1>1, <2>2 DEF SettlingAfter
  <2>4. config[n].mode = next[n].mode
    BY <2>1, <2>3, FateOfPin, Zenon
  <2> QED
    BY <2>1, <2>3, <2>4, MaskMembers DEF PublishedFollowsConfig
<1> QED
  BY <1>1, <1>2, <1>3 DEF PublishedFollowsConfig

(***************************************************************************)
(* The published masks agree with the configuration in force whenever no   *)
(* change of it settles, however many changes overlapped before.           *)
(***************************************************************************)
THEOREM PublishedCorrect == Spec => []PublishedFollowsConfig
<1>1. Init => PublishedFollowsConfig
  BY DEF Init, PublishedFollowsConfig
<1>2. PublishedFollowsConfig /\ [Next]_vars => PublishedFollowsConfig'
  <2> SUFFICES ASSUME PublishedFollowsConfig, [Next]_vars
               PROVE  PublishedFollowsConfig'
    OBVIOUS
  <2>1. CASE UNCHANGED <<settle_active, settling, config_changed, monitored,
                         outputs, config>>
    BY <2>1 DEF PublishedFollowsConfig
  <2>2. ASSUME NEW n, NEW raw, NEW t, OnEdge(n, raw, t)
        PROVE  PublishedFollowsConfig'
    BY <2>1, <2>2 DEF OnEdge, pinVars, publishedVars, settleVars
  <2>3. ASSUME NEW raw, Resync(raw)
        PROVE  PublishedFollowsConfig'
    BY <2>1, <2>3 DEF Resync, pinVars, publishedVars, settleVars
  <2>4. ASSUME NEW p, SetPinConfig(p)
        PROVE  PublishedFollowsConfig'
    BY <2>1, <2>4, PublishedSet DEF SetPinConfig, pinVars, publishedVars, settleVars
  <2>5. ASSUME NEW cmd, Output(cmd)
        PROVE  PublishedFollowsConfig'
    BY <2>1, <2>5 DEF Output, publishedVars, settleVars
  <2>6. CASE UsbReset
    BY <2>1, <2>6 DEF UsbReset, publishedVars, settleVars
  <2>7. ASSUME NEW raw, Task(raw)
        PROVE  PublishedFollowsConfig'
    <3>1. CASE SettleDue
      BY <2>7, <3>1 DEF Task, FinishSettle, PublishedFollowsConfig, pinVars
    <3>2. CASE ~SettleDue
      BY <2>1, <2>7, <3>2 DEF Task, pinVars, publishedVars, settleVars
    <3> QED
      BY <3>1, <3>2
  <2>8. CASE SendStatusReport
    BY <2>1, <2>8 DEF SendStatusReport, pinVars, settleVars
  <2>9. CASE Tick
    BY <2>1, <2>9 DEF Tick, pinVars, publishedVars, settleVars
  <2>10. CASE UNCHANGED vars
    BY <2>1, <2>10 DEF vars, pinVars, publishedVars, settleVars
  <2> QED
    BY <2>2, <2>3, <2>4, <2>5, <2>6, <2>7, <2>8, <2>9, <2>10 DEF Next, Input, Step
<1> QED
  BY <1>1, <1>2, PTL DEF Spec

-----------------------------------------------------------------------------
(***************************************************************************)
(* The pins as they are driven                                             *)
(***************************************************************************)

\* Accepting a configuration brings the pins in line with it.
LEMMA HwSet ==
  ASSUME TypeOK, HwFollowsConfig, NEW next \in ValidConfigs, ApplyPinConfig(next)
  PROVE  HwFollowsConfig'
<1>1. /\ config' = next
      /\ output_levels' = (output_levels \ Changed(next))
                             \cup (Driven(next) \cap InitialOutputLevels(next))
  BY DEF ApplyPinConfig
<1>2. output_levels' \subseteq OutputMask(config')
  <2> SUFFICES ASSUME NEW n \in output_levels' PROVE n \in OutputMask(next)
    BY <1>1
  <2>1. CASE n \in Driven(next)
    BY <2>1 DEF Driven
  <2>2. CASE n \notin Driven(next)
    <3>1. n \in output_levels /\ n \notin Changed(next)
      BY <1>1, <2>2
    <3>2. n \in GPIOS /\ config[n].mode = MODE_OUTPUT
      BY <3>1 DEF HwFollowsConfig, OutputMask
    <3> QED
      BY <3>1, <3>2, FateOfPin, MaskMembers, Zenon
  <2> QED
    BY <2>1, <2>2
<1>3. ASSUME NEW n \in GPIOS
      PROVE  /\ n \notin Available => hw'[n] = "untouched"
             /\ ModeIsInput(next[n].mode) => hw'[n] = HwInput(next[n].mode)
             /\ next[n].mode = MODE_OUTPUT => hw'[n] = HwOutput(n \in output_levels')
             /\ next[n].mode = MODE_UNUSED => hw'[n] \in {"untouched", "unused"}
  <2>1. hw'[n] = CASE n \in Repulled(next) -> HwInput(next[n].mode)
                   [] n \in Driven(next)   -> HwOutput(next[n].param # 0)
                   [] n \in Released(next) -> "unused"
                   [] OTHER                -> hw[n]
    BY DEF ApplyPinConfig
  <2>2. /\ n \notin Available => hw[n] = "untouched"
        /\ ModeIsInput(config[n].mode) => hw[n] = HwInput(config[n].mode)
        /\ config[n].mode = MODE_OUTPUT => hw[n] = HwOutput(n \in output_levels)
        /\ config[n].mode = MODE_UNUSED => hw[n] \in {"untouched", "unused"}
    BY DEF HwFollowsConfig
  <2>3. n \notin Available => n \notin Changed(next)
    <3>1. \A c \in ValidConfigs : /\ c[n] = [mode |-> c[n].mode, param |-> c[n].param]
                                  /\ n \notin Available => c[n].mode = MODE_UNUSED
                                  /\ c[n].mode = MODE_UNUSED => c[n].param = 0
      BY DEF ValidConfigs, PinConfigs
    <3>2. config \in ValidConfigs
      BY DEF TypeOK
    <3>3. ASSUME n \notin Available
          PROVE  config[n] = next[n]
      <4>1. config[n] = [mode |-> MODE_UNUSED, param |-> 0]
        BY <3>1, <3>2, <3>3, Zenon
      <4>2. next[n] = [mode |-> MODE_UNUSED, param |-> 0]
        BY <3>1, <3>3, Zenon
      <4> QED
        BY <4>1, <4>2, Zenon
    <3> QED
      BY <3>3 DEF Changed
  <2>4. CASE n \notin Changed(next)
    <3>1. /\ n \notin Repulled(next) /\ n \notin Driven(next)
          /\ n \notin Released(next) /\ config[n] = next[n]
      BY <2>4, FateOfPin
    <3>2. hw'[n] = hw[n]
      BY <2>1, <3>1
    <3>3. n \in output_levels' <=> n \in output_levels
      BY <1>1, <2>4, <3>1
    <3> QED
      BY <2>2, <3>1, <3>2, <3>3
  <2>5. CASE n \in Retimed(next)
    <3>1. /\ n \notin Repulled(next) /\ n \notin Driven(next)
          /\ n \notin Released(next) /\ config[n].mode = next[n].mode
          /\ ModeIsInput(next[n].mode) /\ n \in Changed(next)
      BY <2>5, FateOfPin, ModesDiffer, Zenon
    <3>2. hw'[n] = hw[n]
      BY <2>1, <3>1
    <3> QED
      BY <2>2, <2>3, <3>1, <3>2, ModesDiffer
  <2>6. CASE n \in Repulled(next)
    <3>1. n \in Changed(next) /\ ModeIsInput(next[n].mode)
      BY <2>6, FateOfPin, Zenon
    <3>2. n \notin Driven(next) /\ n \notin Released(next)
      BY <3>1, FateOfPin, ModesDiffer, Zenon
    <3>3. hw'[n] = HwInput(next[n].mode)
      BY <2>1, <2>6, <3>2
    <3> QED
      BY <2>3, <3>1, <3>3, ModesDiffer
  <2>7. CASE n \in Driven(next)
    <3>1. n \in Changed(next) /\ next[n].mode = MODE_OUTPUT
      BY <2>7, FateOfPin, Zenon
    <3>2. n \notin Repulled(next) /\ n \notin Released(next)
      BY <3>1, FateOfPin, ModesDiffer, Zenon
    <3>3. hw'[n] = HwOutput(next[n].param # 0)
      BY <2>1, <2>7, <3>2
    <3>4. n \in output_levels' <=> next[n].param # 0
      BY <1>1, <2>7, <3>1 DEF InitialOutputLevels, OutputMask
    <3> QED
      BY <2>3, <3>1, <3>3, <3>4, ModesDiffer
  <2>8. CASE n \in Released(next)
    <3>1. n \in Changed(next) /\ ~ModeIsInput(next[n].mode) /\ next[n].mode # MODE_OUTPUT
      BY <2>8, FateOfPin, Zenon
    <3>2. n \notin Repulled(next) /\ n \notin Driven(next)
      BY <3>1, FateOfPin, Zenon
    <3>3. hw'[n] = "unused"
      BY <2>1, <2>8, <3>2
    <3> QED
      BY <2>3, <3>1, <3>3
  <2> QED
    BY <2>4, <2>5, <2>6, <2>7, <2>8, FateOfPin, Zenon
<1> QED
  BY <1>1, <1>2, <1>3, Zenon DEF HwFollowsConfig

\* Driving outputs, all of them set by the configuration, to some levels.
LEMMA HwWritten ==
  ASSUME TypeOK, HwFollowsConfig, NEW mask, NEW value,
         mask \subseteq OutputMask(config), WriteOutputs(mask, value),
         output_levels' = (output_levels \ mask) \cup (value \cap mask),
         UNCHANGED config
  PROVE  HwFollowsConfig'
<1>1. output_levels' \subseteq OutputMask(config')
  BY DEF HwFollowsConfig
<1>2. ASSUME NEW n \in GPIOS
      PROVE  /\ n \notin Available => hw'[n] = "untouched"
             /\ ModeIsInput(config[n].mode) => hw'[n] = HwInput(config[n].mode)
             /\ config[n].mode = MODE_OUTPUT => hw'[n] = HwOutput(n \in output_levels')
             /\ config[n].mode = MODE_UNUSED => hw'[n] \in {"untouched", "unused"}
  <2>1. hw'[n] = IF n \in mask THEN HwOutput(n \in value) ELSE hw[n]
    BY DEF WriteOutputs
  <2>2. /\ n \notin Available => hw[n] = "untouched"
        /\ ModeIsInput(config[n].mode) => hw[n] = HwInput(config[n].mode)
        /\ config[n].mode = MODE_OUTPUT => hw[n] = HwOutput(n \in output_levels)
        /\ config[n].mode = MODE_UNUSED => hw[n] \in {"untouched", "unused"}
    BY DEF HwFollowsConfig
  <2>3. n \in mask => /\ config[n].mode = MODE_OUTPUT
                      /\ n \in Available
                      /\ n \in output_levels' <=> n \in value
    BY DEF OutputMask, TypeOK, ValidConfigs, MODE_OUTPUT, MODE_UNUSED
  <2>4. n \notin mask => (n \in output_levels' <=> n \in output_levels)
    OBVIOUS
  <2>5. n \in mask => hw'[n] = HwOutput(n \in output_levels')
    BY <2>1, <2>3 DEF HwOutput
  <2>6. n \notin mask => hw'[n] = hw[n]
    BY <2>1
  <2> QED
    BY <2>2, <2>3, <2>4, <2>5, <2>6, ModesDiffer
<1> QED
  BY <1>1, <1>2, Zenon DEF HwFollowsConfig

(***************************************************************************)
(* The pins are driven as the configuration and output_levels say, and no  *)
(* pin outside the available ones is ever touched.                         *)
(***************************************************************************)
THEOREM HwCorrect == Spec => []HwFollowsConfig
<1>1. Init => HwFollowsConfig
  <2> SUFFICES ASSUME Init PROVE HwFollowsConfig
    OBVIOUS
  <2>1. ASSUME NEW n \in GPIOS
        PROVE  /\ n \notin Available => hw[n] = "untouched"
               /\ ModeIsInput(config[n].mode) => hw[n] = HwInput(config[n].mode)
               /\ config[n].mode # MODE_OUTPUT
               /\ config[n].mode = MODE_UNUSED => hw[n] \in {"untouched", "unused"}
    BY ModesDiffer DEF Init, PinConfigDefault, MODE_INPUT_PULLUP, MODE_OUTPUT,
                       MODE_UNUSED
  <2> QED
    BY <2>1 DEF Init, HwFollowsConfig
<1>2. TypeOK /\ HwFollowsConfig /\ [Next]_vars => HwFollowsConfig'
  <2> SUFFICES ASSUME TypeOK, HwFollowsConfig, [Next]_vars
               PROVE  HwFollowsConfig'
    OBVIOUS
  <2>1. CASE UNCHANGED pinVars
    BY <2>1 DEF HwFollowsConfig, pinVars
  <2>2. ASSUME NEW p \in Payloads, SetPinConfig(p)
        PROVE  HwFollowsConfig'
    <3>1. PinConfigDecodeSet(p).result = "OK" => p.pins \in ValidConfigs
      BY DecodeSet, EngineAssumption, ProtocolAssumption
      DEF EngineAssumption, SetPayloads
    <3> QED
      BY <2>1, <2>2, <3>1, HwSet DEF SetPinConfig
  <2>3. ASSUME NEW cmd \in OutputCmds, Output(cmd)
        PROVE  HwFollowsConfig'
    BY <2>3, HwWritten DEF Output, OutputTarget
  <2>4. CASE UsbReset
    <3>1. InitialOutputLevels(config) \subseteq OutputMask(config)
      BY DEF InitialOutputLevels
    <3> QED
      BY <2>4, <3>1, HwWritten DEF UsbReset
  <2>5. CASE (\E n \in GPIOS, raw \in BOOLEAN, t \in 0 .. now : OnEdge(n, raw, t))
             \/ (\E raw \in SUBSET GPIOS : Resync(raw))
             \/ Step \/ UNCHANGED vars
    BY <2>1, <2>5 DEF OnEdge, Resync, Step, Task, SendStatusReport, Tick, vars
  <2> QED
    BY <2>2, <2>3, <2>4, <2>5 DEF Next, Input
<1> QED
  BY <1>1, <1>2, TypeCorrect, PTL DEF Spec

-----------------------------------------------------------------------------
(***************************************************************************)
(* The overflow flag                                                       *)
(***************************************************************************)

\* The flag stays with a queue that still holds what came before the gap.
GapAfterEvents == overflowed => queue # <<>>

\* Dropping an event leaves a full queue, never an empty one.
LEMMA PushKeepsOverflow ==
  ASSUME EngineAssumption, FifoTypeOK, GapAfterEvents,
         NEW events \in Seq(EdgeEvents), PushEvents(events)
  PROVE  GapAfterEvents'
<1>1. /\ Len(queue) \in Nat /\ Len(events) \in Nat
      /\ Len(queue') = Least(Len(queue) + Len(events), QUEUE_SIZE)
      /\ Len(queue) <= Len(queue')
      /\ overflowed' <=> overflowed \/ Len(queue) + Len(events) > QUEUE_SIZE
      /\ queue' \in Seq(EdgeEvents)
  BY Pushed, LenProperties DEF PushEvents, EngineAssumption, FifoTypeOK
<1>2. overflowed => Len(queue) > 0
  BY <1>1, EmptySeq DEF GapAfterEvents, FifoTypeOK
<1>3. overflowed' => Len(queue') > 0
  BY <1>1, <1>2 DEF Least, EngineAssumption
<1> QED
  BY <1>1, <1>3, EmptySeq DEF GapAfterEvents

\* The flag is set only while the queue holds events.
LEMMA GapsAreKept == Spec => []GapAfterEvents
<1> USE ProtocolAssumption, DebounceAssumption, EngineAssumption
<1>1. Init => GapAfterEvents
  BY DEF Init, FifoInit, GapAfterEvents
<1>2. TypeOK /\ GapAfterEvents /\ [Next]_vars => GapAfterEvents'
  <2> SUFFICES ASSUME TypeOK, GapAfterEvents, [Next]_vars
               PROVE  GapAfterEvents'
    OBVIOUS
  <2>1. CASE UNCHANGED queueVars
    BY <2>1 DEF GapAfterEvents, queueVars
  <2>2. ASSUME NEW events \in Seq(EdgeEvents), PushEvents(events)
        PROVE  GapAfterEvents'
    BY <2>2, PushKeepsOverflow DEF TypeOK
  <2>3. ASSUME NEW n \in GPIOS, NEW raw \in BOOLEAN, NEW t \in 0 .. now,
               OnEdge(n, raw, t)
        PROVE  GapAfterEvents'
    <3>1. t \in Nat /\ Edge(n, raw, t)
      BY <2>3 DEF OnEdge, TypeOK
    <3> QED
      BY <2>1, <2>2, <3>1, EdgeTypes
  <2>4. ASSUME NEW raw \in SUBSET GPIOS, Resync(raw)
        PROVE  GapAfterEvents'
    BY <2>2, <2>4, ResyncTypes
  <2>5. ASSUME NEW raw \in SUBSET settling, Task(raw)
        PROVE  GapAfterEvents'
    BY <2>2, <2>5, TaskTypes
  <2>6. CASE SendStatusReport
    <3> DEFINE n == Least(Len(queue), EVENTS_PER_REPORT)
    <3>1. Len(queue) \in Nat /\ n \in Nat /\ n <= Len(queue)
      BY LenProperties DEF TypeOK, FifoTypeOK, EngineAssumption, Least
    <3>2. Len(NextEvents) = n
      BY <3>1, ElementOfSeq, SubSeqProperties DEF NextEvents, TypeOK, FifoTypeOK
    <3>3. queue' \in Seq(EdgeEvents) /\ Len(queue') = Len(queue) - n
      <4> HIDE DEF n
      <4>1. DropFirst(n)
        BY <2>6, <3>2 DEF SendStatusReport
      <4> QED
        BY <3>1, <4>1, Dropped DEF TypeOK
    <3>4. overflowed' => Len(queue') > 0
      <4>1. overflowed' => ~(Len(queue) <= EVENTS_PER_REPORT)
        BY <2>6 DEF SendStatusReport, OverflowLeft, Drained
      <4>2. EVENTS_PER_REPORT \in Nat
        BY DEF EngineAssumption
      <4> QED
        BY <3>1, <3>3, <4>1, <4>2 DEF Least
    <3> QED
      BY <3>3, <3>4, EmptySeq DEF GapAfterEvents
  <2>7. CASE (\E p \in Payloads : SetPinConfig(p))
             \/ (\E cmd \in OutputCmds : Output(cmd)) \/ UsbReset \/ Tick
             \/ UNCHANGED vars
    BY <2>1, <2>7 DEF SetPinConfig, Output, UsbReset, Tick, vars
  <2> QED
    BY <2>3, <2>4, <2>5, <2>6, <2>7 DEF Next, Input, Step
<1> QED
  BY <1>1, <1>2, TypeCorrect, PTL DEF Spec

-----------------------------------------------------------------------------
(***************************************************************************)
(* Debouncing                                                              *)
(***************************************************************************)

\* What DebounceFollowsConfig says of the record of one pin.
Follows(d, param) ==
  /\ d.pending <=> d.raw # d.confirmed
  /\ d.debounce_us = param * US_PER_MS

\* An electrical change, a poll and a new debounce time; and a first read.
LEMMA FollowsSteps ==
  ASSUME DebounceAssumption, NEW d \in Debouncers, NEW param
  PROVE  /\ Follows(d, param) =>
              /\ \A raw \in BOOLEAN : \A t : Follows(DebounceEdge(d, raw, t), param)
              /\ Follows(DebouncePoll(d), param)
         /\ \A old, ms, t :
              Follows(d, old) => Follows(DebounceSetTime(d, ms, t), ms)
BY DEF Debouncers, Follows, DebounceEdge, DebouncePoll, DebounceReset,
       DebounceSetTime, EdgeConfirms

LEMMA FollowsReset ==
  ASSUME NEW level, NEW ms
  PROVE  Follows(DebounceReset(level, ms), ms)
BY DEF Follows, DebounceReset

\* The pins whose edges and polls count.
LEMMA TrackedMembers ==
  \A n : n \in Tracked <=> /\ n \in monitored /\ n \notin settling
                           /\ ModeIsInput(config[n].mode)
BY DEF Tracked, TrackedPins

\* What a pass of the task finds before it polls: a first read, or the record
\* of a pin that was tracked before.
LEMMA SettledFollows ==
  ASSUME DebounceAssumption, TypeOK, PublishedFollowsConfig,
         DebounceFollowsConfig, NEW raw, Task(raw), NEW n \in Tracked'
  PROVE  /\ n \in GPIOS /\ SettledDebounce(raw)[n] \in Debouncers
         /\ Follows(SettledDebounce(raw)[n], config[n].param)
<1> DEFINE settled == SettledDebounce(raw)
<1>1. n \in monitored' /\ n \notin settling' /\ ModeIsInput(config[n].mode)
  BY DEF Tracked, TrackedPins, Task, pinVars
<1>2. n \in GPIOS
  BY <1>1 DEF Task, FinishSettle, InputMask, TypeOK, publishedVars
<1>3. CASE SettleDue /\ n \in settling
  <2>1. settled[n] = DebounceReset(n \in raw, config[n].param)
    BY <1>2, <1>3 DEF SettledDebounce
  <2>2. config[n].param \in 0 .. 255 /\ (n \in raw) \in BOOLEAN
    BY <1>2 DEF TypeOK, ValidConfigs, PinConfigs
  <2>3. settled[n] \in Debouncers
    BY <2>1, <2>2, DebounceResetType
  <2> QED
    BY <1>2, <2>1, <2>3, FollowsReset
<1>4. CASE ~(SettleDue /\ n \in settling)
  <2>1. settled[n] = debounce[n]
    BY <1>2, <1>4 DEF SettledDebounce
  <2>2. n \in monitored /\ n \notin settling
    <3>1. CASE SettleDue
      BY <1>1, <1>2, <1>4, <3>1, MaskMembers DEF PublishedFollowsConfig
    <3>2. CASE ~SettleDue
      BY <1>1, <3>2 DEF Task, publishedVars, settleVars
    <3> QED
      BY <3>1, <3>2
  <2>3. n \in Tracked
    BY <1>1, <2>2, TrackedMembers
  <2> QED
    BY <1>2, <2>1, <2>3 DEF TypeOK, DebounceFollowsConfig, Follows
<1> QED
  BY <1>3, <1>4

\* The first read of the pins that settle, and the polls that follow it.
LEMMA DebounceTask ==
  ASSUME DebounceAssumption, TypeOK, PublishedFollowsConfig,
         DebounceFollowsConfig, NEW raw, Task(raw)
  PROVE  DebounceFollowsConfig'
<1> DEFINE settled == SettledDebounce(raw)
           ripe == {n \in TrackedPins(monitored', settling') :
                      PollConfirms(settled[n], now)}
<1>1. config' = config
  BY DEF Task, pinVars
<1>2. ASSUME NEW n \in Tracked'
      PROVE  n \in GPIOS /\ settled[n] \in Debouncers /\ Follows(settled[n], config[n].param)
  BY SettledFollows
<1>3. ASSUME NEW n \in Tracked'
      PROVE  Follows(debounce'[n], config[n].param)
  <2> HIDE DEF settled, ripe
  <2>1. debounce'[n] = IF n \in ripe THEN DebouncePoll(settled[n]) ELSE settled[n]
    BY <1>2 DEF Task, settled, ripe
  <2> QED
    BY <1>2, <2>1, FollowsSteps
<1> QED
  BY <1>1, <1>3 DEF DebounceFollowsConfig, Follows

\* A new configuration: its debounce times, and the pins it leaves tracked.
LEMMA DebounceSet ==
  ASSUME DebounceAssumption, TypeOK, DebounceFollowsConfig, NEW next,
         ApplyPinConfig(next), UNCHANGED monitored
  PROVE  DebounceFollowsConfig'
<1> SUFFICES ASSUME NEW n \in Tracked'
             PROVE  Follows(debounce'[n], next[n].param)
  BY DEF DebounceFollowsConfig, Follows, ApplyPinConfig
<1>1. n \in monitored /\ n \notin SettlingAfter(next) /\ ModeIsInput(next[n].mode)
  BY DEF ApplyPinConfig, Tracked, TrackedPins
<1>2. n \in GPIOS
  BY <1>1 DEF TypeOK
<1>3. n \notin Driven(next) /\ n \notin Released(next)
  BY <1>1, <1>2, FateOfPin, ModesDiffer, Zenon
<1>4. n \notin settling /\ n \notin Repulled(next)
  BY <1>1, <1>3 DEF SettlingAfter
<1>5. config[n].mode = next[n].mode
  BY <1>1, <1>2, <1>4, FateOfPin, Zenon
<1>6. Follows(debounce[n], config[n].param) /\ debounce[n] \in Debouncers
  <2>1. n \in Tracked
    BY <1>1, <1>4, <1>5, TrackedMembers
  <2> QED
    BY <1>2, <2>1 DEF DebounceFollowsConfig, Follows, TypeOK
<1>7. debounce'[n] = IF n \in Retimed(next)
                     THEN DebounceSetTime(debounce[n], next[n].param, now)
                     ELSE debounce[n]
  BY <1>2 DEF ApplyPinConfig
<1>8. n \notin Retimed(next) => config[n] = next[n]
  BY <1>1, <1>2, <1>5, FateOfPin, Zenon
<1> QED
  BY <1>6, <1>7, <1>8, FollowsSteps

(***************************************************************************)
(* A change of a tracked pin is pending exactly while its electrical value *)
(* differs from its confirmed level, and waits for the debounce time of    *)
(* the configuration in force.                                             *)
(***************************************************************************)
THEOREM DebounceCorrect == Spec => []DebounceFollowsConfig
<1> USE ProtocolAssumption, DebounceAssumption, EngineAssumption
<1>1. Init => DebounceFollowsConfig
  BY DEF Init, DebounceFollowsConfig, Tracked, TrackedPins
<1>2. TypeOK /\ PublishedFollowsConfig /\ DebounceFollowsConfig /\ [Next]_vars
        => DebounceFollowsConfig'
  <2> SUFFICES ASSUME TypeOK, PublishedFollowsConfig, DebounceFollowsConfig,
                      [Next]_vars
               PROVE  DebounceFollowsConfig'
    OBVIOUS
  <2>1. CASE UNCHANGED <<debounce, monitored, settling, config>>
    BY <2>1 DEF DebounceFollowsConfig, Tracked, TrackedPins
  <2>2. ASSUME UNCHANGED <<monitored, settling, config>>,
               \A n \in Tracked : \/ debounce'[n] = debounce[n]
                                  \/ \E b \in BOOLEAN : \E t :
                                       debounce'[n] = DebounceEdge(debounce[n], b, t)
        PROVE  DebounceFollowsConfig'
    <3>1. Tracked' = Tracked /\ config' = config
      BY <2>2 DEF Tracked, TrackedPins
    <3>2. \A n \in Tracked : n \in GPIOS /\ debounce[n] \in Debouncers
      BY DEF Tracked, TrackedPins, TypeOK
    <3>3. \A n \in Tracked : Follows(debounce[n], config[n].param)
      BY DEF DebounceFollowsConfig, Follows
    <3>4. \A n \in Tracked : Follows(debounce'[n], config[n].param)
      BY <2>2, <3>2, <3>3, FollowsSteps
    <3> QED
      BY <3>1, <3>4 DEF DebounceFollowsConfig, Follows
  <2>3. ASSUME NEW gpio \in GPIOS, NEW raw \in BOOLEAN, NEW t \in 0 .. now,
               OnEdge(gpio, raw, t)
        PROVE  DebounceFollowsConfig'
    <3>1. \A n \in Tracked : \/ debounce'[n] = debounce[n]
                             \/ \E b \in BOOLEAN : \E u :
                                  debounce'[n] = DebounceEdge(debounce[n], b, u)
      BY <2>3 DEF OnEdge, Edge, TypeOK, Tracked, TrackedPins
    <3> QED
      BY <2>2, <2>3, <3>1 DEF OnEdge, pinVars, publishedVars, settleVars
  <2>4. ASSUME NEW raw \in SUBSET GPIOS, Resync(raw)
        PROVE  DebounceFollowsConfig'
    <3>1. ASSUME NEW n \in Tracked
          PROVE  \/ debounce'[n] = debounce[n]
                 \/ \E b \in BOOLEAN : \E u :
                      debounce'[n] = DebounceEdge(debounce[n], b, u)
      <4>1. n \in GPIOS /\ (n \in raw) \in BOOLEAN
        BY DEF Tracked, TrackedPins, TypeOK
      <4>2. \/ debounce'[n] = debounce[n]
            \/ debounce'[n] = DebounceEdge(debounce[n], n \in raw, now)
        BY <2>4, <4>1 DEF Resync
      <4> QED
        BY <4>1, <4>2
    <3> QED
      BY <2>2, <2>4, <3>1 DEF Resync, pinVars, publishedVars, settleVars
  <2>5. ASSUME NEW p \in Payloads, SetPinConfig(p)
        PROVE  DebounceFollowsConfig'
    BY <2>1, <2>5, DebounceSet DEF SetPinConfig, pinVars, publishedVars, settleVars
  <2>6. ASSUME NEW raw \in SUBSET settling, Task(raw)
        PROVE  DebounceFollowsConfig'
    BY <2>6, DebounceTask
  <2>7. CASE (\E cmd \in OutputCmds : Output(cmd)) \/ UsbReset \/ SendStatusReport
             \/ Tick \/ UNCHANGED vars
    BY <2>1, <2>7 DEF Output, UsbReset, SendStatusReport, Tick, vars, pinVars,
                      publishedVars, settleVars
  <2> QED
    BY <2>3, <2>4, <2>5, <2>6, <2>7 DEF Next, Input, Step
<1> QED
  BY <1>1, <1>2, TypeCorrect, PublishedCorrect, PTL DEF Spec

-----------------------------------------------------------------------------
(***************************************************************************)
(* The events of a pin                                                     *)
(***************************************************************************)
\* The places of a pin's events in a queue.
Mine(q, n) == {i \in 1 .. Len(q) : q[i].gpio = n}

\* A pin's events in q lead from the levels told to the record d, turn by turn.
Story(q, n, told, d) ==
  /\ Mine(q, n) = {} => (n \in told <=> d.confirmed)
  /\ \A i \in Mine(q, n) :
       /\ (\A j \in Mine(q, n) : i <= j) => (q[i].level <=> n \notin told)
       /\ (\A j \in Mine(q, n) : j <= i) => (q[i].level <=> d.confirmed)
       /\ \A j \in Mine(q, n) :
            (i < j /\ \A k \in Mine(q, n) : k <= i \/ j <= k)
              => (q[i].level <=> ~q[j].level)

-----------------------------------------------------------------------------
(***************************************************************************)
(* Queues that grow and shrink                                             *)
(***************************************************************************)

\* A non-empty set of places in a sequence has a last one.
LEMMA LastPlace ==
  ASSUME NEW m \in Nat, NEW S \in SUBSET (1 .. m), S # {}
  PROVE  \E i \in S : \A j \in S : j <= i
<1> DEFINE T == {m - i : i \in S}
<1>1. T \in SUBSET Nat /\ T # {}
  <2>1. \A i \in S : m - i \in Nat
    OBVIOUS
  <2>2. PICK i \in S : TRUE
    OBVIOUS
  <2>3. m - i \in T
    BY <2>2
  <2> QED
    BY <2>1, <2>3
<1>2. PICK k \in T : \A j \in T : k <= j
  <2> HIDE DEF T
  <2> QED
    BY <1>1, LeastExists
<1>3. PICK i \in S : k = m - i
  BY <1>2
<1>4. \A j \in S : m - i <= m - j
  BY <1>2, <1>3
<1> QED
  BY <1>3, <1>4

\* What a queue that grows keeps, and where it grows.
LEMMA MineGrows ==
  ASSUME NEW q \in Seq(EdgeEvents), NEW t \in Seq(EdgeEvents), Len(q) <= Len(t),
         \A i \in 1 .. Len(q) : t[i] = q[i], NEW n
  PROVE  Mine(t, n) = Mine(q, n) \cup {k \in Len(q) + 1 .. Len(t) : t[k].gpio = n}
<1>1. Len(q) \in Nat /\ Len(t) \in Nat
  OBVIOUS
<1>2. \A i \in 1 .. Len(t) : i \in 1 .. Len(q) \/ i \in Len(q) + 1 .. Len(t)
  BY <1>1
<1>3. \A i \in 1 .. Len(q) : i \in 1 .. Len(t)
  BY <1>1
<1>4. \A k \in Len(q) + 1 .. Len(t) : k \in 1 .. Len(t)
  BY <1>1
<1> QED
  BY <1>2, <1>3, <1>4 DEF Mine

\* Events of other pins leave the story of a pin alone.
LEMMA StoryKept ==
  ASSUME NEW q \in Seq(EdgeEvents), NEW t \in Seq(EdgeEvents), Len(q) <= Len(t),
         \A i \in 1 .. Len(q) : t[i] = q[i],
         NEW n, NEW told, NEW d, NEW e, e.confirmed <=> d.confirmed,
         \A k \in Len(q) + 1 .. Len(t) : t[k].gpio # n,
         Story(q, n, told, d)
  PROVE  Story(t, n, told, e)
<1>1. Mine(t, n) = Mine(q, n)
  <2>1. {k \in Len(q) + 1 .. Len(t) : t[k].gpio = n} = {}
    OBVIOUS
  <2>2. Mine(t, n) = Mine(q, n) \cup {k \in Len(q) + 1 .. Len(t) : t[k].gpio = n}
    BY MineGrows
  <2> QED
    BY <2>1, <2>2, Zenon
<1>2. \A i \in Mine(q, n) : t[i] = q[i]
  BY DEF Mine
<1> QED
  BY <1>1, <1>2 DEF Story

\* One more event of the pin, that turns its confirmed level.
LEMMA StoryGrows ==
  ASSUME NEW q \in Seq(EdgeEvents), NEW t \in Seq(EdgeEvents), Len(q) <= Len(t),
         \A i \in 1 .. Len(q) : t[i] = q[i],
         NEW n, NEW told, NEW d, NEW e,
         NEW k \in Len(q) + 1 .. Len(t), t[k].gpio = n,
         \A j \in Len(q) + 1 .. Len(t) : t[j].gpio = n => j = k,
         t[k].level <=> ~d.confirmed, e.confirmed <=> t[k].level,
         Story(q, n, told, d)
  PROVE  Story(t, n, told, e)
<1>1. Mine(t, n) = Mine(q, n) \cup {k}
  <2>1. {j \in Len(q) + 1 .. Len(t) : t[j].gpio = n} = {k}
    OBVIOUS
  <2>2. Mine(t, n) = Mine(q, n) \cup {j \in Len(q) + 1 .. Len(t) : t[j].gpio = n}
    BY MineGrows
  <2> QED
    BY <2>1, <2>2, Zenon
<1>2. \A i \in Mine(q, n) : t[i] = q[i] /\ i < k /\ i \in Nat
  BY DEF Mine
<1>3. k \in Nat
  OBVIOUS
<1>4. ASSUME NEW i \in Mine(t, n)
      PROVE  /\ (\A j \in Mine(t, n) : i <= j) => (t[i].level <=> n \notin told)
             /\ (\A j \in Mine(t, n) : j <= i) => (t[i].level <=> e.confirmed)
  <2>1. CASE i = k
    <3>1. (\A j \in Mine(t, n) : i <= j) => Mine(q, n) = {}
      <4>1. \A j \in Mine(q, n) : j \in Mine(t, n) /\ ~(i <= j)
        BY <1>1, <1>2, <1>3, <2>1
      <4> QED
        BY <4>1
    <3> QED
      BY <2>1, <3>1 DEF Story
  <2>2. CASE i # k
    <3>1. i \in Mine(q, n) /\ t[i] = q[i] /\ ~(k <= i)
      BY <1>1, <1>2, <1>3, <2>2
    <3> QED
      BY <1>1, <3>1 DEF Story
  <2> QED
    BY <2>1, <2>2
<1>5. ASSUME NEW i \in Mine(t, n), NEW j \in Mine(t, n), i < j,
             \A l \in Mine(t, n) : l <= i \/ j <= l
      PROVE  t[i].level <=> ~t[j].level
  <2>1. i \in Mine(q, n) /\ t[i] = q[i]
    BY <1>1, <1>2, <1>3, <1>5
  <2>2. CASE j = k
    <3>1. \A l \in Mine(q, n) : l <= i
      BY <1>1, <1>2, <1>3, <1>5, <2>2
    <3> QED
      BY <2>1, <2>2, <3>1 DEF Story
  <2>3. CASE j # k
    <3>1. j \in Mine(q, n) /\ t[j] = q[j]
      BY <1>1, <1>2, <2>3
    <3> QED
      BY <1>1, <1>5, <2>1, <3>1 DEF Story
  <2> QED
    BY <2>2, <2>3
<1>6. Mine(t, n) # {}
  BY <1>1
<1> QED
  BY <1>4, <1>5, <1>6 DEF Story

\* The queue loses its first m events, and the host is told of them: the level
\* told of a pin becomes that of its last event among them.
LEMMA StoryShrinks ==
  ASSUME NEW q \in Seq(EdgeEvents), NEW s \in Seq(EdgeEvents),
         NEW m \in 0 .. Len(q), Len(s) = Len(q) - m,
         \A i \in 1 .. Len(s) : s[i] = q[m + i],
         NEW n, NEW told, NEW now_told, NEW d,
         (\A i \in Mine(q, n) : m < i) => (n \in now_told <=> n \in told),
         \A i \in Mine(q, n) :
           (i <= m /\ \A j \in Mine(q, n) : j <= i \/ m < j)
             => (n \in now_told <=> q[i].level),
         Story(q, n, told, d)
  PROVE  Story(s, n, now_told, d)
<1>1. Len(q) \in Nat /\ m \in Nat /\ Len(s) \in Nat
  OBVIOUS
<1>2. \A i \in Mine(s, n) : m + i \in Mine(q, n) /\ s[i] = q[m + i] /\ i \in Nat \ {0}
  BY <1>1 DEF Mine
<1>3. \A j \in Mine(q, n) : /\ j \in Nat
                            /\ j <= m \/ (j - m \in Mine(s, n) /\ m < j)
  <2> TAKE j \in Mine(q, n)
  <2>1. j \in 1 .. Len(q) /\ q[j].gpio = n
    BY DEF Mine
  <2>2. CASE m < j
    <3>1. j - m \in 1 .. Len(s) /\ m + (j - m) = j
      BY <1>1, <2>1, <2>2
    <3> QED
      BY <2>1, <2>2, <3>1 DEF Mine
  <2> QED
    BY <1>1, <2>1, <2>2
<1>4. \/ \A i \in Mine(q, n) : m < i
      \/ \E i \in Mine(q, n) : i <= m /\ \A j \in Mine(q, n) : j <= i \/ m < j
  <2> DEFINE S == {i \in Mine(q, n) : i <= m}
  <2>1. S \in SUBSET (1 .. m)
    BY <1>1 DEF Mine
  <2>2. CASE S = {}
    BY <1>1, <1>3, <2>2
  <2>3. CASE S # {}
    <3>1. PICK i \in S : \A j \in S : j <= i
      <4> HIDE DEF S
      <4> QED
        BY <1>1, <2>1, <2>3, LastPlace
    <3>2. \A j \in Mine(q, n) : j <= i \/ m < j
      BY <1>1, <1>3, <3>1
    <3> QED
      BY <3>1, <3>2
  <2> QED
    BY <2>2, <2>3
<1>5. ASSUME Mine(s, n) = {}
      PROVE  n \in now_told <=> d.confirmed
  <2>1. \A j \in Mine(q, n) : j <= m
    BY <1>3, <1>5
  <2>2. CASE \A i \in Mine(q, n) : m < i
    <3>1. Mine(q, n) = {}
      BY <1>1, <1>3, <2>1, <2>2
    <3> QED
      BY <2>2, <3>1 DEF Story
  <2>3. CASE \E i \in Mine(q, n) : i <= m /\ \A j \in Mine(q, n) : j <= i \/ m < j
    <3>1. PICK i \in Mine(q, n) : i <= m /\ \A j \in Mine(q, n) : j <= i \/ m < j
      BY <2>3
    <3>2. \A j \in Mine(q, n) : j <= i
      BY <1>1, <1>3, <2>1, <3>1
    <3> QED
      BY <3>1, <3>2 DEF Story
  <2> QED
    BY <1>4, <2>2, <2>3
<1>6. ASSUME NEW i \in Mine(s, n), \A j \in Mine(s, n) : i <= j
      PROVE  s[i].level <=> n \notin now_told
  <2>1. \A j \in Mine(q, n) : m < j => m + i <= j
    BY <1>1, <1>2, <1>3, <1>6
  <2>2. CASE \A j \in Mine(q, n) : m < j
    <3>1. \A j \in Mine(q, n) : m + i <= j
      BY <2>1, <2>2
    <3> QED
      BY <1>2, <2>2, <3>1 DEF Story
  <2>3. CASE \E p \in Mine(q, n) : p <= m /\ \A j \in Mine(q, n) : j <= p \/ m < j
    <3>1. PICK p \in Mine(q, n) : p <= m /\ \A j \in Mine(q, n) : j <= p \/ m < j
      BY <2>3
    <3>2. p < m + i /\ \A j \in Mine(q, n) : j <= p \/ m + i <= j
      BY <1>1, <1>2, <1>3, <2>1, <3>1
    <3>3. q[p].level <=> ~q[m + i].level
      BY <1>2, <3>1, <3>2 DEF Story
    <3> QED
      BY <1>2, <3>1, <3>3
  <2> QED
    BY <1>4, <2>2, <2>3
<1>7. ASSUME NEW i \in Mine(s, n), \A j \in Mine(s, n) : j <= i
      PROVE  s[i].level <=> d.confirmed
  <2>1. \A j \in Mine(q, n) : j <= m + i
    BY <1>1, <1>2, <1>3, <1>7
  <2> QED
    BY <1>2, <2>1 DEF Story
<1>8. ASSUME NEW i \in Mine(s, n), NEW j \in Mine(s, n), i < j,
             \A k \in Mine(s, n) : k <= i \/ j <= k
      PROVE  s[i].level <=> ~s[j].level
  <2>1. m + i < m + j /\ \A k \in Mine(q, n) : k <= m + i \/ m + j <= k
    <3>1. m + i < m + j
      BY <1>1, <1>2, <1>8
    <3>2. ASSUME NEW k \in Mine(q, n)
          PROVE  k <= m + i \/ m + j <= k
      <4>1. CASE k <= m
        BY <1>1, <1>2, <1>3, <4>1
      <4>2. CASE k - m \in Mine(s, n)
        BY <1>1, <1>2, <1>3, <1>8, <4>2
      <4> QED
        BY <1>3, <4>1, <4>2
    <3> QED
      BY <3>1, <3>2
  <2> QED
    BY <1>2, <2>1 DEF Story
<1> QED
  BY <1>5, <1>6, <1>7, <1>8 DEF Story

-----------------------------------------------------------------------------
(***************************************************************************)
(* The queue of the engine                                                 *)
(***************************************************************************)

\* Pushing the events of a set with at most one event of the pin, which turns
\* its confirmed level, none being dropped.
LEMMA StoryPushed ==
  ASSUME EngineAssumption, ProtocolAssumption, FifoTypeOK,
         NEW E \in SUBSET EdgeEvents, \A x, y \in E : x.gpio = y.gpio => x = y,
         NEW events \in InGpioOrder(E), PushEvents(events), ~overflowed',
         NEW n, NEW told, NEW d, NEW e, Story(queue, n, told, d),
         \A x \in E : x.gpio = n => /\ x.level <=> ~d.confirmed
                                    /\ e.confirmed <=> x.level,
         (\A x \in E : x.gpio # n) => (e.confirmed <=> d.confirmed)
  PROVE  Story(queue', n, told, e)
<1>1. /\ events \in Seq(EdgeEvents) /\ Len(events) \in Nat
      /\ {events[i] : i \in 1 .. Len(events)} = E
      /\ \A i, j \in 1 .. Len(events) : i < j => events[i].gpio < events[j].gpio
  BY Ordered DEF ProtocolAssumption
<1>2. PushAll(events) /\ QUEUE_SIZE \in Nat
  BY DEF PushEvents, EngineAssumption
<1>3. /\ queue \in Seq(EdgeEvents) /\ queue' \in Seq(EdgeEvents)
      /\ Len(queue) <= Len(queue')
      /\ Len(queue') = Least(Len(queue) + Len(events), QUEUE_SIZE)
      /\ \A i \in 1 .. Len(queue) : queue'[i] = queue[i]
      /\ \A i \in Len(queue) + 1 .. Len(queue') : queue'[i] = events[i - Len(queue)]
      /\ ~(Len(queue) + Len(events) > QUEUE_SIZE)
  BY <1>1, <1>2, Pushed DEF FifoTypeOK
<1>4. Len(queue) \in Nat /\ Len(queue') = Len(queue) + Len(events)
  BY <1>1, <1>2, <1>3 DEF Least
<1>5. \A k \in Len(queue) + 1 .. Len(queue') :
        k - Len(queue) \in 1 .. Len(events) /\ queue'[k] \in E
  <2> TAKE k \in Len(queue) + 1 .. Len(queue')
  <2>1. k - Len(queue) \in 1 .. Len(events)
    BY <1>1, <1>4
  <2> QED
    BY <1>1, <1>3, <2>1
<1>6. CASE \A k \in Len(queue) + 1 .. Len(queue') : queue'[k].gpio # n
  <2>1. \A x \in E : x.gpio # n
    <3> TAKE x \in E
    <3>1. PICK i \in 1 .. Len(events) : x = events[i]
      BY <1>1
    <3>2. Len(queue) + i \in Len(queue) + 1 .. Len(queue')
      BY <1>1, <1>4
    <3>3. (Len(queue) + i) - Len(queue) = i
      BY <1>1, <1>4
    <3> QED
      <4>1. queue'[Len(queue) + i] = x
        BY <1>3, <3>1, <3>2, <3>3
      <4> QED
        BY <1>6, <3>2, <4>1
  <2> QED
    BY <1>3, <1>6, <2>1, StoryKept
<1>7. CASE \E k \in Len(queue) + 1 .. Len(queue') : queue'[k].gpio = n
  <2>1. PICK k \in Len(queue) + 1 .. Len(queue') : queue'[k].gpio = n
    BY <1>7
  <2>2. /\ queue'[k].level <=> ~d.confirmed
        /\ e.confirmed <=> queue'[k].level
    BY <1>5, <2>1
  <2>3. ASSUME NEW j \in Len(queue) + 1 .. Len(queue'), queue'[j].gpio = n
        PROVE  j = k
    <3>1. events[j - Len(queue)].gpio = n /\ events[k - Len(queue)].gpio = n
      BY <1>3, <2>1, <2>3
    <3>2. n \in Nat
      BY <1>5, <2>1, ProtocolAssumption DEF EdgeEvents, GPIOS, ProtocolAssumption
    <3>3. ~(n < n)
      BY <3>2
    <3>4. j - Len(queue) \in 1 .. Len(events) /\ k - Len(queue) \in 1 .. Len(events)
      BY <1>5
    <3>5. ASSUME NEW a \in 1 .. Len(events), NEW b \in 1 .. Len(events),
                 events[a].gpio = n, events[b].gpio = n
          PROVE  ~(a < b)
      <4>1. a < b => events[a].gpio < events[b].gpio
        BY <1>1
      <4>2. a < b => n < n
        BY <3>5, <4>1, Zenon
      <4> QED
        BY <3>3, <4>2
    <3> QED
      BY <1>4, <3>1, <3>4, <3>5
  <2> QED
    BY <1>3, <2>1, <2>2, <2>3, StoryGrows
<1> QED
  BY <1>6, <1>7

\* The places of a pin's events, as EngineHistory names them.
LEMMA EventsAreMine ==
  ASSUME FifoTypeOK
  PROVE  \A n : EventsOf(n) = Mine(queue, n)
BY DEF FifoTypeOK, EventsOf, Mine

(***************************************************************************)
(* The inductive invariant: until an event is dropped, and but for the     *)
(* pins that got a new pull with events queued, the queue tells each       *)
(* monitored pin's story from the level the host was last told.            *)
(***************************************************************************)
Stories ==
  ~overflowed =>
    \A n \in monitored \ rebased : Story(queue, n, reported_levels, debounce[n])

\* It gives both properties of the queue.
LEMMA StoriesSuffice ==
  ASSUME TypeOK, Stories
  PROVE  QueueExplainsLevels /\ EventsAlternate
<1>1. FifoTypeOK
  BY DEF TypeOK
<1>2. \A n : EventsOf(n) = Mine(queue, n)
  BY <1>1, EventsAreMine
<1>3. \A n : \A i \in Mine(queue, n) : queue[i].level \in BOOLEAN
  <2>1. \A i \in 1 .. Len(queue) : queue[i] \in EdgeEvents
    BY <1>1, ElementOfSeq DEF FifoTypeOK
  <2> QED
    BY <2>1 DEF Mine, EdgeEvents
<1>4. QueueExplainsLevels
  BY <1>2 DEF QueueExplainsLevels, Stories, Story, LastOf
<1>5. EventsAlternate
  <2> SUFFICES ASSUME ~overflowed, NEW n \in monitored \ rebased
               PROVE  /\ \A i \in EventsOf(n) :
                           FirstOf(n, i) => (queue[i].level <=> n \notin reported_levels)
                      /\ \A i, j \in EventsOf(n) :
                           (i < j /\ \A k \in EventsOf(n) : k <= i \/ j <= k)
                             => queue[i].level # queue[j].level
    BY DEF EventsAlternate
  <2>1. Story(queue, n, reported_levels, debounce[n])
    BY DEF Stories
  <2>2. \A i \in EventsOf(n) :
          FirstOf(n, i) => (queue[i].level <=> n \notin reported_levels)
    BY <1>2, <2>1 DEF Story, FirstOf
  <2>3. ASSUME NEW i \in Mine(queue, n), NEW j \in Mine(queue, n),
               i < j, \A k \in Mine(queue, n) : k <= i \/ j <= k
        PROVE  queue[i].level # queue[j].level
    <3>1. queue[i].level <=> ~queue[j].level
      BY <2>1, <2>3 DEF Story
    <3> QED
      BY <1>3, <3>1, Zenon
  <2> QED
    BY <1>2, <2>2, <2>3
<1> QED
  BY <1>4, <1>5

-----------------------------------------------------------------------------
(***************************************************************************)
(* The steps                                                               *)
(***************************************************************************)

\* An edge of a pin.
LEMMA StoriesEdge ==
  ASSUME EngineAssumption, ProtocolAssumption, DebounceAssumption,
         TypeOK, Stories, UNCHANGED rebased,
         NEW gpio \in GPIOS, NEW b \in BOOLEAN, NEW t \in 0 .. now,
         OnEdge(gpio, b, t)
  PROVE  Stories'
<1>1. UNCHANGED <<monitored, reported_levels>> /\ FifoTypeOK /\ t \in Nat
  BY DEF OnEdge, publishedVars, TypeOK
<1>2. Edge(gpio, b, t)
  BY DEF OnEdge
<1>3. CASE gpio \notin Tracked
  BY <1>1, <1>2, <1>3 DEF Edge, queueVars, Stories
<1>4. CASE gpio \in Tracked
  <2>1. debounce' = [debounce EXCEPT ![gpio] = DebounceEdge(@, b, t)]
    BY <1>2, <1>4 DEF Edge
  <2>2. debounce \in [GPIOS -> Debouncers] /\ monitored \subseteq GPIOS
    BY DEF TypeOK
  <2>3. \A n \in monitored : n # gpio => debounce'[n] = debounce[n]
    BY <2>1, <2>2
  <2>4. debounce'[gpio].confirmed <=> IF EdgeConfirms(debounce[gpio], b) THEN b
                                      ELSE debounce[gpio].confirmed
    <3>1. debounce'[gpio] = DebounceEdge(debounce[gpio], b, t)
      BY <2>1, <2>2
    <3> QED
      BY <2>2, <3>1 DEF DebounceEdge, Debouncers
  <2>5. CASE ~EdgeConfirms(debounce[gpio], b)
    <3>1. UNCHANGED <<queue, overflowed>>
      BY <1>2, <1>4, <2>5 DEF Edge, queueVars
    <3>2. \A n \in monitored : debounce'[n].confirmed <=> debounce[n].confirmed
      BY <2>3, <2>4, <2>5
    <3> QED
      BY <1>1, <3>1, <3>2 DEF Stories, Story
  <2>6. CASE EdgeConfirms(debounce[gpio], b)
    <3> DEFINE x == [gpio |-> gpio, level |-> b, start_us |-> t]
    <3>1. x \in EdgeEvents
      BY <1>1 DEF EdgeEvents
    <3>2. PushEvents(<<x>>) /\ <<x>> \in InGpioOrder({x})
      <4>1. <<x>> \in [1 .. 1 -> {x}] /\ DOMAIN <<x>> = 1 .. 1 /\ <<x>>[1] = x
        OBVIOUS
      <4>2. Cardinality({x}) = 1
        BY FS_Singleton
      <4>3. \A i, j \in 1 .. 1 : ~(i < j)
        OBVIOUS
      <4>4. {<<x>>[i] : i \in 1 .. 1} = {x}
        BY <4>1
      <4> HIDE DEF x
      <4>5. <<x>> \in InGpioOrder({x})
        BY <4>1, <4>2, <4>3, <4>4 DEF InGpioOrder
      <4> QED
        BY <1>2, <1>4, <2>6, <4>5 DEF Edge, x
    <3>3. b <=> ~debounce[gpio].confirmed
      BY <2>2, <2>6 DEF EdgeConfirms, Debouncers
    <3>4. SUFFICES ASSUME ~overflowed', NEW n \in monitored \ rebased
                   PROVE  Story(queue', n, reported_levels, debounce'[n])
      BY <1>1 DEF Stories
    <3>5. ~overflowed
      BY <3>2, <3>4 DEF PushEvents, PushAll
    <3>6. Story(queue, n, reported_levels, debounce[n])
      BY <3>5 DEF Stories
    <3>7. /\ \A y \in {x} : y.gpio = n => /\ y.level <=> ~debounce[n].confirmed
                                          /\ debounce'[n].confirmed <=> y.level
          /\ (\A y \in {x} : y.gpio # n)
               => (debounce'[n].confirmed <=> debounce[n].confirmed)
      BY <2>3, <2>4, <2>6, <3>3
    <3> HIDE DEF x
    <3>8. {x} \in SUBSET EdgeEvents /\ \A y, z \in {x} : y.gpio = z.gpio => y = z
      BY <3>1
    <3> QED
      BY <1>1, <3>2, <3>4, <3>6, <3>7, <3>8, StoryPushed
  <2> QED
    BY <2>5, <2>6
<1> QED
  BY <1>3, <1>4

\* The resynchronisation of all tracked pins.
LEMMA StoriesResync ==
  ASSUME EngineAssumption, ProtocolAssumption, DebounceAssumption,
         TypeOK, Stories, UNCHANGED rebased,
         NEW raw \in SUBSET GPIOS, Resync(raw)
  PROVE  Stories'
<1> DEFINE differing == {n \in Tracked : (n \in raw) # debounce[n].raw}
           S == {m \in differing : EdgeConfirms(debounce[m], m \in raw)}
           E == {[gpio |-> n, level |-> n \in raw, start_us |-> now] : n \in S}
<1>1. UNCHANGED <<monitored, reported_levels>> /\ FifoTypeOK /\ now \in Nat
  BY DEF Resync, publishedVars, TypeOK
<1>2. debounce \in [GPIOS -> Debouncers] /\ monitored \subseteq GPIOS
  BY DEF TypeOK
<1>3. PICK events \in InGpioOrder(E) : PushEvents(events)
  BY DEF Resync
<1>4. \A n \in GPIOS : debounce'[n] = IF n \in differing
                                      THEN DebounceEdge(debounce[n], n \in raw, now)
                                      ELSE debounce[n]
  BY DEF Resync
<1>5. S \subseteq GPIOS /\ S \subseteq differing
  BY <1>2 DEF Tracked, TrackedPins
<1>6. E \in SUBSET EdgeEvents /\ \A x, y \in E : x.gpio = y.gpio => x = y
  <2> HIDE DEF S
  <2>1. \A n \in S : (n \in raw) \in BOOLEAN
    OBVIOUS
  <2>2. \A n \in S : [gpio |-> n, level |-> n \in raw, start_us |-> now] \in EdgeEvents
    BY <1>1, <1>5, <2>1 DEF EdgeEvents
  <2>3. \A e \in E : e = [gpio |-> e.gpio, level |-> e.gpio \in raw, start_us |-> now]
    OBVIOUS
  <2> QED
    BY <2>2, <2>3
<1>7. ASSUME NEW n \in monitored
      PROVE  debounce'[n].confirmed <=> IF n \in S THEN n \in raw
                                        ELSE debounce[n].confirmed
  <2>1. n \in GPIOS /\ debounce[n] \in Debouncers
    BY <1>2
  <2>2. CASE n \notin differing
    <3>1. debounce'[n] = debounce[n] /\ n \notin S
      BY <1>4, <1>5, <2>1, <2>2
    <3> QED
      BY <3>1
  <2>3. CASE n \in differing
    <3>1. debounce'[n] = DebounceEdge(debounce[n], n \in raw, now)
      BY <1>4, <2>1, <2>3
    <3>2. n \in S <=> EdgeConfirms(debounce[n], n \in raw)
      BY <2>3
    <3> HIDE DEF S, differing
    <3> QED
      BY <2>1, <3>1, <3>2 DEF DebounceEdge, Debouncers
  <2> QED
    BY <2>2, <2>3
<1>8. ASSUME NEW n \in monitored, n \in S
      PROVE  n \in raw <=> ~debounce[n].confirmed
  <2>1. n \in GPIOS /\ debounce[n] \in Debouncers
    BY <1>2
  <2>2. (n \in raw) # debounce[n].confirmed
    BY <1>8 DEF EdgeConfirms
  <2> QED
    BY <2>1, <2>2 DEF Debouncers
<1>9. SUFFICES ASSUME ~overflowed', NEW n \in monitored \ rebased
               PROVE  Story(queue', n, reported_levels, debounce'[n])
  BY <1>1 DEF Stories
<1>10. ~overflowed
  BY <1>3, <1>9 DEF PushEvents, PushAll
<1>11. Story(queue, n, reported_levels, debounce[n])
  BY <1>10 DEF Stories
<1>12. \A x \in E : x.gpio \in S /\ (x.level <=> x.gpio \in raw)
  <2> HIDE DEF S
  <2> TAKE x \in E
  <2>1. PICK m \in S : x = [gpio |-> m, level |-> m \in raw, start_us |-> now]
    OBVIOUS
  <2>2. x.gpio = m /\ x.level = (m \in raw)
    BY <2>1
  <2> QED
    BY <2>2, Zenon
<1>13. n \in S => \E x \in E : x.gpio = n
  <2> HIDE DEF S
  <2> HAVE n \in S
  <2>1. [gpio |-> n, level |-> n \in raw, start_us |-> now] \in E
    OBVIOUS
  <2>2. [gpio |-> n, level |-> n \in raw, start_us |-> now].gpio = n
    OBVIOUS
  <2> HIDE DEF E
  <2> QED
    BY <2>1, <2>2
<1> HIDE DEF E, S, differing
<1>14. \A x \in E : x.gpio = n => /\ x.level <=> ~debounce[n].confirmed
                                  /\ debounce'[n].confirmed <=> x.level
  BY <1>7, <1>8, <1>12
<1>15. (\A x \in E : x.gpio # n) => (debounce'[n].confirmed <=> debounce[n].confirmed)
  BY <1>7, <1>13
<1> QED
  BY <1>1, <1>3, <1>6, <1>9, <1>11, <1>14, <1>15, StoryPushed

\* A pass of the task: first the pins that settle, told as they are first
\* read, then the changes that have been stable for long enough.
LEMMA StoriesTask ==
  ASSUME EngineAssumption, ProtocolAssumption, DebounceAssumption,
         TypeOK, PublishedFollowsConfig, DebounceFollowsConfig, Stories,
         NEW raw \in SUBSET settling, HistTask(raw)
  PROVE  Stories'
<1> DEFINE settled == SettledDebounce(raw)
           ripe == {n \in TrackedPins(monitored', settling') :
                      PollConfirms(settled[n], now)}
           E == {[gpio |-> n, level |-> settled[n].raw,
                  start_us |-> settled[n].last_change_us] : n \in ripe}
<1>1. /\ Task(raw) /\ FifoTypeOK
      /\ rebased' = IF SettleDue
                    THEN rebased \cup {n \in settling : EventsOf(n) # {}}
                    ELSE rebased
  BY DEF HistTask, TypeOK
<1>2. /\ debounce \in [GPIOS -> Debouncers]
      /\ monitored \subseteq GPIOS /\ monitored' \subseteq GPIOS
  BY <1>1, TaskTypes DEF TypeOK
<1>3. PICK events \in InGpioOrder(E) : PushEvents(events)
  BY <1>1 DEF Task
<1>4. ripe = {n \in Tracked' : PollConfirms(settled[n], now)}
  BY <1>1 DEF Tracked, TrackedPins, Task, pinVars
<1>5. \A n \in ripe : n \in GPIOS /\ settled[n] \in Debouncers
                      /\ (settled[n].raw <=> ~settled[n].confirmed)
  <2> TAKE n \in ripe
  <2>1. n \in Tracked' /\ PollConfirms(settled[n], now)
    BY <1>4
  <2>2. n \in GPIOS /\ settled[n] \in Debouncers
        /\ Follows(settled[n], config[n].param)
    BY <1>1, <2>1, SettledFollows
  <2> HIDE DEF settled
  <2> QED
    BY <2>1, <2>2 DEF Follows, PollConfirms, Debouncers
<1>6. \A n \in GPIOS : debounce'[n] = IF n \in ripe THEN DebouncePoll(settled[n])
                                      ELSE settled[n]
  BY <1>1 DEF Task
<1>7. SUFFICES ASSUME ~overflowed', NEW n \in monitored' \ rebased'
               PROVE  Story(queue', n, reported_levels', debounce'[n])
  BY DEF Stories
<1>8. ~overflowed
  BY <1>3, <1>7 DEF PushEvents, PushAll
<1>9. Story(queue, n, reported_levels', settled[n])
  <2>1. CASE SettleDue /\ n \in settling
    <3>1. Mine(queue, n) = {}
      BY <1>1, <1>7, <2>1, EventsAreMine
    <3>2. settled[n].confirmed <=> n \in raw
      BY <1>2, <1>7, <2>1 DEF SettledDebounce, DebounceReset
    <3>3. n \in reported_levels' <=> n \in raw
      BY <1>1, <1>7, <2>1 DEF Task, FinishSettle, SettledLevels
    <3> QED
      BY <3>1, <3>2, <3>3 DEF Story
  <2>2. CASE SettleDue /\ n \notin settling
    <3>1. n \in InputMask(config) /\ n \in monitored \ rebased
      BY <1>1, <1>7, <2>2 DEF Task, FinishSettle, PublishedFollowsConfig
    <3>2. settled[n] = debounce[n]
      BY <1>2, <1>7, <2>2 DEF SettledDebounce
    <3>3. n \in reported_levels' <=> n \in reported_levels
      BY <1>1, <2>2, <3>1 DEF Task, FinishSettle, SettledLevels
    <3>4. Story(queue, n, reported_levels, debounce[n])
      BY <1>8, <3>1 DEF Stories
    <3> QED
      BY <3>2, <3>3, <3>4 DEF Story
  <2>3. CASE ~SettleDue
    <3>1. UNCHANGED <<monitored, reported_levels, rebased>>
      BY <1>1, <2>3 DEF Task, publishedVars
    <3>2. settled[n] = debounce[n]
      BY <1>2, <1>7, <2>3 DEF SettledDebounce
    <3> QED
      BY <1>7, <1>8, <3>1, <3>2 DEF Stories
  <2> QED
    BY <2>1, <2>2, <2>3
<1> HIDE DEF settled, ripe
<1>10. E \in SUBSET EdgeEvents /\ \A x, y \in E : x.gpio = y.gpio => x = y
  <2>1. \A m \in ripe : [gpio |-> m, level |-> settled[m].raw,
                         start_us |-> settled[m].last_change_us] \in EdgeEvents
    BY <1>5 DEF EdgeEvents, Debouncers
  <2>2. \A x \in E : x = [gpio |-> x.gpio, level |-> settled[x.gpio].raw,
                          start_us |-> settled[x.gpio].last_change_us]
    OBVIOUS
  <2> QED
    BY <2>1, <2>2
<1>11. \A x \in E : x.gpio \in ripe /\ x.level = settled[x.gpio].raw
  OBVIOUS
<1>12. n \in ripe => \E x \in E : x.gpio = n
  <2> HAVE n \in ripe
  <2> DEFINE x == [gpio |-> n, level |-> settled[n].raw,
                   start_us |-> settled[n].last_change_us]
  <2>1. x \in E /\ x.gpio = n
    OBVIOUS
  <2> HIDE DEF E, x
  <2> QED
    BY <2>1
<1> HIDE DEF E
<1>13. n \in GPIOS
  BY <1>2, <1>7
<1>14. \A x \in E : x.gpio = n => /\ x.level <=> ~settled[n].confirmed
                                  /\ debounce'[n].confirmed <=> x.level
  <2> SUFFICES ASSUME NEW x \in E, x.gpio = n
               PROVE  /\ x.level <=> ~settled[n].confirmed
                      /\ debounce'[n].confirmed <=> x.level
    OBVIOUS
  <2>1. n \in ripe /\ x.level = settled[n].raw
    BY <1>11
  <2>2. debounce'[n] = DebouncePoll(settled[n]) /\ settled[n] \in Debouncers
    BY <1>5, <1>6, <1>13, <2>1
  <2>3. debounce'[n].confirmed = settled[n].raw
    BY <2>2 DEF DebouncePoll, Debouncers
  <2> QED
    BY <1>5, <2>1, <2>3, Zenon
<1>15. (\A x \in E : x.gpio # n) => (debounce'[n].confirmed <=> settled[n].confirmed)
  BY <1>6, <1>12, <1>13
<1> QED
  BY <1>1, <1>3, <1>7, <1>9, <1>10, <1>14, <1>15, StoryPushed

\* A report tells the host of the first events; the one that empties the queue
\* tells of the confirmed levels, whatever was dropped.
LEMMA StoriesSend ==
  ASSUME EngineAssumption, ProtocolAssumption, TypeOK, Stories, HistSend
  PROVE  Stories'
<1> DEFINE m == Least(Len(queue), EVENTS_PER_REPORT)
<1>1. /\ queue \in Seq(EdgeEvents) /\ Len(queue) \in Nat
      /\ EVENTS_PER_REPORT \in Nat /\ monitored \subseteq GPIOS
  BY LenProperties DEF TypeOK, FifoTypeOK, EngineAssumption
<1>2. m \in 0 .. Len(queue) /\ m \in Nat /\ m <= Len(queue)
  BY <1>1 DEF Least
<1>3. /\ SendStatusReport /\ UNCHANGED <<monitored, debounce>>
      /\ overflowed' = (overflowed /\ ~Drained)
      /\ reported_levels' = Reflected \cap monitored
      /\ rebased' = IF Drained THEN {} ELSE rebased
  BY DEF HistSend, SendStatusReport, OverflowLeft
<1>4. /\ Len(NextEvents) = m
      /\ \A i \in 1 .. m : NextEvents[i] = queue[i]
      /\ DOMAIN NextEvents = 1 .. m
  <2>1. \A i \in 1 .. m : queue[i] \in EdgeEvents
    BY <1>1, <1>2, ElementOfSeq
  <2> HIDE DEF m
  <2>2. NextEvents = SubSeq(queue, 1, m)
    BY DEF NextEvents, m
  <2>3. /\ SubSeq(queue, 1, m) \in Seq(EdgeEvents)
        /\ Len(SubSeq(queue, 1, m)) = IF 1 <= m THEN m - 1 + 1 ELSE 0
        /\ \A i \in 1 .. m - 1 + 1 : SubSeq(queue, 1, m)[i] = queue[1 + i - 1]
    BY <1>2, <2>1, SubSeqProperties
  <2> QED
    BY <1>2, <2>2, <2>3
<1> HIDE DEF m
<1>5. /\ queue' \in Seq(EdgeEvents) /\ Len(queue') = Len(queue) - m
      /\ \A i \in 1 .. Len(queue') : queue'[i] = queue[m + i]
  <2>1. DropFirst(m)
    BY <1>3, <1>4 DEF SendStatusReport
  <2> QED
    BY <1>2, <2>1, Dropped DEF TypeOK
<1>6. CASE Drained
  <2>1. Len(queue') = 0
    BY <1>1, <1>5, <1>6 DEF Drained, m, Least
  <2>2. \A n : Mine(queue', n) = {}
    BY <2>1 DEF Mine
  <2>3. \A n \in monitored : n \in reported_levels' <=> debounce[n].confirmed
    BY <1>3, <1>6 DEF Reflected, ConfirmedLevels
  <2> QED
    BY <1>3, <2>2, <2>3 DEF Stories, Story
<1>7. CASE ~Drained
  <2>1. SUFFICES ASSUME ~overflowed, NEW n \in monitored \ rebased
                 PROVE  Story(queue', n, reported_levels', debounce[n])
    BY <1>3, <1>7 DEF Stories
  <2>2. Story(queue, n, reported_levels, debounce[n])
    BY <2>1 DEF Stories
  <2>3. n \in reported_levels' <=>
          \/ \E i \in 1 .. m : /\ queue[i].gpio = n /\ queue[i].level
                               /\ \A j \in 1 .. m : j > i => queue[j].gpio # n
          \/ n \in reported_levels /\ \A i \in 1 .. m : queue[i].gpio # n
    <3>1. n \in GPIOS /\ n \in monitored
      BY <1>1, <2>1
    <3>2. n \in reported_levels' <=> n \in AfterEvents(reported_levels, NextEvents)
      BY <1>3, <1>7, <3>1 DEF Reflected
    <3> QED
      BY <1>4, <3>1, <3>2 DEF AfterEvents
  <2>4. \A i \in 1 .. m : i \in Nat /\ i \in 1 .. Len(queue) /\ i <= m
    BY <1>1, <1>2
  <2>5. (\A i \in Mine(queue, n) : m < i)
          => (n \in reported_levels' <=> n \in reported_levels)
    <3> HAVE \A i \in Mine(queue, n) : m < i
    <3>1. \A i \in 1 .. m : queue[i].gpio # n
      BY <1>2, <2>4 DEF Mine
    <3> QED
      BY <2>3, <3>1
  <2>6. ASSUME NEW i \in Mine(queue, n), i <= m,
               \A j \in Mine(queue, n) : j <= i \/ m < j
        PROVE  n \in reported_levels' <=> queue[i].level
    <3>1. i \in 1 .. m /\ queue[i].gpio = n
      BY <1>1, <1>2, <2>6 DEF Mine
    <3>2. \A j \in 1 .. m : queue[j].gpio = n => j <= i
      BY <1>2, <2>4, <2>6 DEF Mine
    <3>3. \A j \in 1 .. m : j > i => queue[j].gpio # n
      BY <3>1, <3>2
    <3>4. \A k \in 1 .. m : (queue[k].gpio = n
                             /\ \A j \in 1 .. m : j > k => queue[j].gpio # n) => k = i
      BY <3>1, <3>2
    <3> QED
      BY <2>3, <3>1, <3>3, <3>4
  <2> QED
    BY <1>1, <1>2, <1>5, <2>2, <2>5, <2>6, StoryShrinks
<1> QED
  BY <1>6, <1>7

\* A change of the configuration touches no confirmed level.
LEMMA StoriesSet ==
  ASSUME DebounceAssumption, TypeOK, Stories, UNCHANGED rebased,
         NEW p, SetPinConfig(p)
  PROVE  Stories'
<1>1. UNCHANGED <<queue, overflowed, monitored, reported_levels, rebased>>
  BY DEF SetPinConfig, queueVars, publishedVars
<1>2. debounce \in [GPIOS -> Debouncers] /\ monitored \subseteq GPIOS
  BY DEF TypeOK
<1>3. \A n \in monitored : debounce'[n].confirmed <=> debounce[n].confirmed
  <2>1. CASE UNCHANGED debounce
    BY <2>1
  <2>2. CASE ApplyPinConfig(p.pins)
    <3> TAKE n \in monitored
    <3>1. \/ debounce'[n] = debounce[n]
          \/ debounce'[n] = DebounceSetTime(debounce[n], p.pins[n].param, now)
      BY <1>2, <2>2 DEF ApplyPinConfig
    <3>2. debounce[n] \in Debouncers
      BY <1>2
    <3> QED
      BY <3>1, <3>2 DEF DebounceSetTime, Debouncers
  <2> QED
    BY <2>1, <2>2 DEF SetPinConfig
<1> QED
  BY <1>1, <1>3 DEF Stories, Story

-----------------------------------------------------------------------------
(***************************************************************************)
(* The theorems                                                            *)
(***************************************************************************)

\* The history variables restrict no step.
LEMMA HistoryOnlyRecords == HistSpec => Spec
<1>1. HistInit => Init
  BY DEF HistInit
<1>2. [HistNext]_allVars => [Next]_vars
  BY DEF HistNext, HistTask, HistSend, Next, Step, allVars
<1> QED
  BY <1>1, <1>2, PTL DEF HistSpec, Spec

\* The inductive invariant holds.
LEMMA StoriesHold == HistSpec => []Stories
<1> USE ProtocolAssumption, DebounceAssumption, EngineAssumption
<1>1. HistInit => Stories
  BY DEF HistInit, Init, Stories
<1>2. TypeOK /\ PublishedFollowsConfig /\ DebounceFollowsConfig /\ Stories
        /\ [HistNext]_allVars => Stories'
  <2> SUFFICES ASSUME TypeOK, PublishedFollowsConfig, DebounceFollowsConfig,
                      Stories, [HistNext]_allVars
               PROVE  Stories'
    OBVIOUS
  <2>1. ASSUME UNCHANGED rebased, NEW gpio \in GPIOS, NEW b \in BOOLEAN,
               NEW t \in 0 .. now, OnEdge(gpio, b, t)
        PROVE  Stories'
    BY <2>1, StoriesEdge
  <2>2. ASSUME UNCHANGED rebased, NEW raw \in SUBSET GPIOS, Resync(raw)
        PROVE  Stories'
    BY <2>2, StoriesResync
  <2>3. ASSUME UNCHANGED rebased, NEW p \in Payloads, SetPinConfig(p)
        PROVE  Stories'
    BY <2>3, StoriesSet
  <2>4. ASSUME NEW raw \in SUBSET settling, HistTask(raw)
        PROVE  Stories'
    BY <2>4, StoriesTask
  <2>5. CASE HistSend
    BY <2>5, StoriesSend
  <2>6. CASE UNCHANGED <<queue, overflowed, monitored, reported_levels, debounce,
                         rebased>>
    BY <2>6 DEF Stories
  <2>7. ASSUME UNCHANGED rebased,
               (\E cmd \in OutputCmds : Output(cmd)) \/ UsbReset \/ Tick
        PROVE  Stories'
    BY <2>6, <2>7 DEF Output, UsbReset, Tick, queueVars, publishedVars
  <2>8. CASE UNCHANGED allVars
    BY <2>6, <2>8 DEF allVars, histVars, vars, queueVars, publishedVars
  <2> QED
    BY <2>1, <2>2, <2>3, <2>4, <2>5, <2>7, <2>8 DEF HistNext, Input
<1> QED
  BY <1>1, <1>2, HistoryOnlyRecords, TypeCorrect, PublishedCorrect,
     DebounceCorrect, PTL DEF HistSpec

(***************************************************************************)
(* The events queued of a pin lead from the level the host was last told   *)
(* to the pin's confirmed level, so that a report that leaves events in    *)
(* the queue can show the levels up to its own last event.                 *)
(***************************************************************************)
THEOREM QueueExplains == HistSpec => []QueueExplainsLevels
<1>1. TypeOK /\ Stories => QueueExplainsLevels
  BY StoriesSuffice
<1> QED
  BY <1>1, StoriesHold, HistoryOnlyRecords, TypeCorrect, PTL

(***************************************************************************)
(* The events queued of a pin alternate, starting away from the level the  *)
(* host was last told: every event handed to the host is a change of it.   *)
(***************************************************************************)
THEOREM EventsAreChanges == HistSpec => []EventsAlternate
<1>1. TypeOK /\ Stories => EventsAlternate
  BY StoriesSuffice
<1> QED
  BY <1>1, StoriesHold, HistoryOnlyRecords, TypeCorrect, PTL

-----------------------------------------------------------------------------
(***************************************************************************)
(* What the host was last told                                             *)
(***************************************************************************)

\* Reasons that announce a change of an output or of the configuration.
OutputReasons == {"CONFIG_CHANGED", "OUTPUT_APPLIED", "OUTPUT_RESET"}

(***************************************************************************)
(* The last report against the engine: its monitored pins and their levels *)
(* are those the queue counts from, unless a changed configuration is to   *)
(* be announced, and between settles the outputs are what it says unless   *)
(* one of their reasons is pending; and pins with a new pull wait for the  *)
(* queue to empty.                                                         *)
(***************************************************************************)
Told ==
  /\ monitored \cap outputs = {} /\ reported_levels \subseteq monitored
  /\ rebased # {} => Len(queue) > 0
  /\ (host_view # NoReport /\ "CONFIG_CHANGED" \notin pending_reasons) =>
       /\ host_view.monitored = monitored
       /\ host_view.levels \cap monitored = reported_levels
  /\ (/\ host_view # NoReport /\ ~settle_active
      /\ OutputReasons \cap pending_reasons = {}) =>
       host_view = [monitored |-> monitored, outputs |-> outputs,
                    levels |-> reported_levels \cup (output_levels \cap outputs)]

\* Pushing events leaves a queue that is not empty, not empty.
LEMMA PushKeepsEvents ==
  ASSUME EngineAssumption, FifoTypeOK, NEW events \in Seq(EdgeEvents),
         PushEvents(events), Len(queue) > 0
  PROVE  Len(queue') > 0
<1>1. Len(queue) <= Len(queue')
  BY Pushed DEF PushEvents, EngineAssumption
<1>2. Len(queue) \in Nat /\ Len(queue') \in Nat
  <2>1. FifoTypeOK'
    BY Pushed DEF PushEvents, EngineAssumption
  <2> QED
    BY <2>1, LenProperties DEF FifoTypeOK
<1> QED
  BY <1>1, <1>2

\* A pass of the task: the settle publishes new masks, and says so.
LEMMA ToldTask ==
  ASSUME EngineAssumption, ProtocolAssumption, DebounceAssumption,
         TypeOK, Told, NEW raw \in SUBSET settling, HistTask(raw)
  PROVE  Told'
<1>1. /\ Task(raw) /\ FifoTypeOK
      /\ UNCHANGED output_levels
      /\ pending_reasons' = pending_reasons \cup TaskReasons
  BY DEF HistTask, Task, pinVars, TypeOK
<1>2. PICK events \in Seq(EdgeEvents) : PushEvents(events)
  BY <1>1, TaskTypes
<1>3. rebased' # {} => Len(queue') > 0
  <2>1. rebased' # {} => Len(queue) > 0
    <3> SUFFICES ASSUME NEW n \in rebased'
                 PROVE  Len(queue) > 0
      OBVIOUS
    <3>1. CASE n \in rebased
      BY <3>1 DEF Told
    <3>2. CASE n \notin rebased
      <4>1. PICK i \in EventsOf(n) : TRUE
        BY <3>2 DEF HistTask
      <4>2. i \in 1 .. Len(queue) /\ Len(queue) \in Nat
        BY <1>1, <4>1, LenProperties DEF EventsOf, FifoTypeOK
      <4> QED
        BY <4>2
    <3> QED
      BY <3>1, <3>2
  <2> QED
    BY <1>1, <1>2, <2>1, PushKeepsEvents
<1>4. CASE SettleDue
  <2>1. /\ monitored' = InputMask(config) /\ outputs' = OutputMask(config)
        /\ reported_levels' \subseteq monitored'
    BY <1>1, <1>4 DEF Task, FinishSettle
  <2>2. monitored' \cap outputs' = {}
    BY <2>1, MaskMembers, ModesDiffer
  <2>3. config_changed => "CONFIG_CHANGED" \in pending_reasons'
    BY <1>1, <1>4 DEF TaskReasons
  <2>4. ~config_changed => host_view' = NoReport
    BY <1>4 DEF HistTask
  <2>5. NoReport' = NoReport /\ OutputReasons' = OutputReasons
    BY DEF NoReport, OutputReasons
  <2> QED
    BY <1>3, <2>1, <2>2, <2>3, <2>4, <2>5 DEF Told, OutputReasons
<1>5. CASE ~SettleDue
  <2>1. UNCHANGED <<monitored, outputs, reported_levels, settle_active, host_view>>
    BY <1>1, <1>5 DEF HistTask, Task, publishedVars, settleVars
  <2> QED
    BY <1>1, <1>3, <2>1 DEF Told, OutputReasons, NoReport
<1> QED
  BY <1>4, <1>5

\* A report tells what it clears the reasons of.
LEMMA ToldSend ==
  ASSUME EngineAssumption, ProtocolAssumption, TypeOK, Told, HistSend
  PROVE  Told'
<1>1. /\ SendStatusReport
      /\ UNCHANGED <<monitored, outputs, output_levels, settle_active>>
      /\ reported_levels' = Reflected \cap monitored
      /\ rebased' = IF Drained THEN {} ELSE rebased
      /\ host_view' = [monitored |-> monitored, outputs |-> outputs,
                       levels |-> (Reflected \cap monitored)
                                    \cup (output_levels \cap outputs)]
  BY DEF HistSend, SendStatusReport, settleVars, pinVars, StatusReport
<1>2. rebased' # {} => Len(queue') > 0
  <2> DEFINE m == Least(Len(queue), EVENTS_PER_REPORT)
  <2>1. Len(queue) \in Nat /\ EVENTS_PER_REPORT \in Nat
    BY LenProperties DEF TypeOK, FifoTypeOK, EngineAssumption
  <2>2. m \in Nat /\ m <= Len(queue)
    BY <2>1 DEF Least
  <2>3. Len(NextEvents) = m
    BY <2>1, <2>2, ElementOfSeq, SubSeqProperties DEF NextEvents, TypeOK, FifoTypeOK
  <2>4. Len(queue') = Len(queue) - m
    <3> HIDE DEF m
    <3>1. DropFirst(m)
      BY <1>1, <2>3 DEF SendStatusReport
    <3> QED
      BY <2>2, <3>1, Dropped DEF TypeOK
  <2>5. ~Drained => Len(queue) > m
    BY <2>1 DEF Drained, Least
  <2> HIDE DEF m
  <2> QED
    BY <1>1, <2>1, <2>2, <2>4, <2>5
<1> QED
  BY <1>1, <1>2 DEF Told

\* The last report stays true to the engine.
LEMMA ToldHolds == HistSpec => []Told
<1> USE ProtocolAssumption, DebounceAssumption, EngineAssumption
<1>1. HistInit => Told
  BY DEF HistInit, Init, Told
<1>2. TypeOK /\ Told /\ [HistNext]_allVars => Told'
  <2> SUFFICES ASSUME TypeOK, Told, [HistNext]_allVars
               PROVE  Told'
    OBVIOUS
  <2>1. ASSUME UNCHANGED <<monitored, outputs, reported_levels, output_levels,
                           settle_active, pending_reasons, rebased, host_view>>,
               Len(queue) > 0 => Len(queue') > 0
        PROVE  Told'
    BY <2>1 DEF Told, OutputReasons, NoReport
  <2>2. ASSUME UNCHANGED <<rebased, host_view>>, NEW n \in GPIOS, NEW raw \in BOOLEAN,
               NEW t \in 0 .. now, OnEdge(n, raw, t)
        PROVE  Told'
    <3>1. t \in Nat /\ Edge(n, raw, t)
      BY <2>2 DEF OnEdge, TypeOK
    <3>2. Len(queue) > 0 => Len(queue') > 0
      BY <3>1, EdgeTypes, PushKeepsEvents DEF TypeOK, queueVars
    <3> QED
      BY <2>1, <2>2, <3>2 DEF OnEdge, pinVars, publishedVars, settleVars
  <2>3. ASSUME UNCHANGED <<rebased, host_view>>, NEW raw \in SUBSET GPIOS, Resync(raw)
        PROVE  Told'
    <3>1. Len(queue) > 0 => Len(queue') > 0
      BY <2>3, ResyncTypes, PushKeepsEvents DEF TypeOK
    <3> QED
      BY <2>1, <2>3, <3>1 DEF Resync, pinVars, publishedVars, settleVars
  <2>4. ASSUME UNCHANGED <<rebased, host_view>>, NEW p \in Payloads, SetPinConfig(p)
        PROVE  Told'
    <3>1. UNCHANGED <<queue, monitored, outputs, reported_levels, pending_reasons>>
      BY <2>4 DEF SetPinConfig, queueVars, publishedVars
    <3>2. settle_active' \/ UNCHANGED <<settle_active, output_levels>>
      BY <2>4 DEF SetPinConfig, ApplyPinConfig, pinVars, settleVars
    <3> QED
      BY <2>4, <3>1, <3>2 DEF Told, OutputReasons, NoReport
  <2>5. ASSUME UNCHANGED <<rebased, host_view>>,
               (\E cmd \in OutputCmds : Output(cmd)) \/ UsbReset
        PROVE  Told'
    <3>1. UNCHANGED <<queue, monitored, outputs, reported_levels>>
      BY <2>5 DEF Output, UsbReset, queueVars, publishedVars
    <3>2. /\ OutputReasons \cap pending_reasons' # {}
          /\ pending_reasons \subseteq pending_reasons'
      BY <2>5 DEF Output, UsbReset, OutputReasons
    <3> QED
      BY <2>5, <3>1, <3>2 DEF Told, OutputReasons, NoReport
  <2>6. ASSUME NEW raw \in SUBSET settling, HistTask(raw)
        PROVE  Told'
    BY <2>6, ToldTask
  <2>7. CASE HistSend
    BY <2>7, ToldSend
  <2>8. CASE UNCHANGED <<rebased, host_view>> /\ Tick
    BY <2>1, <2>8 DEF Tick, pinVars, queueVars, publishedVars, settleVars
  <2>9. CASE UNCHANGED allVars
    BY <2>1, <2>9 DEF allVars, vars, pinVars, queueVars, publishedVars, settleVars,
                      histVars
  <2> QED
    BY <2>2, <2>3, <2>4, <2>5, <2>6, <2>7, <2>8, <2>9 DEF HistNext, Input
<1> QED
  BY <1>1, <1>2, HistoryOnlyRecords, TypeCorrect, PTL DEF HistSpec

(***************************************************************************)
(* A quiet device has told the host everything: with nothing to report and *)
(* no change settling, the last report shows what Get_Report would return. *)
(***************************************************************************)
THEOREM QuietDeviceHasTold == HistSpec => []QuietMeansTold
<1>1. TypeOK /\ Stories /\ Told => QuietMeansTold
  <2> SUFFICES ASSUME TypeOK, Stories, Told, ~ReportDue, ~settle_active,
                      host_view # NoReport
               PROVE  host_view = Snapshot
    BY DEF QuietMeansTold
  <2>1. pending_reasons = {} /\ queue = <<>> /\ ~overflowed
    BY DEF ReportDue
  <2>2. Len(queue) = 0 /\ rebased = {} /\ \A n : Mine(queue, n) = {}
    BY <2>1 DEF Told, Mine
  <2>3. \A n \in monitored : n \in reported_levels <=> debounce[n].confirmed
    BY <2>1, <2>2 DEF Stories, Story
  <2>4. ConfirmedLevels = reported_levels
    BY <2>3 DEF ConfirmedLevels, Told
  <2> QED
    BY <2>1, <2>4 DEF Told, Snapshot
<1> QED
  BY <1>1, StoriesHold, ToldHolds, HistoryOnlyRecords, TypeCorrect, PTL

(***************************************************************************)
(* The levels of a report are those of the report before it after its      *)
(* events, unless it announces a lost event or a changed configuration.    *)
(***************************************************************************)
THEOREM EachReportFollows == HistSpec => ReportsFollow
<1> DEFINE Follow ==
      (HistSend /\ host_view # NoReport
         /\ "OVERFLOW" \notin StatusReport.flags
         /\ "CONFIG_CHANGED" \notin pending_reasons) =>
        LET told == host_view.levels \cap host_view.monitored
        IN  /\ host_view.monitored = monitored
            /\ \A n \in monitored \ rebased :
                 n \in StatusReport.levels
                   <=> n \in AfterEvents(told, NextEvents)
<1>1. TypeOK /\ Stories /\ Told => Follow
  <2> SUFFICES ASSUME TypeOK, Stories, Told, host_view # NoReport,
                      "OVERFLOW" \notin StatusReport.flags,
                      "CONFIG_CHANGED" \notin pending_reasons
               PROVE  /\ host_view.monitored = monitored
                      /\ \A n \in monitored \ rebased :
                           n \in StatusReport.levels
                             <=> n \in AfterEvents(host_view.levels
                                                     \cap host_view.monitored,
                                                   NextEvents)
    OBVIOUS
  <2>1. /\ host_view.monitored = monitored
        /\ host_view.levels \cap host_view.monitored = reported_levels
    BY DEF Told
  <2>2. ASSUME NEW n \in monitored \ rebased
        PROVE  n \in StatusReport.levels <=> n \in AfterEvents(reported_levels, NextEvents)
    <3>1. n \in StatusReport.levels <=> n \in Reflected
      BY DEF StatusReport, Told
    <3>2. CASE ~Drained
      BY <3>1, <3>2 DEF Reflected
    <3>3. CASE Drained
      <4>1. n \in Reflected <=> debounce[n].confirmed
        BY <3>3 DEF Reflected, ConfirmedLevels
      <4>2. queue \in Seq(EdgeEvents) /\ Len(queue) \in Nat /\ n \in GPIOS
        BY LenProperties DEF TypeOK, FifoTypeOK
      <4>3. DOMAIN NextEvents = 1 .. Len(queue)
            /\ \A i \in 1 .. Len(queue) : NextEvents[i] = queue[i]
        <5>1. NextEvents = SubSeq(queue, 1, Len(queue))
          BY <3>3 DEF NextEvents, Drained, Least
        <5>2. \A i \in 1 .. Len(queue) : queue[i] \in EdgeEvents
          BY <4>2, ElementOfSeq
        <5> QED
          BY <4>2, <5>1, <5>2, SubSeqProperties
      <4>4. Story(queue, n, reported_levels, debounce[n])
        BY <3>3 DEF Stories, StatusReport, ReportFlags
      <4>5. CASE Mine(queue, n) = {}
        BY <3>1, <4>1, <4>2, <4>3, <4>4, <4>5 DEF Mine, Story, AfterEvents
      <4>6. CASE Mine(queue, n) # {}
        <5>1. PICK i \in Mine(queue, n) : \A j \in Mine(queue, n) : j <= i
          <6>1. Mine(queue, n) \in SUBSET (1 .. Len(queue))
            BY DEF Mine
          <6> QED
            BY <4>2, <4>6, <6>1, LastPlace
        <5>2. queue[i].level <=> debounce[n].confirmed
          BY <4>4, <5>1 DEF Story
        <5>3. i \in 1 .. Len(queue) /\ queue[i].gpio = n
          BY DEF Mine
        <5>4. \A k \in 1 .. Len(queue) :
                (queue[k].gpio = n
                 /\ \A j \in 1 .. Len(queue) : j > k => queue[j].gpio # n) <=> k = i
          BY <4>2, <5>1, <5>3 DEF Mine
        <5> QED
          BY <3>1, <4>1, <4>2, <4>3, <5>2, <5>3, <5>4 DEF AfterEvents
      <4> QED
        BY <4>5, <4>6
    <3> QED
      BY <3>2, <3>3
  <2> QED
    BY <2>1, <2>2
<1>2. TypeOK /\ Stories /\ Told => [Follow]_allVars
  BY <1>1
<1> QED
  BY <1>2, StoriesHold, ToldHolds, HistoryOnlyRecords, TypeCorrect, PTL
  DEF ReportsFollow

-----------------------------------------------------------------------------
(***************************************************************************)
(* Dropped events                                                          *)
(***************************************************************************)

(***************************************************************************)
(* The inductive invariant: the flag of the queue says exactly that an     *)
(* event was dropped that no report has announced.                         *)
(***************************************************************************)
Flagged == lost \in BOOLEAN /\ (lost <=> overflowed)

\* A push that drops events drops the last one's.
LEMMA LossNoted ==
  ASSUME EngineAssumption, FifoTypeOK, Flagged, RecordLoss,
         NEW events \in Seq(EdgeEvents), PushEvents(events),
         \A i, j \in 1 .. Len(events) : events[i].gpio = events[j].gpio => i = j,
         JustConfirmed = {events[i].gpio : i \in 1 .. Len(events)}
  PROVE  Flagged'
<1>1. /\ FifoTypeOK' /\ Len(queue) <= Len(queue')
      /\ Len(queue') = Least(Len(queue) + Len(events), QUEUE_SIZE)
      /\ \A i \in Len(queue) + 1 .. Len(queue') :
           queue'[i] = events[i - Len(queue)]
      /\ overflowed' <=> overflowed \/ Len(queue) + Len(events) > QUEUE_SIZE
  BY Pushed DEF PushEvents, EngineAssumption
<1>2. /\ Len(queue) \in Nat /\ Len(queue') \in Nat /\ Len(events) \in Nat
      /\ Len(queue) <= QUEUE_SIZE /\ QUEUE_SIZE \in Nat
  BY <1>1, LenProperties DEF FifoTypeOK, EngineAssumption
<1>3. DOMAIN queue' = 1 .. Len(queue') /\ DOMAIN queue = 1 .. Len(queue)
  BY <1>1 DEF FifoTypeOK
<1>4. \A g : g \in JustQueued <=>
               \E i \in Len(queue) + 1 .. Len(queue') : g = events[i - Len(queue)].gpio
  <2>1. (DOMAIN queue') \ (DOMAIN queue) = Len(queue) + 1 .. Len(queue')
    BY <1>2, <1>3
  <2>2. JustQueued = {queue'[i].gpio : i \in Len(queue) + 1 .. Len(queue')}
    BY <2>1 DEF JustQueued
  <2>3. \A i \in Len(queue) + 1 .. Len(queue') :
          queue'[i].gpio = events[i - Len(queue)].gpio
    BY <1>1
  <2> DEFINE new == Len(queue) + 1 .. Len(queue')
             pin(i) == events[i - Len(queue)].gpio
  <2>4. \A i \in new : queue'[i].gpio = pin(i)
    BY <2>3
  <2> HIDE DEF new, pin
  <2>5. JustQueued = {queue'[i].gpio : i \in new}
    BY <2>2 DEF new
  <2>6. \A g : g \in JustQueued <=> \E i \in new : g = pin(i)
    BY <2>4, <2>5
  <2> QED
    BY <2>6 DEF new, pin
<1>5. CASE Len(queue) + Len(events) > QUEUE_SIZE
  <2>1. Len(events) \in 1 .. Len(events) /\ Len(queue') = QUEUE_SIZE
    BY <1>1, <1>2, <1>5 DEF Least
  <2>2. events[Len(events)].gpio \in JustConfirmed
    BY <2>1
  <2>3. events[Len(events)].gpio \notin JustQueued
    <3>1. SUFFICES ASSUME NEW i \in Len(queue) + 1 .. Len(queue'),
                          events[Len(events)].gpio = events[i - Len(queue)].gpio
                   PROVE  FALSE
      BY <1>4
    <3>2. i - Len(queue) \in 1 .. Len(events) /\ i - Len(queue) < Len(events)
      BY <1>2, <1>5, <2>1
    <3>3. Len(events) = i - Len(queue)
      BY <2>1, <3>1, <3>2
    <3> QED
      BY <1>2, <3>2, <3>3
  <2>4. lost' = TRUE
    BY <2>2, <2>3 DEF RecordLoss
  <2> QED
    BY <1>1, <1>5, <2>4 DEF Flagged
<1>6. CASE ~(Len(queue) + Len(events) > QUEUE_SIZE)
  <2>1. Len(queue') = Len(queue) + Len(events)
    BY <1>1, <1>2, <1>6 DEF Least
  <2>2. ASSUME NEW i \in 1 .. Len(events)
        PROVE  events[i].gpio \in JustQueued
    <3>1. /\ Len(queue) + i \in Len(queue) + 1 .. Len(queue')
          /\ (Len(queue) + i) - Len(queue) = i
      BY <1>2, <2>1
    <3> QED
      BY <1>4, <3>1
  <2>3. JustConfirmed \subseteq JustQueued
    BY <2>2
  <2>4. lost' = lost
    BY <2>3 DEF RecordLoss, Flagged
  <2> QED
    BY <1>1, <1>6, <2>4 DEF Flagged
<1> QED
  BY <1>5, <1>6

\* Nothing is lost where nothing is confirmed.
LEMMA NothingLost ==
  ASSUME Flagged, RecordLoss, UNCHANGED overflowed,
         \A n \in GPIOS \ settling : debounce'[n].confirmed = debounce[n].confirmed
  PROVE  Flagged'
<1>1. JustConfirmed = {}
  BY DEF JustConfirmed
<1>2. lost' = lost
  BY <1>1 DEF RecordLoss, Flagged
<1> QED
  BY <1>2 DEF Flagged

\* An edge makes at most an event of its own pin.
LEMMA FlaggedEdge ==
  ASSUME EngineAssumption, ProtocolAssumption, DebounceAssumption,
         TypeOK, Flagged, RecordLoss,
         NEW gpio \in GPIOS, NEW b \in BOOLEAN, NEW t \in 0 .. now,
         OnEdge(gpio, b, t)
  PROVE  Flagged'
<1>1. FifoTypeOK /\ debounce \in [GPIOS -> Debouncers] /\ t \in Nat
  BY DEF TypeOK
<1>2. Edge(gpio, b, t)
  BY DEF OnEdge
<1>3. CASE gpio \notin Tracked
  BY <1>2, <1>3, NothingLost DEF Edge, queueVars
<1>4. CASE gpio \in Tracked
  <2>1. /\ debounce' = [debounce EXCEPT ![gpio] = DebounceEdge(@, b, t)]
        /\ gpio \notin settling
    BY <1>2, <1>4 DEF Edge, Tracked, TrackedPins
  <2>2. \A n \in GPIOS : n # gpio => debounce'[n] = debounce[n]
    BY <1>1, <2>1
  <2>3. debounce'[gpio].confirmed = IF EdgeConfirms(debounce[gpio], b) THEN b
                                    ELSE debounce[gpio].confirmed
    <3>1. debounce[gpio] \in Debouncers /\ debounce'[gpio] = DebounceEdge(debounce[gpio], b, t)
      BY <1>1, <2>1
    <3> QED
      BY <3>1 DEF DebounceEdge, Debouncers
  <2>4. CASE ~EdgeConfirms(debounce[gpio], b)
    <3>1. UNCHANGED overflowed
      BY <1>2, <1>4, <2>4 DEF Edge, queueVars
    <3> QED
      BY <2>2, <2>3, <2>4, <3>1, NothingLost
  <2>5. CASE EdgeConfirms(debounce[gpio], b)
    <3> DEFINE e == [gpio |-> gpio, level |-> b, start_us |-> t]
    <3>1. PushEvents(<<e>>)
      BY <1>2, <1>4, <2>5 DEF Edge
    <3>2. e \in EdgeEvents /\ e.gpio = gpio
      BY <1>1 DEF EdgeEvents
    <3>3. debounce'[gpio].confirmed # debounce[gpio].confirmed
      BY <2>3, <2>5 DEF EdgeConfirms
    <3>4. JustConfirmed = {gpio}
      BY <2>1, <2>2, <3>3 DEF JustConfirmed
    <3> HIDE DEF e
    <3>5. /\ <<e>> \in Seq(EdgeEvents) /\ Len(<<e>>) = 1 /\ <<e>>[1] = e
      BY <3>2
    <3>6. JustConfirmed = {<<e>>[i].gpio : i \in 1 .. Len(<<e>>)}
      BY <3>2, <3>4, <3>5
    <3>7. \A i, j \in 1 .. Len(<<e>>) : <<e>>[i].gpio = <<e>>[j].gpio => i = j
      BY <3>5
    <3> QED
      BY <1>1, <3>1, <3>5, <3>6, <3>7, LossNoted
  <2> QED
    BY <2>4, <2>5
<1> QED
  BY <1>3, <1>4

\* The events of a set with one event per pin, pushed in the order of the pins.
LEMMA FlaggedPush ==
  ASSUME EngineAssumption, ProtocolAssumption, FifoTypeOK, Flagged, RecordLoss,
         NEW E \in SUBSET EdgeEvents, \A e, f \in E : e.gpio = f.gpio => e = f,
         NEW events \in InGpioOrder(E), PushEvents(events),
         \A n : n \in JustConfirmed <=> \E e \in E : e.gpio = n
  PROVE  Flagged'
<1>1. /\ events \in Seq(EdgeEvents) /\ Len(events) \in Nat
      /\ {events[i] : i \in 1 .. Len(events)} = E
      /\ \A i, j \in 1 .. Len(events) : i < j => events[i].gpio < events[j].gpio
  BY Ordered DEF ProtocolAssumption
<1>2. JustConfirmed = {events[i].gpio : i \in 1 .. Len(events)}
  BY <1>1
<1>3. \A i, j \in 1 .. Len(events) : events[i].gpio = events[j].gpio => i = j
  <2> SUFFICES ASSUME NEW i \in 1 .. Len(events), NEW j \in 1 .. Len(events),
                      events[i].gpio = events[j].gpio, i < j
               PROVE  FALSE
    BY <1>1
  <2>1. events[i].gpio \in Int /\ events[i].gpio < events[j].gpio
    <3>1. events[i] \in EdgeEvents
      BY <1>1
    <3> QED
      BY <1>1, <3>1 DEF EdgeEvents, GPIOS
  <2> QED
    BY <2>1
<1> QED
  BY <1>1, <1>2, <1>3, LossNoted

\* A resynchronisation.
LEMMA FlaggedResync ==
  ASSUME EngineAssumption, ProtocolAssumption, DebounceAssumption,
         TypeOK, Flagged, RecordLoss, NEW raw \in SUBSET GPIOS, Resync(raw)
  PROVE  Flagged'
<1> DEFINE differing == {n \in Tracked : (n \in raw) # debounce[n].raw}
           S == {m \in differing : EdgeConfirms(debounce[m], m \in raw)}
           E == {[gpio |-> n, level |-> n \in raw, start_us |-> now] : n \in S}
<1>1. now \in Nat /\ FifoTypeOK /\ debounce \in [GPIOS -> Debouncers]
  BY DEF TypeOK
<1>2. Tracked \subseteq GPIOS \ settling
  BY DEF Tracked, TrackedPins, TypeOK
<1>3. debounce' = [n \in GPIOS |-> IF n \in differing
                                   THEN DebounceEdge(debounce[n], n \in raw, now)
                                   ELSE debounce[n]]
  BY DEF Resync
<1>4. PICK events \in InGpioOrder(E) : PushEvents(events)
  BY DEF Resync
<1>5. \A n \in S : n \in GPIOS /\ (n \in raw) \in BOOLEAN
  BY <1>2
<1>6. ASSUME NEW n \in GPIOS
      PROVE  debounce'[n].confirmed # debounce[n].confirmed <=> n \in S
  <2>1. debounce[n] \in Debouncers
    BY <1>1
  <2>2. DebounceEdge(debounce[n], n \in raw, now).confirmed
          = IF EdgeConfirms(debounce[n], n \in raw) THEN n \in raw
            ELSE debounce[n].confirmed
    BY <2>1 DEF DebounceEdge, Debouncers
  <2>3. debounce'[n].confirmed = IF n \in S THEN n \in raw ELSE debounce[n].confirmed
    BY <1>3, <2>2
  <2>4. n \in S => (n \in raw) # debounce[n].confirmed
    BY DEF EdgeConfirms
  <2> HIDE DEF S
  <2> QED
    BY <2>3, <2>4
<1>7. JustConfirmed = S
  BY <1>2, <1>6 DEF JustConfirmed
<1> HIDE DEF S
<1>8. \A n \in S : [gpio |-> n, level |-> n \in raw, start_us |-> now] \in EdgeEvents
  BY <1>1, <1>5 DEF EdgeEvents
<1>9. \A e \in E : /\ e.gpio \in S
                   /\ e = [gpio |-> e.gpio, level |-> e.gpio \in raw,
                           start_us |-> now]
  OBVIOUS
<1>10. ASSUME NEW n \in S
       PROVE  \E e \in E : e.gpio = n
  <2> DEFINE e == [gpio |-> n, level |-> n \in raw, start_us |-> now]
  <2>1. e \in E /\ e.gpio = n
    BY <1>10
  <2> QED
    BY <2>1
<1> HIDE DEF E
<1>11. E \in SUBSET EdgeEvents
  BY <1>8, <1>9
<1>12. \A e, f \in E : e.gpio = f.gpio => e = f
  BY <1>9
<1>13. \A n : n \in JustConfirmed <=> \E e \in E : e.gpio = n
  BY <1>7, <1>9, <1>10
<1> QED
  BY <1>1, <1>4, <1>11, <1>12, <1>13, FlaggedPush

\* What the task polls with a change pending is a pin that was tracked before.
LEMMA PendingWasTracked ==
  ASSUME TypeOK, PublishedFollowsConfig, NEW raw, Task(raw), NEW n \in Tracked',
         SettledDebounce(raw)[n].pending
  PROVE  n \in GPIOS /\ n \in Tracked /\ SettledDebounce(raw)[n] = debounce[n]
<1>1. n \in monitored' /\ n \notin settling' /\ ModeIsInput(config[n].mode)
  BY DEF Tracked, TrackedPins, Task, pinVars
<1>2. n \in GPIOS
  BY <1>1 DEF Task, FinishSettle, InputMask, TypeOK, publishedVars
<1>3. ~(SettleDue /\ n \in settling)
  BY <1>2 DEF SettledDebounce, DebounceReset
<1>4. SettledDebounce(raw)[n] = debounce[n]
  BY <1>2, <1>3 DEF SettledDebounce
<1>5. n \in monitored /\ n \notin settling
  <2>1. CASE SettleDue
    BY <1>1, <1>2, <1>3, <2>1, MaskMembers DEF PublishedFollowsConfig
  <2>2. CASE ~SettleDue
    BY <1>1, <2>2 DEF Task, publishedVars, settleVars
  <2> QED
    BY <2>1, <2>2
<1> QED
  BY <1>1, <1>2, <1>4, <1>5, TrackedMembers

\* A pass of the task: the first read of a pin is no change.
LEMMA FlaggedTask ==
  ASSUME EngineAssumption, ProtocolAssumption, DebounceAssumption,
         TypeOK, PublishedFollowsConfig, DebounceFollowsConfig,
         Flagged, RecordLoss, NEW raw \in SUBSET settling, Task(raw)
  PROVE  Flagged'
<1> DEFINE settled == SettledDebounce(raw)
           ripe == {n \in TrackedPins(monitored', settling') :
                      PollConfirms(settled[n], now)}
           E == {[gpio |-> n, level |-> settled[n].raw,
                  start_us |-> settled[n].last_change_us] : n \in ripe}
<1>1. FifoTypeOK /\ debounce \in [GPIOS -> Debouncers]
  BY DEF TypeOK
<1>2. TrackedPins(monitored', settling') = Tracked'
  BY DEF Task, pinVars, Tracked, TrackedPins
<1>3. PICK events \in InGpioOrder(E) : PushEvents(events)
  BY DEF Task
<1>4. \A n \in GPIOS : debounce'[n] = IF n \in ripe THEN DebouncePoll(settled[n])
                                      ELSE settled[n]
  BY DEF Task
<1>5. \A n \in GPIOS \ settling : settled[n] = debounce[n]
  BY DEF SettledDebounce
<1>6. ASSUME NEW n \in ripe
      PROVE  /\ n \in GPIOS /\ n \notin settling
             /\ settled[n] \in Debouncers /\ settled[n].raw # settled[n].confirmed
  <2>1. n \in Tracked' /\ settled[n].pending
    BY <1>2 DEF PollConfirms
  <2>2. n \in GPIOS /\ n \in Tracked /\ settled[n] = debounce[n]
    BY <2>1, PendingWasTracked
  <2>3. debounce[n].raw # debounce[n].confirmed
    BY <2>1, <2>2 DEF DebounceFollowsConfig
  <2> HIDE DEF settled
  <2> QED
    BY <1>1, <2>2, <2>3 DEF Tracked, TrackedPins
<1> HIDE DEF settled, ripe
<1>7. ASSUME NEW n \in GPIOS \ settling
      PROVE  debounce'[n].confirmed # debounce[n].confirmed <=> n \in ripe
  <2>1. settled[n] = debounce[n] /\ debounce[n] \in Debouncers
    BY <1>1, <1>5
  <2>2. CASE n \in ripe
    <3>1. debounce'[n] = DebouncePoll(debounce[n])
      BY <1>4, <2>1, <2>2
    <3>2. debounce'[n].confirmed = debounce[n].raw
      BY <2>1, <3>1 DEF DebouncePoll, Debouncers
    <3>3. debounce[n].raw # debounce[n].confirmed
      BY <1>6, <2>1, <2>2
    <3> QED
      BY <2>2, <3>2, <3>3
  <2>3. CASE n \notin ripe
    BY <1>4, <2>1, <2>3
  <2> QED
    BY <2>2, <2>3
<1>8. JustConfirmed = ripe
  BY <1>6, <1>7 DEF JustConfirmed
<1>9. \A n \in ripe : [gpio |-> n, level |-> settled[n].raw,
                       start_us |-> settled[n].last_change_us] \in EdgeEvents
  BY <1>6 DEF EdgeEvents, Debouncers
<1>10. \A e \in E : /\ e.gpio \in ripe
                    /\ e = [gpio |-> e.gpio, level |-> settled[e.gpio].raw,
                            start_us |-> settled[e.gpio].last_change_us]
  OBVIOUS
<1>11. ASSUME NEW n \in ripe
       PROVE  \E e \in E : e.gpio = n
  <2> DEFINE e == [gpio |-> n, level |-> settled[n].raw,
                   start_us |-> settled[n].last_change_us]
  <2>1. e \in E /\ e.gpio = n
    BY <1>11
  <2> QED
    BY <2>1
<1> HIDE DEF E
<1>12. E \in SUBSET EdgeEvents
  BY <1>9, <1>10
<1>13. \A e, f \in E : e.gpio = f.gpio => e = f
  BY <1>10
<1>14. \A n : n \in JustConfirmed <=> \E e \in E : e.gpio = n
  BY <1>8, <1>10, <1>11
<1> QED
  BY <1>1, <1>3, <1>12, <1>13, <1>14, FlaggedPush

\* The flag is cleared by the report that announces it, and by no other.
LEMMA FlaggedSend ==
  ASSUME Flagged, HistSend
  PROVE  Flagged'
<1>1. /\ overflowed' = (overflowed /\ ~Drained)
      /\ lost' = (lost /\ "OVERFLOW" \notin ReportFlags)
  BY DEF HistSend, SendStatusReport, OverflowLeft, StatusReport
<1>2. "OVERFLOW" \in ReportFlags <=> overflowed /\ Drained
  BY DEF ReportFlags
<1> QED
  BY <1>1, <1>2 DEF Flagged

\* The history of losses and the flag agree.
LEMMA FlaggedHolds == HistSpec => []Flagged
<1> USE ProtocolAssumption, DebounceAssumption, EngineAssumption
<1>1. HistInit => Flagged
  BY DEF HistInit, Init, FifoInit, Flagged
<1>2. TypeOK /\ PublishedFollowsConfig /\ DebounceFollowsConfig /\ Flagged
        /\ [HistNext]_allVars => Flagged'
  <2> SUFFICES ASSUME TypeOK, PublishedFollowsConfig, DebounceFollowsConfig,
                      Flagged, [HistNext]_allVars
               PROVE  Flagged'
    OBVIOUS
  <2>1. ASSUME RecordLoss, NEW gpio \in GPIOS, NEW b \in BOOLEAN,
               NEW t \in 0 .. now, OnEdge(gpio, b, t)
        PROVE  Flagged'
    BY <2>1, FlaggedEdge
  <2>2. ASSUME RecordLoss, NEW raw \in SUBSET GPIOS, Resync(raw)
        PROVE  Flagged'
    BY <2>2, FlaggedResync
  <2>3. ASSUME RecordLoss, NEW p \in Payloads, SetPinConfig(p)
        PROVE  Flagged'
    <3>1. \A n \in GPIOS : debounce'[n].confirmed = debounce[n].confirmed
      <4> TAKE n \in GPIOS
      <4>1. debounce[n] \in Debouncers
        BY DEF TypeOK
      <4>2. \/ debounce'[n] = debounce[n]
            \/ debounce'[n] = DebounceSetTime(debounce[n], p.pins[n].param, now)
        BY <2>3 DEF SetPinConfig, ApplyPinConfig
      <4> QED
        BY <4>1, <4>2 DEF DebounceSetTime, Debouncers
    <3>2. UNCHANGED overflowed
      BY <2>3 DEF SetPinConfig, queueVars
    <3> QED
      BY <2>3, <3>1, <3>2, NothingLost
  <2>4. ASSUME NEW raw \in SUBSET settling, HistTask(raw)
        PROVE  Flagged'
    BY <2>4, FlaggedTask DEF HistTask
  <2>5. CASE HistSend
    BY <2>5, FlaggedSend
  <2>6. ASSUME RecordLoss,
               (\E cmd \in OutputCmds : Output(cmd)) \/ UsbReset \/ Tick
        PROVE  Flagged'
    <3>1. UNCHANGED <<overflowed, debounce>>
      BY <2>6 DEF Output, UsbReset, Tick, queueVars
    <3> QED
      BY <2>6, <3>1, NothingLost
  <2>7. CASE UNCHANGED allVars
    BY <2>7 DEF allVars, histVars, vars, queueVars, Flagged
  <2> QED
    BY <2>1, <2>2, <2>3, <2>4, <2>5, <2>6, <2>7 DEF HistNext, Input
<1> QED
  BY <1>1, <1>2, HistoryOnlyRecords, TypeCorrect, PublishedCorrect,
     DebounceCorrect, PTL DEF HistSpec

(***************************************************************************)
(* A dropped event is announced, and only a dropped event: from then on    *)
(* the queue holds events, so that reports are due; those that leave some  *)
(* say MORE_EVENTS and no more; the one that empties the queue, and no     *)
(* other, carries OVERFLOW.                                                *)
(***************************************************************************)
THEOREM LossesAreAnnounced == HistSpec => OverflowAnnounced
<1> USE ProtocolAssumption, DebounceAssumption, EngineAssumption
<1> DEFINE Announced ==
      /\ "OVERFLOW" \in StatusReport.flags <=> lost /\ queue' = <<>>
      /\ "MORE_EVENTS" \in StatusReport.flags <=> queue' # <<>>
<1>1. TypeOK /\ Flagged /\ HistSend => Announced
  <2> SUFFICES ASSUME TypeOK, Flagged, SendStatusReport
               PROVE  Announced
    BY DEF HistSend
  <2>1. queue' = <<>> <=> Drained
    <3> DEFINE m == Least(Len(queue), EVENTS_PER_REPORT)
    <3>1. Len(queue) \in Nat /\ EVENTS_PER_REPORT \in Nat
      BY LenProperties DEF TypeOK, FifoTypeOK, EngineAssumption
    <3>2. m \in Nat /\ m <= Len(queue)
      BY <3>1 DEF Least
    <3>3. Len(NextEvents) = m
      <4>1. NextEvents = SubSeq(queue, 1, m)
        BY DEF NextEvents
      <4> HIDE DEF m
      <4> QED
        BY <3>2, <4>1 DEF TypeOK, FifoTypeOK
    <3>4. queue' \in Seq(EdgeEvents) /\ Len(queue') = Len(queue) - m
      <4> HIDE DEF m
      <4>1. DropFirst(m)
        BY <3>3 DEF SendStatusReport
      <4> QED
        BY <3>2, <4>1, Dropped DEF TypeOK
    <3>5. Drained <=> Len(queue') = 0
      BY <3>1, <3>4 DEF Drained, Least
    <3> QED
      BY <3>4, <3>5, EmptySeq
  <2>2. StatusReport.flags = ReportFlags
    BY DEF StatusReport
  <2> QED
    BY <2>1, <2>2 DEF ReportFlags, Flagged
<1>2. Flagged' /\ GapAfterEvents' => (lost' => queue' # <<>>)
  BY DEF Flagged, GapAfterEvents
<1> HIDE DEF Announced
<1>3. TypeOK /\ Flagged /\ Flagged' /\ GapAfterEvents'
        => [(lost' => queue' # <<>>) /\ (HistSend => Announced)]_allVars
  BY <1>1, <1>2
<1> QED
  BY <1>3, FlaggedHolds, GapsAreKept, HistoryOnlyRecords, TypeCorrect, PTL
  DEF OverflowAnnounced, Announced

-----------------------------------------------------------------------------
(***************************************************************************)
(* The times of edge events                                                *)
(***************************************************************************)

(***************************************************************************)
(* The inductive invariant: the wait of a pending change began no earlier  *)
(* than the last change of the pin the engine was told of.                 *)
(***************************************************************************)
Timed ==
  /\ changed_us \in [GPIOS -> Nat]
  /\ \A n \in GPIOS : changed_us[n] <= now
  /\ \A n \in Tracked :
       debounce[n].pending => changed_us[n] <= debounce[n].last_change_us

\* A new event of a pin comes a debounce time after its last change.
Stable(e) == now >= changed_us'[e.gpio] + config[e.gpio].param * US_PER_MS

\* A queue that does not grow has no new events.
LEMMA NothingNew ==
  ASSUME queue \in Seq(EdgeEvents), queue' \in Seq(EdgeEvents),
         Len(queue') <= Len(queue)
  PROVE  NewEvents = {}
<1>1. DOMAIN queue' = 1 .. Len(queue') /\ DOMAIN queue = 1 .. Len(queue)
  OBVIOUS
<1>2. Len(queue) \in Nat /\ Len(queue') \in Nat
  OBVIOUS
<1>3. (DOMAIN queue') \ (DOMAIN queue) = {}
  BY <1>1, <1>2
<1> QED
  BY <1>3 DEF NewEvents

\* The new events of a push are among those pushed.
LEMMA NewArePushed ==
  ASSUME EngineAssumption, FifoTypeOK, NEW events \in Seq(EdgeEvents),
         PushEvents(events)
  PROVE  \A e \in NewEvents : \E i \in 1 .. Len(events) : e = events[i]
<1>1. /\ FifoTypeOK' /\ Len(queue) <= Len(queue')
      /\ Len(queue') = Least(Len(queue) + Len(events), QUEUE_SIZE)
      /\ \A i \in Len(queue) + 1 .. Len(queue') :
           queue'[i] = events[i - Len(queue)]
  BY Pushed DEF PushEvents, EngineAssumption
<1>2. /\ Len(queue) \in Nat /\ Len(queue') \in Nat /\ Len(events) \in Nat
      /\ Len(queue') <= Len(queue) + Len(events)
  BY <1>1, LenProperties DEF FifoTypeOK, Least, EngineAssumption
<1>3. DOMAIN queue' = 1 .. Len(queue') /\ DOMAIN queue = 1 .. Len(queue)
  BY <1>1 DEF FifoTypeOK
<1> SUFFICES ASSUME NEW i \in (DOMAIN queue') \ (DOMAIN queue)
             PROVE  \E j \in 1 .. Len(events) : queue'[i] = events[j]
  BY DEF NewEvents
<1>4. i \in Len(queue) + 1 .. Len(queue') /\ i - Len(queue) \in 1 .. Len(events)
  BY <1>2, <1>3
<1> QED
  BY <1>1, <1>4

\* The pin of an event that is confirmed at once has no debounce time.
LEMMA ConfirmedAtOnce ==
  ASSUME TypeOK, DebounceFollowsConfig, NEW n \in Tracked, NEW raw,
         EdgeConfirms(debounce[n], raw)
  PROVE  config[n].param * US_PER_MS = 0
BY DEF DebounceFollowsConfig, EdgeConfirms

\* An edge from the edge buffer.
LEMMA TimedEdgeStep ==
  ASSUME EngineAssumption, ProtocolAssumption, DebounceAssumption, TypeOK,
         DebounceFollowsConfig, Timed,
         NEW gpio \in GPIOS, NEW raw \in BOOLEAN, NEW t \in 0 .. now,
         TimedEdge(gpio, raw, t)
  PROVE  Timed' /\ \A e \in NewEvents : Stable(e)
<1>1. /\ UNCHANGED <<now, config, monitored, settling>> /\ Tracked' = Tracked
      /\ Edge(gpio, raw, t)
      /\ changed_us' = [changed_us EXCEPT ![gpio] = IF gpio \in Tracked THEN t ELSE @]
  BY DEF TimedEdge, OnEdge, pinVars, publishedVars, settleVars, Tracked, TrackedPins
<1>2. now \in Nat /\ t \in Nat /\ t <= now
  BY DEF TypeOK, EngineAssumption
<1>3. CASE gpio \notin Tracked
  <2>1. /\ changed_us' = changed_us /\ debounce' = debounce
        /\ UNCHANGED <<queue, overflowed>>
    BY <1>1, <1>3 DEF Edge, Timed, queueVars
  <2>2. NewEvents = {}
    BY <2>1 DEF NewEvents
  <2> QED
    BY <1>1, <2>1, <2>2 DEF Timed
<1>4. CASE gpio \in Tracked
  <2>1. /\ debounce' = [debounce EXCEPT ![gpio] = DebounceEdge(@, raw, t)]
        /\ changed_us' = [changed_us EXCEPT ![gpio] = t]
    BY <1>1, <1>4 DEF Edge
  <2>2. Timed'
    <3>1. \A n \in Tracked : n \in GPIOS
      BY DEF Tracked, TrackedPins, TypeOK
    <3>2. debounce'[gpio].last_change_us = t
      BY <2>1 DEF TypeOK, DebounceEdge, Debouncers
    <3>3. \A n \in GPIOS : n # gpio => /\ debounce'[n] = debounce[n]
                                      /\ changed_us'[n] = changed_us[n]
      BY <2>1 DEF TypeOK, Timed
    <3>4. changed_us' \in [GPIOS -> Nat] /\ changed_us'[gpio] = t
      BY <1>2, <2>1 DEF Timed
    <3> QED
      BY <1>1, <1>2, <3>1, <3>2, <3>3, <3>4 DEF Timed
  <2>3. CASE ~EdgeConfirms(debounce[gpio], raw)
    <3>1. UNCHANGED queue
      BY <1>1, <1>4, <2>3 DEF Edge, queueVars
    <3>2. NewEvents = {}
      BY <3>1 DEF NewEvents
    <3> QED
      BY <2>2, <3>2
  <2>4. CASE EdgeConfirms(debounce[gpio], raw)
    <3> DEFINE pushed == [gpio |-> gpio, level |-> raw, start_us |-> t]
    <3>1. PushEvents(<<pushed>>)
      BY <1>1, <1>4, <2>4 DEF Edge
    <3>2. pushed \in EdgeEvents /\ pushed.gpio = gpio
      BY <1>2 DEF EdgeEvents
    <3> HIDE DEF pushed
    <3>3. <<pushed>> \in Seq(EdgeEvents) /\ Len(<<pushed>>) = 1 /\ <<pushed>>[1] = pushed
      BY <3>2
    <3>4. \A e \in NewEvents : e = pushed
      <4>1. \A e \in NewEvents : \E i \in 1 .. Len(<<pushed>>) : e = <<pushed>>[i]
        BY <3>1, <3>3, NewArePushed DEF TypeOK
      <4> QED
        BY <3>3, <4>1
    <3>5. config[gpio].param * US_PER_MS = 0 /\ changed_us'[gpio] = t
      BY <1>4, <2>1, <2>4, ConfirmedAtOnce DEF Timed
    <3>6. Stable(pushed)
      BY <1>2, <3>2, <3>5 DEF Stable
    <3> QED
      BY <2>2, <3>4, <3>6
  <2> QED
    BY <2>3, <2>4
<1> QED
  BY <1>3, <1>4

\* A resynchronisation.
LEMMA TimedResyncStep ==
  ASSUME EngineAssumption, ProtocolAssumption, DebounceAssumption, TypeOK,
         DebounceFollowsConfig, Timed, NEW raw \in SUBSET GPIOS, TimedResync(raw)
  PROVE  Timed' /\ \A e \in NewEvents : Stable(e)
<1> DEFINE differing == {n \in Tracked : (n \in raw) # debounce[n].raw}
           S == {m \in differing : EdgeConfirms(debounce[m], m \in raw)}
           E == {[gpio |-> n, level |-> n \in raw, start_us |-> now] : n \in S}
<1>1. /\ UNCHANGED <<now, config, monitored, settling>> /\ Tracked' = Tracked
      /\ debounce' = [n \in GPIOS |->
                        IF n \in differing
                        THEN DebounceEdge(debounce[n], n \in raw, now)
                        ELSE debounce[n]]
      /\ changed_us' = [n \in GPIOS |-> IF n \in differing THEN now ELSE changed_us[n]]
  BY DEF TimedResync, Resync, pinVars, publishedVars, settleVars, Tracked, TrackedPins
<1>2. now \in Nat
  BY DEF TypeOK
<1>3. Tracked \subseteq GPIOS
  BY DEF Tracked, TrackedPins, TypeOK
<1>4. ASSUME NEW n \in GPIOS
      PROVE  /\ n \in differing => /\ changed_us'[n] = now
                                   /\ debounce'[n].last_change_us = now
             /\ n \notin differing => /\ changed_us'[n] = changed_us[n]
                                      /\ debounce'[n] = debounce[n]
  <2> HIDE DEF differing
  <2>1. \A d \in Debouncers, b \in BOOLEAN : DebounceEdge(d, b, now).last_change_us = now
    BY DEF DebounceEdge, Debouncers
  <2>2. debounce[n] \in Debouncers /\ (n \in raw) \in BOOLEAN
    BY DEF TypeOK
  <2> QED
    BY <1>1, <2>1, <2>2
<1>5. Timed'
  <2> HIDE DEF differing
  <2>1. changed_us' \in [GPIOS -> Nat]
    BY <1>1, <1>2 DEF Timed
  <2>2. \A n \in GPIOS : changed_us'[n] <= now'
    BY <1>1, <1>2, <1>4 DEF Timed
  <2>3. \A n \in Tracked' :
          debounce'[n].pending => changed_us'[n] <= debounce'[n].last_change_us
    BY <1>1, <1>2, <1>3, <1>4 DEF Timed
  <2> QED
    BY <2>1, <2>2, <2>3 DEF Timed
<1>6. ASSUME NEW n \in S
      PROVE  n \in GPIOS /\ changed_us'[n] = now /\ config[n].param * US_PER_MS = 0
  BY <1>3, <1>4, ConfirmedAtOnce
<1>7. E \in SUBSET EdgeEvents /\ \A e, f \in E : e.gpio = f.gpio => e = f
  <2>1. \A n \in S : (n \in raw) \in BOOLEAN
    OBVIOUS
  <2> HIDE DEF S
  <2>2. \A n \in S : [gpio |-> n, level |-> n \in raw, start_us |-> now] \in EdgeEvents
    BY <1>2, <1>6, <2>1 DEF EdgeEvents
  <2>3. \A e \in E : e = [gpio |-> e.gpio, level |-> e.gpio \in raw, start_us |-> now]
    OBVIOUS
  <2> QED
    BY <2>2, <2>3
<1>8. \A e \in E : e.gpio \in S
  <2> HIDE DEF S
  <2> QED
    OBVIOUS
<1>9. PICK events \in InGpioOrder(E) : PushEvents(events)
  BY DEF TimedResync, Resync
<1> HIDE DEF E, S
<1>10. events \in Seq(EdgeEvents) /\ {events[i] : i \in 1 .. Len(events)} = E
  BY <1>7, Ordered DEF ProtocolAssumption
<1>11. \A e \in NewEvents : e \in E
  <2>1. \A e \in NewEvents : \E i \in 1 .. Len(events) : e = events[i]
    BY <1>9, <1>10, NewArePushed DEF TypeOK
  <2> QED
    BY <1>10, <2>1
<1>12. \A e \in E : Stable(e)
  BY <1>2, <1>6, <1>8 DEF Stable
<1> QED
  BY <1>5, <1>11, <1>12

\* A pass of the task: first reads, and the changes that have been stable.
LEMMA TimedTaskStep ==
  ASSUME EngineAssumption, ProtocolAssumption, DebounceAssumption, TypeOK,
         PublishedFollowsConfig, DebounceFollowsConfig, Timed,
         NEW raw \in SUBSET settling, Task(raw), UNCHANGED changed_us
  PROVE  Timed' /\ \A e \in NewEvents : Stable(e)
<1> DEFINE settled == SettledDebounce(raw)
           ripe == {n \in TrackedPins(monitored', settling') :
                      PollConfirms(settled[n], now)}
           E == {[gpio |-> n, level |-> settled[n].raw,
                  start_us |-> settled[n].last_change_us] : n \in ripe}
<1>1. UNCHANGED <<now, config>> /\ now \in Nat
  BY DEF Task, pinVars, TypeOK
<1>2. TrackedPins(monitored', settling') = Tracked'
  BY <1>1 DEF Tracked, TrackedPins
<1>3. ASSUME NEW n \in Tracked'
      PROVE  /\ n \in GPIOS /\ settled[n] \in Debouncers
             /\ settled[n].pending => n \in Tracked /\ settled[n] = debounce[n]
  BY <1>3, SettledFollows, PendingWasTracked
<1> HIDE DEF settled
<1>4. Timed'
  <2>1. ASSUME NEW n \in Tracked', debounce'[n].pending
        PROVE  changed_us[n] <= debounce'[n].last_change_us
    <3>1. debounce'[n] = IF n \in ripe THEN DebouncePoll(settled[n]) ELSE settled[n]
      BY <1>3 DEF Task, settled
    <3>2. debounce'[n] = settled[n]
      BY <1>3, <2>1, <3>1 DEF DebouncePoll, Debouncers
    <3> QED
      BY <1>3, <2>1, <3>2 DEF Timed
  <2> QED
    BY <1>1, <2>1 DEF Timed
<1>5. ASSUME NEW n \in ripe
      PROVE  /\ n \in GPIOS /\ settled[n] \in Debouncers
             /\ now >= changed_us'[n] + config[n].param * US_PER_MS
  <2>1. n \in Tracked' /\ PollConfirms(settled[n], now)
    BY <1>2
  <2>2. n \in Tracked /\ settled[n] = debounce[n] /\ n \in GPIOS
    BY <1>3, <2>1 DEF PollConfirms
  <2>3. /\ debounce[n].debounce_us = config[n].param * US_PER_MS
        /\ changed_us[n] <= debounce[n].last_change_us
    BY <2>1, <2>2 DEF DebounceFollowsConfig, Timed, PollConfirms
  <2>4. /\ changed_us[n] \in Nat /\ debounce[n].last_change_us \in Nat
        /\ debounce[n].debounce_us \in Nat
    BY <2>2 DEF Timed, TypeOK, Debouncers
  <2> QED
    BY <1>1, <1>3, <2>1, <2>2, <2>3, <2>4 DEF PollConfirms
<1>6. E \in SUBSET EdgeEvents /\ \A e, f \in E : e.gpio = f.gpio => e = f
  <2> HIDE DEF ripe
  <2>1. \A n \in ripe : [gpio |-> n, level |-> settled[n].raw,
                         start_us |-> settled[n].last_change_us] \in EdgeEvents
    BY <1>5 DEF EdgeEvents, Debouncers
  <2>2. \A e \in E : e = [gpio |-> e.gpio, level |-> settled[e.gpio].raw,
                          start_us |-> settled[e.gpio].last_change_us]
    OBVIOUS
  <2> QED
    BY <2>1, <2>2
<1>7. PICK events \in InGpioOrder(E) : PushEvents(events)
  BY DEF Task, settled
<1>8. \A e \in E : Stable(e)
  <2> HIDE DEF ripe
  <2>1. \A e \in E : e.gpio \in ripe
    OBVIOUS
  <2> QED
    BY <1>5, <2>1 DEF Stable
<1> HIDE DEF E, ripe
<1>9. events \in Seq(EdgeEvents) /\ {events[i] : i \in 1 .. Len(events)} = E
  BY <1>6, <1>7, Ordered DEF ProtocolAssumption
<1>10. \A e \in NewEvents : e \in E
  <2>1. \A e \in NewEvents : \E i \in 1 .. Len(events) : e = events[i]
    BY <1>7, <1>9, NewArePushed DEF TypeOK
  <2> QED
    BY <1>9, <2>1
<1> QED
  BY <1>4, <1>8, <1>10

\* A new configuration: a wait in progress starts again.
LEMMA TimedSetStep ==
  ASSUME EngineAssumption, DebounceAssumption, TypeOK, Timed, NEW next,
         ApplyPinConfig(next), UNCHANGED <<now, monitored, changed_us>>
  PROVE  Timed'
<1> SUFFICES ASSUME NEW n \in Tracked', debounce'[n].pending
             PROVE  changed_us[n] <= debounce'[n].last_change_us
  BY DEF Timed
<1>1. n \in monitored /\ n \notin SettlingAfter(next) /\ ModeIsInput(next[n].mode)
  BY DEF ApplyPinConfig, Tracked, TrackedPins
<1>2. n \in GPIOS
  BY <1>1 DEF TypeOK
<1>3. n \notin Driven(next) /\ n \notin Released(next)
  <2>1. /\ n \in Driven(next) => next[n].mode = MODE_OUTPUT
        /\ n \in Released(next) => ~ModeIsInput(next[n].mode)
    BY <1>2, FateOfPin, Zenon
  <2> QED
    BY <1>1, <2>1, ModesDiffer
<1>4. n \notin settling /\ n \notin Repulled(next)
  BY <1>1, <1>3 DEF SettlingAfter
<1>5. config[n].mode = next[n].mode
  BY <1>1, <1>2, <1>4, FateOfPin, Zenon
<1>6. n \in Tracked
  BY <1>1, <1>4, <1>5, TrackedMembers
<1>7. /\ debounce[n] \in Debouncers /\ changed_us[n] <= now
      /\ debounce[n].pending => changed_us[n] <= debounce[n].last_change_us
  BY <1>2, <1>6 DEF Timed, TypeOK
<1>8. debounce'[n] = IF n \in Retimed(next)
                     THEN DebounceSetTime(debounce[n], next[n].param, now)
                     ELSE debounce[n]
  BY <1>2 DEF ApplyPinConfig
<1> QED
  BY <1>7, <1>8 DEF DebounceSetTime, Debouncers

\* The record of the electrical changes restricts no step of the engine.
LEMMA TimingOnlyRecords == TimingSpec => Spec
<1>1. TimingInit => Init
  BY DEF TimingInit
<1>2. [TimingNext]_timingVars => [Next]_vars
  BY DEF TimingNext, TimedEdge, TimedResync, Next, Input, timingVars
<1> QED
  BY <1>1, <1>2, PTL DEF TimingSpec, Spec

\* Every step keeps the invariant and its new events are stable.
LEMMA TimedStep ==
  ASSUME EngineAssumption, ProtocolAssumption, DebounceAssumption, TypeOK, TypeOK',
         PublishedFollowsConfig, DebounceFollowsConfig, Timed,
         [TimingNext]_timingVars
  PROVE  Timed' /\ \A e \in NewEvents : Stable(e)
<1>1. ASSUME UNCHANGED <<queue, changed_us, debounce, monitored, settling, config>>,
             now <= now'
      PROVE  Timed' /\ \A e \in NewEvents : Stable(e)
  <2>1. NewEvents = {}
    BY <1>1 DEF NewEvents
  <2>2. now \in Nat /\ now' \in Nat
    BY DEF TypeOK
  <2> QED
    BY <1>1, <2>1, <2>2 DEF Timed, Tracked, TrackedPins
<1>2. CASE \E n \in GPIOS, raw \in BOOLEAN, t \in 0 .. now : TimedEdge(n, raw, t)
  BY <1>2, TimedEdgeStep
<1>3. CASE \E raw \in SUBSET GPIOS : TimedResync(raw)
  BY <1>3, TimedResyncStep
<1>4. ASSUME NEW p \in Payloads, SetPinConfig(p), UNCHANGED changed_us
      PROVE  Timed' /\ \A e \in NewEvents : Stable(e)
  <2>1. UNCHANGED <<now, queue, monitored>> /\ now \in Nat
    BY <1>4 DEF SetPinConfig, queueVars, publishedVars, TypeOK
  <2>2. \/ ApplyPinConfig(p.pins)
        \/ UNCHANGED <<config, debounce, settling>>
    BY <1>4 DEF SetPinConfig, pinVars, settleVars
  <2>3. NewEvents = {}
    BY <2>1 DEF NewEvents
  <2> QED
    BY <1>1, <1>4, <2>1, <2>2, <2>3, TimedSetStep
<1>5. ASSUME (\E cmd \in OutputCmds : Output(cmd)) \/ UsbReset, UNCHANGED changed_us
      PROVE  Timed' /\ \A e \in NewEvents : Stable(e)
  <2>1. UNCHANGED <<now, queue, debounce, monitored, settling, config>> /\ now \in Nat
    BY <1>5 DEF Output, UsbReset, queueVars, publishedVars, settleVars, TypeOK
  <2> QED
    BY <1>1, <1>5, <2>1
<1>6. ASSUME NEW raw \in SUBSET settling, Task(raw), UNCHANGED changed_us
      PROVE  Timed' /\ \A e \in NewEvents : Stable(e)
  BY <1>6, TimedTaskStep
<1>7. ASSUME SendStatusReport, UNCHANGED changed_us
      PROVE  Timed' /\ \A e \in NewEvents : Stable(e)
  <2>1. UNCHANGED <<now, debounce, monitored, settling, config>>
    BY <1>7 DEF SendStatusReport, pinVars, settleVars
  <2>2. Timed'
    BY <1>7, <2>1 DEF Timed, Tracked, TrackedPins
  <2>3. DropFirst(Len(NextEvents)) /\ queue \in Seq(EdgeEvents)
    BY <1>7 DEF SendStatusReport, TypeOK, FifoTypeOK
  <2>4. queue' \in Seq(EdgeEvents) /\ Len(queue') <= Len(queue)
    <3>1. queue' \in Seq(EdgeEvents)
      BY DEF TypeOK, FifoTypeOK
    <3>2. Len(NextEvents) \in Nat /\ Len(NextEvents) <= Len(queue)
      <4>1. /\ Len(queue) \in Nat
            /\ Least(Len(queue), EVENTS_PER_REPORT) \in 0 .. Len(queue)
        BY <2>3, LenProperties DEF Least, EngineAssumption
      <4> QED
        BY <2>3, <4>1, ElementOfSeq, SubSeqProperties DEF NextEvents
    <3>3. Len(queue') = Len(queue) - Len(NextEvents)
      BY <2>3, <3>2, Dropped DEF TypeOK
    <3> QED
      BY <2>3, <3>1, <3>2, <3>3, LenProperties
  <2>5. NewEvents = {}
    BY <2>3, <2>4, NothingNew
  <2> QED
    BY <2>2, <2>5
<1>8. CASE Tick /\ UNCHANGED changed_us
  <2>1. now' = now + 1 /\ now \in Nat
    BY <1>8 DEF Tick, TypeOK
  <2> QED
    BY <1>1, <1>8, <2>1 DEF Tick, queueVars, publishedVars, settleVars, pinVars
<1>9. CASE UNCHANGED timingVars
  <2>1. now \in Nat
    BY DEF TypeOK
  <2> QED
    BY <1>1, <1>9, <2>1 DEF timingVars, vars, queueVars, publishedVars, settleVars,
                            pinVars
<1> QED
  BY <1>2, <1>3, <1>4, <1>5, <1>6, <1>7, <1>8, <1>9 DEF TimingNext, Step

(***************************************************************************)
(* No chattering becomes an edge event: when an event of a pin is queued,  *)
(* the debounce time in force has passed since the last electrical change  *)
(* of the pin that the engine was told of (hp_engine_on_edge, _resync and  *)
(* _task of engine.c).                                                     *)
(***************************************************************************)
THEOREM QueuedEventsAreStable == TimingSpec => EventsAreStable
<1> USE EngineAssumption, ProtocolAssumption, DebounceAssumption
<1>1. TimingInit => Timed
  BY DEF TimingInit, Init, Timed, Tracked, TrackedPins
<1>2. TypeOK /\ TypeOK' /\ PublishedFollowsConfig /\ DebounceFollowsConfig /\ Timed
        /\ [TimingNext]_timingVars => Timed' /\ \A e \in NewEvents : Stable(e)
  BY TimedStep, Zenon
<1>3. (\A e \in NewEvents : Stable(e)) =>
        \A e \in NewEvents :
          now >= changed_us'[e.gpio] + config[e.gpio].param * US_PER_MS
  BY DEF Stable
<1> QED
  BY <1>1, <1>2, <1>3, TimingOnlyRecords, TypeCorrect, PublishedCorrect,
     DebounceCorrect, PTL DEF TimingSpec, EventsAreStable
=============================================================================
