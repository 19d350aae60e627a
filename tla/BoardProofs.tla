---------------------------- MODULE BoardProofs ----------------------------
(***************************************************************************)
(* Lemmas on the board that host programs share (FakeBoard), for those     *)
(* that use it: the library's copy of the validation agrees with the       *)
(* firmware's; what each operation of a board leaves alone; and that each  *)
(* of them keeps the board's types and the limit of its queues.            *)
(***************************************************************************)
EXTENDS DeviceAccess, ProtocolProofs, TLAPS

-----------------------------------------------------------------------------
(***************************************************************************)
(* Validation                                                              *)
(***************************************************************************)

(***************************************************************************)
(* The checks of the library find fault with the entries the firmware      *)
(* finds fault with, and for the same reason (protocol.rs against          *)
(* protocol.c).                                                            *)
(***************************************************************************)
LEMMA FaultyAgrees ==
  ASSUME NEW n \in GPIOS, NEW e
  PROVE  /\ Faulty(n, e, Available) <=> EntryResult(n, e) # "OK"
         /\ Faulty(n, e, Available) =>
              EntryResult(n, e) =
                IF BadMode(e) THEN "BAD_MODE"
                ELSE IF UnavailableGpio(n, e, Available) THEN "UNAVAILABLE_GPIO"
                ELSE IF UnusedWithParam(e) THEN "UNUSED_WITH_PARAM"
                ELSE "BAD_OUTPUT_LEVEL"
BY DEF Faulty, EntryResult, BadMode, UnavailableGpio, UnusedWithParam,
       BadOutputLevel

(***************************************************************************)
(* The library's copy of the validation (validate_pin_config_payload)      *)
(* gives every payload the reply of the firmware (pin_config_decode_set),  *)
(* the first faulty GPIO and the request id included.                      *)
(***************************************************************************)
THEOREM HostValidationAgrees ==
  \A p : ValidatePinConfigPayload(p, Available) = PinConfigDecodeSet(p)
<1> TAKE p
<1> DEFINE faulty == {n \in GPIOS : EntryResult(n, p.pins[n]) # "OK"}
           first  == CHOOSE n \in faulty : \A m \in faulty : n <= m
<1>1. faulty = {n \in GPIOS : Faulty(n, p.pins[n], Available)}
  BY FaultyAgrees
<1>2. GPIO_COUNT \in Nat /\ GPIOS \subseteq Nat
  BY ProtocolAssumption DEF GPIOS
<1>3. CASE p.len # REPORT_PAYLOAD_LEN
  BY <1>3 DEF ValidatePinConfigPayload, PinConfigDecodeSet
<1>4. CASE p.len = REPORT_PAYLOAD_LEN /\ faulty = {}
  BY <1>1, <1>4 DEF ValidatePinConfigPayload, PinConfigDecodeSet
<1>5. CASE p.len = REPORT_PAYLOAD_LEN /\ faulty # {}
  <2>1. first \in faulty
    <3>1. faulty \in SUBSET Nat
      BY <1>2
    <3> HIDE DEF faulty
    <3> QED
      BY <1>5, <3>1, LeastOfSet
  <2>2. Faulty(first, p.pins[first], Available) /\ first \in GPIOS
    BY <1>1, <2>1
  <2> QED
    BY <1>1, <1>5, <2>2, FaultyAgrees
    DEF ValidatePinConfigPayload, PinConfigDecodeSet
<1> QED
  BY <1>3, <1>4, <1>5

\* What Suits lets through is accepted by the board, under any request id.
LEMMA SuitsIsAccepted ==
  ASSUME NEW config, Suits(config, Available), NEW id
  PROVE  LET answer == ValidatePinConfigPayload(
                         EncodePinConfigSet(config, id), Available)
         IN  answer.result = "OK" /\ answer.request_id = id
BY DEF Suits, ValidatePinConfig, ValidatePinConfigPayload, EncodePinConfigSet,
       Encoded, REPORT_PAYLOAD_LEN

-----------------------------------------------------------------------------
(***************************************************************************)
(* What the operations of a board leave alone                              *)
(***************************************************************************)
BoardFields ==
  {"powered", "open_error", "version_ok", "config", "result", "request_id",
   "inputs", "levels", "next_seq", "last_seq", "overflow", "handles", "moved"}

HandleFields == {"state", "reports", "gap"}

\* The shape of a board, and no open handle on one without power.
BoardOK(b) ==
  /\ DOMAIN b = BoardFields
  /\ DOMAIN b.handles = Clients
  /\ \A c \in Clients : DOMAIN b.handles[c] = HandleFields
  /\ ~b.powered => \A c \in Clients : b.handles[c].state # "open"

\* The answer to the last Set is what it was, and no handle was opened.
Keeps(b, c) ==
  /\ c.result = b.result /\ c.request_id = b.request_id
  /\ c.config = b.config
  /\ \A h \in Clients : c.handles[h].state = "open" => b.handles[h].state = "open"

\* Queueing a report changes no state of a handle (testing.rs Board::send).
LEMMA QueuedKeeps ==
  ASSUME NEW h, DOMAIN h = HandleFields, NEW report
  PROVE  /\ DOMAIN Queued(h, report) = HandleFields
         /\ Queued(h, report).state = h.state
BY DEF Queued, HandleFields

\* Sending a report.
LEMMA SendKeeps ==
  ASSUME NEW b, BoardOK(b), NEW reason, NEW edges
  PROVE  /\ BoardOK(Send(b, reason, edges))
         /\ Keeps(b, Send(b, reason, edges))
<1> DEFINE flags  == IF b.overflow THEN {"OVERFLOW"} ELSE {}
           report == Status(b, {reason}, edges, b.next_seq, flags, 0)
           hs     == [c \in Clients |-> Queued(b.handles[c], report)]
           s      == Send(b, reason, edges)
<1>1. /\ DOMAIN s = BoardFields /\ s.handles = hs /\ s.powered = b.powered
      /\ s.result = b.result /\ s.request_id = b.request_id
      /\ s.config = b.config
  BY DEF Send, BoardOK, BoardFields
<1>2. \A c \in Clients : /\ DOMAIN hs[c] = HandleFields
                         /\ hs[c].state = b.handles[c].state
  BY QueuedKeeps DEF BoardOK
<1> HIDE DEF hs, s
<1>3. DOMAIN hs = Clients
  BY DEF hs
<1>4. BoardOK(s) /\ Keeps(b, s)
  BY <1>1, <1>2, <1>3 DEF BoardOK, Keeps
<1> QED
  BY <1>4 DEF s

\* Inputs, resets of the outputs and skipped reports.
LEMMA SmallStepsKeep ==
  ASSUME NEW b, BoardOK(b)
  PROVE  /\ BoardOK(OutputsReset(b)) /\ Keeps(b, OutputsReset(b))
         /\ BoardOK(FailHandles(b)) /\ Keeps(b, FailHandles(b))
         /\ \A c \in Clients : FailHandles(b).handles[c].state # "open"
         /\ \A n, high : /\ BoardOK(WithInput(b, n, high))
                         /\ Keeps(b, WithInput(b, n, high))
         /\ \A n : BoardOK(WithLevel(b, n)) /\ Keeps(b, WithLevel(b, n))
         /\ \A x : /\ BoardOK([b EXCEPT !.overflow = x])
                   /\ Keeps(b, [b EXCEPT !.overflow = x])
         /\ \A x : /\ BoardOK([b EXCEPT !.levels = x])
                   /\ Keeps(b, [b EXCEPT !.levels = x])
         /\ \A k : BoardOK(SkipReports(b, k)) /\ Keeps(b, SkipReports(b, k))
<1>1. BoardOK(OutputsReset(b)) /\ Keeps(b, OutputsReset(b))
  BY DEF BoardOK, Keeps, OutputsReset, BoardFields
<1>2. /\ BoardOK(FailHandles(b)) /\ Keeps(b, FailHandles(b))
      /\ \A c \in Clients : FailHandles(b).handles[c].state # "open"
  BY DEF BoardOK, Keeps, FailHandles, Failed, Closed, BoardFields, HandleFields
<1>3. \A n, high : /\ BoardOK(WithInput(b, n, high))
                   /\ Keeps(b, WithInput(b, n, high))
  BY DEF BoardOK, Keeps, WithInput, BoardFields
<1>4. \A n : BoardOK(WithLevel(b, n)) /\ Keeps(b, WithLevel(b, n))
  BY DEF BoardOK, Keeps, WithLevel, BoardFields
<1>5. \A x : /\ BoardOK([b EXCEPT !.overflow = x])
             /\ Keeps(b, [b EXCEPT !.overflow = x])
  BY DEF BoardOK, Keeps, BoardFields
<1>6. \A x : /\ BoardOK([b EXCEPT !.levels = x])
             /\ Keeps(b, [b EXCEPT !.levels = x])
  BY DEF BoardOK, Keeps, BoardFields
<1>7. \A k : BoardOK(SkipReports(b, k)) /\ Keeps(b, SkipReports(b, k))
  BY DEF BoardOK, Keeps, SkipReports, Skipped, BoardFields,
         HandleFields
<1> QED
  BY <1>1, <1>2, <1>3, <1>4, <1>5, <1>6, <1>7

\* One such step after another.
LEMMA KeepsTransitive ==
  ASSUME NEW a, NEW b, NEW c, Keeps(a, b), Keeps(b, c)
  PROVE  Keeps(a, c)
BY DEF Keeps

\* Whatever happens to a board except being plugged in and written to.
LEMMA WorldKeeps ==
  ASSUME NEW b, BoardOK(b)
  PROVE  /\ BoardOK(Unplug(b)) /\ Keeps(b, Unplug(b))
         /\ BoardOK(Reenumerate(b)) /\ Keeps(b, Reenumerate(b))
         /\ BoardOK(Suspend(b)) /\ Keeps(b, Suspend(b))
         /\ BoardOK(Periodic(b)) /\ Keeps(b, Periodic(b))
         /\ \A mask, value : /\ BoardOK(WriteOutputs(b, mask, value))
                             /\ Keeps(b, WriteOutputs(b, mask, value))
         /\ \A n, high : BoardOK(SetInput(b, n, high)) /\ Keeps(b, SetInput(b, n, high))
         /\ \A n, high : BoardOK(LoseInput(b, n, high)) /\ Keeps(b, LoseInput(b, n, high))
<1>1. BoardOK(Unplug(b)) /\ Keeps(b, Unplug(b))
  <2> DEFINE f == FailHandles(b)
  <2>1. BoardOK(f) /\ Keeps(b, f) /\ \A c \in Clients : f.handles[c].state # "open"
    BY SmallStepsKeep
  <2> HIDE DEF f
  <2>2. /\ BoardOK([f EXCEPT !.powered = FALSE])
        /\ Keeps(b, [f EXCEPT !.powered = FALSE])
    BY <2>1 DEF BoardOK, Keeps, BoardFields
  <2> QED
    BY <2>2 DEF f, Unplug
<1>2. BoardOK(Reenumerate(b)) /\ Keeps(b, Reenumerate(b))
  <2>1. BoardOK(FailHandles(b)) /\ Keeps(b, FailHandles(b))
    BY SmallStepsKeep
  <2>2. /\ BoardOK(OutputsReset(FailHandles(b)))
        /\ Keeps(FailHandles(b), OutputsReset(FailHandles(b)))
    BY <2>1, SmallStepsKeep
  <2> QED
    BY <2>1, <2>2, KeepsTransitive DEF Reenumerate
<1>3. BoardOK(Suspend(b)) /\ Keeps(b, Suspend(b))
  <2>1. BoardOK(OutputsReset(b)) /\ Keeps(b, OutputsReset(b))
    BY SmallStepsKeep
  <2>2. /\ BoardOK(Send(OutputsReset(b), "OUTPUT_RESET", <<>>))
        /\ Keeps(OutputsReset(b), Send(OutputsReset(b), "OUTPUT_RESET", <<>>))
    BY <2>1, SendKeeps
  <2>3. Keeps(b, b)
    BY DEF Keeps
  <2> QED
    BY <2>1, <2>2, <2>3, KeepsTransitive DEF Suspend
<1>4. BoardOK(Periodic(b)) /\ Keeps(b, Periodic(b))
  BY SendKeeps DEF Periodic
<1>5. ASSUME NEW mask, NEW value
      PROVE  /\ BoardOK(WriteOutputs(b, mask, value))
             /\ Keeps(b, WriteOutputs(b, mask, value))
  <2> DEFINE driven == mask \cap OutputsMask(b.config)
             l == (b.levels \ driven) \cup (value \cap driven)
             s == [b EXCEPT !.levels = l]
  <2>1. BoardOK(s) /\ Keeps(b, s)
    BY SmallStepsKeep
  <2>2. WriteOutputs(b, mask, value) = Send(s, "OUTPUT_APPLIED", <<>>)
    BY DEF WriteOutputs
  <2> HIDE DEF s
  <2>3. /\ BoardOK(Send(s, "OUTPUT_APPLIED", <<>>))
        /\ Keeps(s, Send(s, "OUTPUT_APPLIED", <<>>))
    BY <2>1, SendKeeps
  <2> QED
    BY <2>1, <2>2, <2>3, KeepsTransitive
<1>6. ASSUME NEW n, NEW high
      PROVE  BoardOK(SetInput(b, n, high)) /\ Keeps(b, SetInput(b, n, high))
  <2> DEFINE moved == WithInput(b, n, high)
             edges == <<[gpio |-> n, level |-> high]>>
  <2>1. BoardOK(moved) /\ Keeps(b, moved)
    BY SmallStepsKeep
  <2>2. BoardOK(WithLevel(moved, n)) /\ Keeps(moved, WithLevel(moved, n))
    BY <2>1, SmallStepsKeep
  <2>3. /\ BoardOK(Send(WithLevel(moved, n), "LEVEL_CHANGED", edges))
        /\ Keeps(WithLevel(moved, n),
                 Send(WithLevel(moved, n), "LEVEL_CHANGED", edges))
    BY <2>2, SendKeeps
  <2>4. Keeps(b, Send(WithLevel(moved, n), "LEVEL_CHANGED", edges))
    BY <2>1, <2>2, <2>3, KeepsTransitive
  <2> QED
    BY <2>1, <2>3, <2>4 DEF SetInput
<1>7. ASSUME NEW n, NEW high
      PROVE  BoardOK(LoseInput(b, n, high)) /\ Keeps(b, LoseInput(b, n, high))
  <2> DEFINE moved == WithInput(b, n, high)
             l == WithLevel(moved, n)
  <2>1. BoardOK(moved) /\ Keeps(b, moved)
    BY SmallStepsKeep
  <2>2. BoardOK(l) /\ Keeps(moved, l)
    BY <2>1, SmallStepsKeep
  <2>3. BoardOK([l EXCEPT !.overflow = TRUE]) /\ Keeps(l, [l EXCEPT !.overflow = TRUE])
    BY <2>2, SmallStepsKeep
  <2>4. Keeps(b, [l EXCEPT !.overflow = TRUE])
    BY <2>1, <2>2, <2>3, KeepsTransitive
  <2> QED
    BY <2>1, <2>3, <2>4 DEF LoseInput
<1> QED
  BY <1>1, <1>2, <1>3, <1>4, <1>5, <1>6, <1>7

\* A write records the answer of the validation, and applies what passes
\* (testing.rs Board::write_config); the handles stay what they are.
LEMMA WriteAnswers ==
  ASSUME NEW b, BoardOK(b), NEW p
  PROVE  LET answer == ValidatePinConfigPayload(p, Available)
             w      == WriteConfig(b, p)
         IN  /\ BoardOK(w)
             /\ w.result = answer.result /\ w.request_id = answer.request_id
             /\ answer.result = "OK" => w.config = p.pins
             /\ \A c \in Clients : w.handles[c].state = "open"
                                     => b.handles[c].state = "open"
<1> DEFINE answer == ValidatePinConfigPayload(p, Available)
           answered == [b EXCEPT !.result = answer.result,
                                 !.request_id = answer.request_id]
           levels == LevelsAfter(b, p.pins)
           new  == [answered EXCEPT !.levels = levels, !.config = p.pins]
<1> HIDE DEF answer, levels
<1>1. /\ BoardOK(answered) /\ answered.result = answer.result
      /\ answered.request_id = answer.request_id /\ answered.config = b.config
      /\ answered.handles = b.handles
  BY DEF BoardOK, BoardFields
<1>2. /\ BoardOK(new) /\ new.result = answer.result
      /\ new.request_id = answer.request_id /\ new.config = p.pins
      /\ new.handles = b.handles
  BY DEF BoardOK, BoardFields
<1>3. WriteConfig(b, p) = IF answer.result # "OK" \/ p.pins = b.config THEN answered
                          ELSE Send(new, "CONFIG_CHANGED", <<>>)
  BY DEF WriteConfig, answer, levels
<1> HIDE DEF answered, new
<1>4. /\ BoardOK(Send(new, "CONFIG_CHANGED", <<>>))
      /\ Keeps(new, Send(new, "CONFIG_CHANGED", <<>>))
  BY <1>2, SendKeeps
<1>5. CASE answer.result # "OK" \/ p.pins = b.config
  BY <1>1, <1>3, <1>5 DEF answer
<1>6. CASE ~(answer.result # "OK" \/ p.pins = b.config)
  BY <1>2, <1>3, <1>4, <1>6 DEF answer, Keeps
<1> QED
  BY <1>5, <1>6

\* Opening and closing a handle, and reading from one.
LEMMA HandleSteps ==
  ASSUME NEW b, BoardOK(b), NEW c \in Clients
  PROVE  /\ CanOpen(b) => /\ BoardOK(OpenHandle(b, c))
                          /\ OpenHandle(b, c).result = b.result
                          /\ OpenHandle(b, c).request_id = b.request_id
                          /\ OpenHandle(b, c).config = b.config
                          /\ \A h \in Clients \ {c} :
                               OpenHandle(b, c).handles[h] = b.handles[h]
         /\ BoardOK(CloseHandle(b, c)) /\ Keeps(b, CloseHandle(b, c))
         /\ \A x : /\ BoardOK([b EXCEPT !.handles[c].reports = x])
                   /\ Keeps(b, [b EXCEPT !.handles[c].reports = x])
<1>1. ASSUME CanOpen(b)
      PROVE  /\ BoardOK(OpenHandle(b, c))
             /\ OpenHandle(b, c).result = b.result
             /\ OpenHandle(b, c).request_id = b.request_id
             /\ OpenHandle(b, c).config = b.config
             /\ \A h \in Clients \ {c} :
                  OpenHandle(b, c).handles[h] = b.handles[h]
  BY <1>1 DEF BoardOK, CanOpen, OpenHandle, Opened, Closed, BoardFields,
              HandleFields
<1>2. BoardOK(CloseHandle(b, c)) /\ Keeps(b, CloseHandle(b, c))
  BY DEF BoardOK, Keeps, CloseHandle, Closed, BoardFields, HandleFields
<1>3. \A x : /\ BoardOK([b EXCEPT !.handles[c].reports = x])
             /\ Keeps(b, [b EXCEPT !.handles[c].reports = x])
  BY DEF BoardOK, Keeps, BoardFields, HandleFields
<1> QED
  BY <1>1, <1>2, <1>3

\* Plugging in closes nothing that is open: nothing was.
LEMMA PlugOK ==
  ASSUME NEW b, BoardOK(b)
  PROVE  /\ BoardOK(Plug(b)) /\ Plug(b).handles = b.handles
BY DEF BoardOK, Plug, BoardFields

-----------------------------------------------------------------------------
(***************************************************************************)
(* Types                                                                   *)
(***************************************************************************)

\* A board whose queues keep to their limit.
Bounded(b) ==
  /\ b \in Boards
  /\ \A c \in Clients : Len(b.handles[c].reports) <= QUEUE_LEN

-----------------------------------------------------------------------------
(***************************************************************************)
(* Reports                                                                 *)
(***************************************************************************)

\* A status report of a board.
LEMMA StatusType ==
  ASSUME NEW b \in Boards, NEW reason \in SUBSET Reasons,
         NEW edges \in Seq(EdgeEvents), NEW seq \in SeqNumbers,
         NEW flags \in SUBSET Flags
  PROVE  Status(b, reason, edges, seq, flags, 0) \in StatusReports
<1>1. /\ MonitoredMask(b.config) \subseteq GPIOS
      /\ OutputsMask(b.config) \subseteq GPIOS
  BY DEF MonitoredMask, OutputsMask
<1>2. b.levels \subseteq GPIOS
  BY DEF Boards
<1> HIDE DEF Reasons, Flags
<1> QED
  BY <1>1, <1>2 DEF Status, StatusReports, EdgeEvents, SeqNumbers

\* A handle that gets a report.
LEMMA QueuedType ==
  ASSUME NEW h \in Handles, Len(h.reports) <= QUEUE_LEN, NEW report \in StatusReports
  PROVE  /\ Queued(h, report) \in Handles
         /\ Len(Queued(h, report).reports) <= QUEUE_LEN
<1> DEFINE sent == [report EXCEPT !.gap = h.gap]
           longer == Append(h.reports, sent)
<1>1. h.reports \in Seq(StatusReports) /\ h.gap \in Nat
  BY DEF Handles
<1>2. sent \in StatusReports
  BY <1>1 DEF StatusReports
<1> HIDE DEF sent
<1>3. longer \in Seq(StatusReports) /\ Len(longer) = Len(h.reports) + 1
  BY <1>1, <1>2
<1>4. QUEUE_LEN \in Nat /\ Len(h.reports) \in Nat
  BY <1>1, BoardAssumption
<1>5. Queued(h, report) =
        IF h.state # "open" THEN h
        ELSE IF Len(h.reports) < QUEUE_LEN
             THEN [h EXCEPT !.reports = longer, !.gap = 0]
        ELSE [h EXCEPT !.gap = h.gap + 1]
  BY DEF Queued, sent, Handles
<1> HIDE DEF longer
<1>6. h.gap + 1 \in Nat
  BY <1>1
<1>7. /\ [h EXCEPT !.reports = longer, !.gap = 0] \in Handles
      /\ [h EXCEPT !.reports = longer, !.gap = 0].reports = longer
      /\ [h EXCEPT !.gap = h.gap + 1] \in Handles
      /\ [h EXCEPT !.gap = h.gap + 1].reports = h.reports
  BY <1>3, <1>6 DEF Handles
<1> QED
  BY <1>3, <1>4, <1>5, <1>7

\* The arithmetic of sequence numbers.
LEMMA SeqArithmetic ==
  /\ SEQ_MOD \in Nat /\ SEQ_MOD > 1 /\ SEQ_MOD - 1 \in SeqNumbers
  /\ FirstSeq \in SeqNumbers /\ LastSeq \in SeqNumbers
  /\ \A s \in SeqNumbers : (s + 1) % SEQ_MOD \in SeqNumbers
  /\ \A s \in SeqNumbers, k \in Nat : /\ (s + k) % SEQ_MOD \in SeqNumbers
                                      /\ (s + k + SEQ_MOD - 1) % SEQ_MOD \in SeqNumbers
  /\ \A s, t \in SeqNumbers : SeqDistance(s, t, SEQ_MOD) \in SeqNumbers
BY BoardAssumption DEF SeqNumbers, SeqDistance, LastSeq

\* Sending a report.
LEMMA SendType ==
  ASSUME NEW b, Bounded(b), NEW reason \in Reasons, NEW edges \in Seq(EdgeEvents)
  PROVE  Bounded(Send(b, reason, edges))
<1> DEFINE flags == IF b.overflow THEN {"OVERFLOW"} ELSE {}
           report == Status(b, {reason}, edges, b.next_seq, flags, 0)
           hs == [c \in Clients |-> Queued(b.handles[c], report)]
           next == (b.next_seq + 1) % SEQ_MOD
           s == [b EXCEPT !.overflow = FALSE, !.last_seq = b.next_seq,
                          !.next_seq = next, !.handles = hs]
<1>1. /\ b \in Boards /\ b.next_seq \in SeqNumbers
      /\ b.handles \in [Clients -> Handles]
  BY DEF Bounded, Boards, SeqNumbers, Handles
<1>2. report \in StatusReports
  <2>1. flags \in SUBSET Flags /\ {reason} \in SUBSET Reasons
    BY DEF Flags
  <2> QED
    BY <1>1, <2>1, StatusType
<1>3. next \in SeqNumbers
  BY <1>1, SeqArithmetic
<1> HIDE DEF report, next
<1>4. /\ hs \in [Clients -> Handles]
      /\ \A c \in Clients : Len(hs[c].reports) <= QUEUE_LEN
  BY <1>1, <1>2, QueuedType DEF Bounded
<1>5. Send(b, reason, edges) = s
  BY <1>1 DEF Send, Boards, report, next
<1> HIDE DEF hs
<1>6. s \in Boards /\ s.handles = hs
  BY <1>1, <1>3, <1>4 DEF Boards, SeqNumbers, Handles
<1> QED
  BY <1>4, <1>5, <1>6 DEF Bounded

-----------------------------------------------------------------------------
(***************************************************************************)
(* The operations of a board                                               *)
(***************************************************************************)

\* Another value of the right type in one or two fields.
LEMMA FieldTypes ==
  ASSUME NEW b, Bounded(b)
  PROVE  /\ \A x \in BOOLEAN : /\ Bounded([b EXCEPT !.powered = x])
                               /\ Bounded([b EXCEPT !.overflow = x])
                               /\ Bounded([b EXCEPT !.version_ok = x])
                               /\ Bounded([b EXCEPT !.open_error = x])
         /\ \A x \in SUBSET GPIOS : Bounded([b EXCEPT !.levels = x])
         /\ \A x \in SUBSET GPIOS, m \in [GPIOS -> Nat] :
              Bounded([b EXCEPT !.inputs = x, !.moved = m])
         /\ \A r \in Results, id \in 0 .. 255 :
              Bounded([b EXCEPT !.result = r, !.request_id = id])
         /\ \A x \in SUBSET GPIOS, c \in ValidConfigs :
              Bounded([b EXCEPT !.levels = x, !.config = c])
         /\ \A n, l \in SeqNumbers, hs \in [Clients -> Handles] :
              (\A c \in Clients : Len(hs[c].reports) <= QUEUE_LEN)
                => Bounded([b EXCEPT !.next_seq = n, !.last_seq = l,
                                     !.handles = hs])
         /\ \A hs \in [Clients -> Handles] :
              (\A c \in Clients : Len(hs[c].reports) <= QUEUE_LEN)
                => Bounded([b EXCEPT !.handles = hs])
<1> HIDE DEF Results
<1>1. \A x \in BOOLEAN : /\ Bounded([b EXCEPT !.powered = x])
                         /\ Bounded([b EXCEPT !.overflow = x])
                         /\ Bounded([b EXCEPT !.version_ok = x])
                         /\ Bounded([b EXCEPT !.open_error = x])
  <2> TAKE x \in BOOLEAN
  <2>1. Bounded([b EXCEPT !.powered = x])
    BY DEF Bounded, Boards
  <2>2. Bounded([b EXCEPT !.overflow = x])
    BY DEF Bounded, Boards
  <2>3. Bounded([b EXCEPT !.version_ok = x])
    BY DEF Bounded, Boards
  <2>4. Bounded([b EXCEPT !.open_error = x])
    BY DEF Bounded, Boards
  <2> QED
    BY <2>1, <2>2, <2>3, <2>4
<1>2. \A x \in SUBSET GPIOS : Bounded([b EXCEPT !.levels = x])
  BY DEF Bounded, Boards
<1>3. \A x \in SUBSET GPIOS, m \in [GPIOS -> Nat] :
        Bounded([b EXCEPT !.inputs = x, !.moved = m])
  BY DEF Bounded, Boards
<1>4. \A r \in Results, id \in 0 .. 255 :
        Bounded([b EXCEPT !.result = r, !.request_id = id])
  BY DEF Bounded, Boards
<1>5. \A x \in SUBSET GPIOS, c \in ValidConfigs :
        Bounded([b EXCEPT !.levels = x, !.config = c])
  BY DEF Bounded, Boards
<1>6. \A n, l \in SeqNumbers, hs \in [Clients -> Handles] :
        (\A c \in Clients : Len(hs[c].reports) <= QUEUE_LEN)
          => Bounded([b EXCEPT !.next_seq = n, !.last_seq = l, !.handles = hs])
  <2> SUFFICES ASSUME NEW n \in SeqNumbers, NEW l \in SeqNumbers,
                      NEW hs \in [Clients -> Handles],
                      \A c \in Clients : Len(hs[c].reports) <= QUEUE_LEN
               PROVE  Bounded([b EXCEPT !.next_seq = n, !.last_seq = l, !.handles = hs])
    OBVIOUS
  <2>1. [b EXCEPT !.next_seq = n, !.last_seq = l, !.handles = hs] \in Boards
    BY DEF Bounded, Boards, SeqNumbers, Handles
  <2>2. [b EXCEPT !.next_seq = n, !.last_seq = l, !.handles = hs].handles = hs
    BY DEF Bounded, Boards
  <2> QED
    BY <2>1, <2>2 DEF Bounded
<1>7. \A hs \in [Clients -> Handles] :
        (\A c \in Clients : Len(hs[c].reports) <= QUEUE_LEN)
          => Bounded([b EXCEPT !.handles = hs])
  <2> SUFFICES ASSUME NEW hs \in [Clients -> Handles],
                      \A c \in Clients : Len(hs[c].reports) <= QUEUE_LEN
               PROVE  Bounded([b EXCEPT !.handles = hs])
    OBVIOUS
  <2>1. [b EXCEPT !.handles = hs] \in Boards
    BY DEF Bounded, Boards, Handles
  <2>2. [b EXCEPT !.handles = hs].handles = hs
    BY DEF Bounded, Boards
  <2> QED
    BY <2>1, <2>2 DEF Bounded
<1> QED
  BY <1>1, <1>2, <1>3, <1>4, <1>5, <1>6, <1>7

\* The handles of a board, as a type.
LEMMA HandlesOf ==
  ASSUME NEW b, Bounded(b)
  PROVE  /\ b \in Boards /\ b.handles \in [Clients -> Handles]
         /\ \A c \in Clients : Len(b.handles[c].reports) <= QUEUE_LEN
BY DEF Bounded, Boards, Handles

\* A handle that was closed, failed or opened is empty.
LEMMA EmptyHandles ==
  /\ Closed \in Handles /\ Failed \in Handles /\ Opened \in Handles
  /\ Len(Closed.reports) <= QUEUE_LEN /\ Len(Failed.reports) <= QUEUE_LEN
  /\ Len(Opened.reports) <= QUEUE_LEN
<1>1. <<>> \in Seq(StatusReports) /\ Len(<<>>) <= QUEUE_LEN
  <2>1. QUEUE_LEN \in Nat
    BY BoardAssumption
  <2> QED
    BY <2>1
<1>2. \A state \in {"closed", "open", "failed"} :
        [state |-> state, reports |-> <<>>, gap |-> 0] \in Handles
  BY <1>1 DEF Handles
<1>3. /\ Closed = [state |-> "closed", reports |-> <<>>, gap |-> 0]
      /\ Failed = [state |-> "failed", reports |-> <<>>, gap |-> 0]
      /\ Opened = [state |-> "open", reports |-> <<>>, gap |-> 0]
  BY DEF Closed, Failed, Opened
<1> QED
  BY <1>1, <1>2, <1>3

\* Inputs, resets and skipped reports.
LEMMA SmallStepTypes ==
  ASSUME NEW b, Bounded(b)
  PROVE  /\ Bounded(OutputsReset(b))
         /\ Bounded(FailHandles(b))
         /\ \A k \in Nat : Bounded(SkipReports(b, k))
         /\ \A n \in GPIOS : \A high : Bounded(WithInput(b, n, high))
         /\ \A n \in GPIOS : Bounded(WithLevel(b, n))
         /\ \A c \in Clients : /\ Bounded(OpenHandle(b, c))
                               /\ Bounded(CloseHandle(b, c))
<1>1. /\ b.handles \in [Clients -> Handles]
      /\ \A c \in Clients : Len(b.handles[c].reports) <= QUEUE_LEN
      /\ b.levels \subseteq GPIOS /\ b.inputs \subseteq GPIOS
      /\ b.moved \in [GPIOS -> Nat]
  BY HandlesOf DEF Boards
<1>2. Bounded(OutputsReset(b))
  <2>1. (b.levels \ OutputsMask(b.config)) \cup InitialLevels(b) \in SUBSET GPIOS
    BY <1>1 DEF InitialLevels, InitialOutputLevels, OutputMask
  <2> QED
    BY <2>1, FieldTypes DEF OutputsReset
<1>3. Bounded(FailHandles(b))
  <2> DEFINE hs == [c \in Clients |-> IF b.handles[c].state = "open" THEN Failed
                                      ELSE b.handles[c]]
  <2>1. /\ hs \in [Clients -> Handles]
        /\ \A c \in Clients : Len(hs[c].reports) <= QUEUE_LEN
    BY <1>1, EmptyHandles
  <2>2. FailHandles(b) = [b EXCEPT !.handles = hs]
    BY DEF FailHandles
  <2> HIDE DEF hs
  <2>3. Bounded([b EXCEPT !.handles = hs])
    BY <2>1, FieldTypes
  <2> QED
    BY <2>2, <2>3, Zenon
<1>4. ASSUME NEW k \in Nat
      PROVE  Bounded(SkipReports(b, k))
  <2> DEFINE hs == [c \in Clients |-> Skipped(b.handles[c], k)]
             n == (b.next_seq + k) % SEQ_MOD
             l == (b.next_seq + k + SEQ_MOD - 1) % SEQ_MOD
  <2>1. /\ hs \in [Clients -> Handles]
        /\ \A c \in Clients : Len(hs[c].reports) <= QUEUE_LEN
    <3>1. \A h \in Handles : /\ Skipped(h, k) \in Handles
                             /\ Skipped(h, k).reports = h.reports
      BY DEF Skipped, Handles
    <3> QED
      BY <1>1, <3>1
  <2>2. n \in SeqNumbers /\ l \in SeqNumbers
    <3>1. b.next_seq \in SeqNumbers
      BY HandlesOf DEF Boards, SeqNumbers
    <3> QED
      BY <3>1, SeqArithmetic
  <2>3. SkipReports(b, k) = [b EXCEPT !.next_seq = n, !.last_seq = l,
                                      !.handles = hs]
    BY DEF SkipReports
  <2> HIDE DEF hs, n, l
  <2>4. Bounded([b EXCEPT !.next_seq = n, !.last_seq = l, !.handles = hs])
    BY <2>1, <2>2, FieldTypes
  <2> QED
    BY <2>3, <2>4, Zenon
<1>5. ASSUME NEW n \in GPIOS, NEW high
      PROVE  Bounded(WithInput(b, n, high))
  <2> DEFINE x == IF high THEN b.inputs \cup {n} ELSE b.inputs \ {n}
             m == [b.moved EXCEPT ![n] =
                     @ + (IF high = (n \in b.inputs) THEN 0 ELSE 1)]
  <2>1. x \in SUBSET GPIOS /\ m \in [GPIOS -> Nat]
    BY <1>1
  <2>2. WithInput(b, n, high) = [b EXCEPT !.inputs = x, !.moved = m]
    BY DEF WithInput
  <2> HIDE DEF x, m
  <2>3. Bounded([b EXCEPT !.inputs = x, !.moved = m])
    BY <2>1, FieldTypes
  <2> QED
    BY <2>2, <2>3, Zenon
<1>6. ASSUME NEW n \in GPIOS
      PROVE  Bounded(WithLevel(b, n))
  BY <1>1, FieldTypes DEF WithLevel
<1>7. ASSUME NEW c \in Clients, NEW h \in {Opened, Closed}
      PROVE  Bounded([b EXCEPT !.handles[c] = h])
  <2> DEFINE hs == [b.handles EXCEPT ![c] = h]
  <2>1. /\ hs \in [Clients -> Handles]
        /\ \A d \in Clients : Len(hs[d].reports) <= QUEUE_LEN
    BY <1>1, EmptyHandles
  <2>2. [b EXCEPT !.handles[c] = h] = [b EXCEPT !.handles = hs]
    BY HandlesOf DEF Boards
  <2> HIDE DEF hs
  <2> QED
    BY <2>1, <2>2, FieldTypes
<1> QED
  BY <1>2, <1>3, <1>4, <1>5, <1>6, <1>7 DEF OpenHandle, CloseHandle

\* The empty list of events, and one event.
LEMMA EventLists ==
  /\ <<>> \in Seq(EdgeEvents)
  /\ \A n \in GPIOS, high \in BOOLEAN :
       <<[gpio |-> n, level |-> high]>> \in Seq(EdgeEvents)
BY DEF EdgeEvents

\* Whatever happens to a board except being plugged in and written to.
LEMMA WorldTypes ==
  ASSUME NEW b, Bounded(b)
  PROVE  /\ Bounded(Unplug(b)) /\ Bounded(Reenumerate(b))
         /\ Bounded(Suspend(b)) /\ Bounded(Periodic(b))
         /\ \A mask, value \in SUBSET GPIOS : Bounded(WriteOutputs(b, mask, value))
         /\ \A n \in GPIOS, high \in BOOLEAN :
              Bounded(SetInput(b, n, high)) /\ Bounded(LoseInput(b, n, high))
<1>1. Bounded(Unplug(b))
  <2>1. Bounded(FailHandles(b))
    BY SmallStepTypes
  <2> QED
    BY <2>1, FieldTypes DEF Unplug
<1>2. Bounded(Reenumerate(b))
  BY SmallStepTypes DEF Reenumerate
<1>3. {"OUTPUT_RESET", "PERIODIC", "OUTPUT_APPLIED", "LEVEL_CHANGED"}
        \subseteq Reasons
  BY DEF Reasons
<1>4. Bounded(Suspend(b)) /\ Bounded(Periodic(b))
  BY <1>3, SmallStepTypes, SendType, EventLists DEF Suspend, Periodic
<1>5. ASSUME NEW mask \in SUBSET GPIOS, NEW value \in SUBSET GPIOS
      PROVE  Bounded(WriteOutputs(b, mask, value))
  <2> DEFINE driven == mask \cap OutputsMask(b.config)
             l == (b.levels \ driven) \cup (value \cap driven)
  <2>1. l \in SUBSET GPIOS
    BY HandlesOf DEF Boards
  <2>2. WriteOutputs(b, mask, value)
          = Send([b EXCEPT !.levels = l], "OUTPUT_APPLIED", <<>>)
    BY DEF WriteOutputs
  <2> HIDE DEF l
  <2>3. Bounded([b EXCEPT !.levels = l])
    BY <2>1, FieldTypes
  <2> QED
    BY <1>3, <2>2, <2>3, SendType, EventLists
<1>6. ASSUME NEW n \in GPIOS, NEW high \in BOOLEAN
      PROVE  Bounded(SetInput(b, n, high)) /\ Bounded(LoseInput(b, n, high))
  <2> DEFINE moved == WithInput(b, n, high)
             level == WithLevel(moved, n)
  <2>1. Bounded(moved)
    BY SmallStepTypes
  <2>2. Bounded(level)
    BY <2>1, SmallStepTypes
  <2>3. Bounded(Send(level, "LEVEL_CHANGED", <<[gpio |-> n, level |-> high]>>))
    BY <1>3, <2>2, SendType, EventLists
  <2>4. Bounded([level EXCEPT !.overflow = TRUE])
    BY <2>2, FieldTypes
  <2> QED
    BY <2>1, <2>3, <2>4 DEF SetInput, LoseInput
<1> QED
  BY <1>1, <1>2, <1>4, <1>5, <1>6

\* What may be written: a payload of a host, or one made by hand.
Payload(p) ==
  /\ p.len \in Nat /\ p.request_id \in 0 .. 255
  /\ p.pins \in [GPIOS -> [mode : 0 .. 255, param : 0 .. 255]]

\* A payload of a host.
LEMMA EncodedPayload ==
  ASSUME NEW config \in PinConfigs, NEW id \in 0 .. 255
  PROVE  Payload(EncodePinConfigSet(config, id))
<1>1. config \in [GPIOS -> [mode : 0 .. 255, param : 0 .. 255]]
  <2>1. \A e \in [mode : Modes, param : 0 .. 255] :
          e \in [mode : 0 .. 255, param : 0 .. 255]
    BY DEF Modes, MODE_UNUSED, MODE_OUTPUT
  <2> QED
    BY <2>1 DEF PinConfigs
<1> QED
  BY <1>1 DEF Payload, EncodePinConfigSet, Encoded, REPORT_PAYLOAD_LEN

\* What a board answers a write, and what it takes.
LEMMA AnswerType ==
  ASSUME NEW p, Payload(p)
  PROVE  LET answer == ValidatePinConfigPayload(p, Available)
         IN  /\ answer.result \in Results /\ answer.request_id \in 0 .. 255
             /\ answer.result = "OK" => p.pins \in ValidConfigs
<1> DEFINE answer == ValidatePinConfigPayload(p, Available)
<1>1. answer = PinConfigDecodeSet(p)
  BY HostValidationAgrees
<1>2. PinConfigDecodeSet(p) \in
        [result : Results, result_gpio : GPIOS \cup {RESULT_GPIO_NONE},
         request_id : 0 .. 255]
  BY DecodeSet, ProtocolAssumption DEF Payload
<1>3. PinConfigDecodeSet(p).result = "OK" => p.pins \in ValidConfigs
  BY DecodeSet, ProtocolAssumption DEF Payload
<1> HIDE DEF answer, Results
<1>4. /\ answer.result \in Results /\ answer.request_id \in 0 .. 255
      /\ answer.result = "OK" => p.pins \in ValidConfigs
  BY <1>1, <1>2, <1>3
<1> QED
  BY <1>4 DEF answer

\* A write, whatever it says: what the board takes is valid.
LEMMA WriteType ==
  ASSUME NEW b, Bounded(b), NEW p, Payload(p)
  PROVE  Bounded(WriteConfig(b, p)) /\ WriteConfig(b, p).request_id \in 0 .. 255
<1> DEFINE answer == ValidatePinConfigPayload(p, Available)
           answered == [b EXCEPT !.result = answer.result,
                                 !.request_id = answer.request_id]
           levels == LevelsAfter(b, p.pins)
           new == [answered EXCEPT !.levels = levels, !.config = p.pins]
<1>1. /\ answer.result \in Results /\ answer.request_id \in 0 .. 255
      /\ answer.result = "OK" => p.pins \in ValidConfigs
  BY AnswerType
<1>2. levels \in SUBSET GPIOS
  BY DEF LevelsAfter
<1>3. WriteConfig(b, p) = IF answer.result # "OK" \/ p.pins = b.config THEN answered
                          ELSE Send(new, "CONFIG_CHANGED", <<>>)
  BY DEF WriteConfig
<1> HIDE DEF answer, levels
<1>4. Bounded(answered)
  BY <1>1, FieldTypes
<1> HIDE DEF answered
<1>5. answer.result = "OK" => Bounded(new)
  BY <1>1, <1>2, <1>4, FieldTypes
<1>6. "CONFIG_CHANGED" \in Reasons
  BY DEF Reasons
<1> HIDE DEF new
<1>7. Bounded(WriteConfig(b, p))
  BY <1>3, <1>4, <1>5, <1>6, SendType, EventLists
<1> QED
  BY <1>7, HandlesOf DEF Boards

\* A board that is plugged in.
LEMMA PlugTypes ==
  /\ \A b : Bounded(b) => Bounded(Plug(b))
  /\ Bounded(NewBoard)
<1>1. DefaultFor(Available) \in ValidConfigs
  BY ProtocolAssumption
  DEF DefaultFor, PullUpSetting, UnusedSetting, PinSetting, ValidConfigs,
      PinConfigs, Modes, MODE_UNUSED, MODE_INPUT_PULLUP, MODE_OUTPUT
<1>2. ASSUME NEW b, Bounded(b)
      PROVE  Bounded(Plug(b))
  <2> DEFINE config == DefaultFor(Available)
             high == {n \in Available : ReadsHigh(b, n, config[n])}
  <2>1. high \in SUBSET GPIOS /\ "OK" \in Results /\ 0 \in 0 .. 255
    BY ProtocolAssumption DEF Results
  <2>2. Plug(b) = [b EXCEPT !.powered = TRUE, !.config = config,
                     !.result = "OK", !.request_id = 0, !.levels = high,
                     !.next_seq = FirstSeq, !.last_seq = LastSeq,
                     !.overflow = FALSE]
    BY DEF Plug
  <2>3. config \in ValidConfigs /\ FirstSeq \in SeqNumbers /\ LastSeq \in SeqNumbers
    BY <1>1, SeqArithmetic
  <2> HIDE DEF config, high, Results
  <2> DEFINE P(c, h, f, l) ==
               [b EXCEPT !.powered = TRUE, !.config = c,
                  !.result = "OK", !.request_id = 0, !.levels = h,
                  !.next_seq = f, !.last_seq = l, !.overflow = FALSE]
  <2>4. ASSUME NEW c \in ValidConfigs, NEW h \in SUBSET GPIOS,
               NEW f \in SeqNumbers, NEW l \in SeqNumbers
        PROVE  P(c, h, f, l) \in Boards /\ P(c, h, f, l).handles = b.handles
    <3>1. b \in Boards /\ "OK" \in Results /\ 0 \in 0 .. 255
      BY <1>2, <2>1 DEF Bounded
    <3> QED
      BY ONLY <3>1, <2>4, c \in ValidConfigs, h \in SUBSET GPIOS,
              f \in SeqNumbers, l \in SeqNumbers DEF Boards, SeqNumbers
  <2>5. /\ Plug(b) \in Boards /\ Plug(b).handles = b.handles
    <3>1. Plug(b) = P(config, high, FirstSeq, LastSeq)
      BY <2>2
    <3> HIDE DEF P
    <3> QED
      BY <2>1, <2>3, <2>4, <3>1
  <2> QED
    BY <1>2, <2>5 DEF Bounded
<1>3. Bounded(NewBoard)
  <2>1. /\ [c \in Clients |-> Closed] \in [Clients -> Handles]
        /\ \A c \in Clients : Len([d \in Clients |-> Closed][c].reports) <= QUEUE_LEN
    BY EmptyHandles
  <2>2. [n \in GPIOS |-> 0] \in [GPIOS -> Nat]
    OBVIOUS
  <2>3. "OK" \in Results /\ 0 \in 0 .. 255 /\ Available \in SUBSET GPIOS
    BY ProtocolAssumption DEF Results
  <2> HIDE DEF Results
  <2>4. NewBoard \in Boards /\ NewBoard.handles = [c \in Clients |-> Closed]
    BY <1>1, <2>1, <2>2, <2>3, SeqArithmetic
    DEF NewBoard, Boards, SeqNumbers, Handles
  <2> QED
    BY <2>1, <2>4 DEF Bounded
<1> QED
  BY <1>2, <1>3

-----------------------------------------------------------------------------
(***************************************************************************)
(* Arithmetic of sequence numbers                                          *)
(***************************************************************************)

\* Quotient and remainder.
LEMMA Division ==
  ASSUME NEW x \in Int, NEW m \in Nat, m > 0
  PROVE  /\ x \div m \in Int /\ x % m \in 0 .. m - 1
         /\ x = m * (x \div m) + (x % m)
OBVIOUS

\* There is one remainder.
LEMMA ModUnique ==
  ASSUME NEW m \in Nat, m > 0, NEW p \in Int, NEW q \in Int,
         NEW r \in 0 .. m - 1, NEW t \in 0 .. m - 1, m * p + r = m * q + t
  PROVE  r = t
<1>1. ASSUME NEW a \in Int, NEW c \in Int, NEW u \in 0 .. m - 1,
             NEW v \in 0 .. m - 1, m * a + u = m * c + v
      PROVE  ~(a > c)
  <2> SUFFICES ASSUME a > c PROVE FALSE
    OBVIOUS
  <2>1. a - c - 1 \in Nat
    OBVIOUS
  <2>2. m * (a - c - 1) \in Nat
    BY <2>1
  <2>3. m * (a - c - 1) = m * a - m * c - m
    OBVIOUS
  <2>4. m * a \in Int /\ m * c \in Int
    OBVIOUS
  <2> QED
    BY <1>1, <2>2, <2>3, <2>4
<1>2. p = q
  BY <1>1
<1>3. m * p \in Int
  OBVIOUS
<1> QED
  BY <1>2, <1>3

\* A remainder may be taken before an addition.
LEMMA ModAdd ==
  ASSUME NEW x \in Nat, NEW k \in Int, NEW m \in Nat, m > 0
  PROVE  ((x % m) + k) % m = (x + k) % m
<1> DEFINE p == x \div m
           y == (x % m) + k
           z == x + k
<1>1. /\ p \in Int /\ x % m \in Int /\ x = m * p + (x % m)
      /\ y \in Int /\ z \in Int
  OBVIOUS
<1>2. /\ y \div m \in Int /\ y % m \in 0 .. m - 1
      /\ y = m * (y \div m) + (y % m)
      /\ z \div m \in Int /\ z % m \in 0 .. m - 1
      /\ z = m * (z \div m) + (z % m)
  BY <1>1, Division
<1>3. z = m * p + y
  BY <1>1
<1> HIDE DEF y, z, p
<1>4. m * p + m * (y \div m) = m * (p + y \div m)
  BY <1>1, <1>2
<1>5. m * (p + y \div m) + (y % m) = m * (z \div m) + (z % m)
  <2>1. m * p \in Int /\ m * (y \div m) \in Int /\ m * (z \div m) \in Int
    BY <1>1, <1>2
  <2> QED
    BY <1>1, <1>2, <1>3, <1>4, <2>1
<1>6. y % m = z % m
  <2>1. p + y \div m \in Int
    BY <1>1, <1>2
  <2> QED
    BY <1>2, <1>5, <2>1, ModUnique
<1> QED
  BY <1>6 DEF y, z

\* A whole round makes no difference.
LEMMA ModPeriod ==
  ASSUME NEW x \in Nat, NEW m \in Nat, m > 0
  PROVE  (x + m) % m = x % m
<1> DEFINE y == x + m
<1>1. /\ x \div m \in Int /\ x % m \in 0 .. m - 1
      /\ x = m * (x \div m) + (x % m) /\ y \in Int
  BY Division
<1>2. /\ y \div m \in Int /\ y % m \in 0 .. m - 1
      /\ y = m * (y \div m) + (y % m)
  BY <1>1, Division
<1>3. y = x + m
  OBVIOUS
<1> HIDE DEF y
<1>4. m * ((x \div m) + 1) = m * (x \div m) + m
  BY <1>1
<1>5. m * ((x \div m) + 1) + (x % m) = m * (y \div m) + (y % m)
  <2>1. /\ m * (x \div m) \in Int /\ m * (y \div m) \in Int
        /\ x % m \in Int /\ y % m \in Int
    BY <1>1, <1>2
  <2> QED
    BY <1>1, <1>2, <1>3, <1>4, <2>1
<1>6. (x \div m) + 1 \in Int
  BY <1>1
<1>7. x % m = y % m
  BY <1>1, <1>2, <1>5, <1>6, ModUnique
<1> QED
  BY <1>7 DEF y

\* What a host computes from two sequence numbers is the number of reports
\* between them, up to whole rounds (device.rs read_status).
LEMMA GapIsSeen ==
  ASSUME NEW m \in Nat, m > 0, NEW s \in 0 .. m - 1, NEW gap \in Nat,
         NEW r, r = (s + 1 + gap) % m
  PROVE  (SeqDistance(r, s, m) + m - 1) % m = gap % m
<1>1. s + 1 + gap \in Nat /\ r \in 0 .. m - 1
  OBVIOUS
<1>2. r + m - s \in Nat
  BY <1>1
<1>3. (((r + m - s) % m) + (m - 1)) % m = ((r + m - s) + (m - 1)) % m
  BY <1>2, ModAdd
<1>4. (r + (m - s + (m - 1))) % m = ((s + 1 + gap) + (m - s + (m - 1))) % m
  <2>1. m - s + (m - 1) \in Int
    OBVIOUS
  <2> QED
    BY <1>1, <2>1, ModAdd
<1>5. (s + 1 + gap) + (m - s + (m - 1)) = (gap + m) + m
  OBVIOUS
<1>6. ((gap + m) + m) % m = gap % m
  <2>1. gap + m \in Nat
    OBVIOUS
  <2>2. ((gap + m) + m) % m = (gap + m) % m
    BY <2>1, ModPeriod
  <2> QED
    BY <2>2, ModPeriod
<1>7. (r + m - s) + (m - 1) = r + (m - s + (m - 1))
  BY <1>1
<1>8. SeqDistance(r, s, m) + m - 1 = ((r + m - s) % m) + (m - 1)
  BY <1>1, <1>2 DEF SeqDistance
<1> QED
  BY <1>3, <1>4, <1>5, <1>6, <1>7, <1>8

-----------------------------------------------------------------------------
(***************************************************************************)
(* The reports in a queue: each comes after the one before it, with the    *)
(* reports that were not queued in between counted as its gap              *)
(***************************************************************************)

\* seq is the number of the report that comes gap reports after last, if any.
ComesAfter(last, seq, gap) == \A s \in last : seq = (s + 1 + gap) % SEQ_MOD

\* What comes before the i-th report of a queue.
Prior(q, last, i) == IF i = 1 THEN last ELSE {q[i - 1].seq}

\* A queue after a report that was read, and the board's next report.
Chain(q, last, next, gap) ==
  /\ \A i \in 1 .. Len(q) : /\ ComesAfter(Prior(q, last, i), q[i].seq, q[i].gap)
                            /\ "HOST_REQUEST" \notin q[i].reason
  /\ ComesAfter(Prior(q, last, Len(q) + 1), next, gap)

\* The queue of an open handle.
Chained(b, c, last) ==
  b.handles[c].state = "open"
    => Chain(b.handles[c].reports, last, b.next_seq, b.handles[c].gap)

\* An operation of the board that keeps every queue in order.
KeepsChains(b, d) ==
  \A c \in Clients, last \in SUBSET SeqNumbers :
    Chained(b, c, last) => Chained(d, c, last)

\* Reports are counted while none is queued.
LEMMA ComesLater ==
  ASSUME NEW last \in SUBSET SeqNumbers, NEW next \in SeqNumbers, NEW gap \in Nat,
         NEW k \in Nat, ComesAfter(last, next, gap)
  PROVE  ComesAfter(last, (next + k) % SEQ_MOD, gap + k)
<1> SUFFICES ASSUME NEW s \in last
             PROVE  (next + k) % SEQ_MOD = (s + 1 + (gap + k)) % SEQ_MOD
  BY DEF ComesAfter
<1>1. SEQ_MOD \in Nat /\ SEQ_MOD > 0 /\ s + 1 + gap \in Nat /\ k \in Int
  BY SeqArithmetic DEF SeqNumbers
<1>2. next = (s + 1 + gap) % SEQ_MOD
  BY DEF ComesAfter
<1>3. (((s + 1 + gap) % SEQ_MOD) + k) % SEQ_MOD = ((s + 1 + gap) + k) % SEQ_MOD
  BY <1>1, ModAdd
<1>4. (s + 1 + gap) + k = s + 1 + (gap + k)
  BY <1>1 DEF SeqNumbers
<1> QED
  BY <1>2, <1>3, <1>4

\* What comes before a report has a sequence number of its own.
LEMMA PriorType ==
  ASSUME NEW q \in Seq(StatusReports), NEW last \in SUBSET SeqNumbers,
         NEW i \in 1 .. Len(q) + 1
  PROVE  Prior(q, last, i) \in SUBSET SeqNumbers
<1>1. CASE i = 1
  BY <1>1 DEF Prior
<1>2. CASE i # 1
  <2>1. i - 1 \in 1 .. Len(q)
    BY <1>2
  <2>2. q[i - 1] \in StatusReports
    BY <2>1
  <2> QED
    BY <1>2, <2>2 DEF Prior, StatusReports
<1> QED
  BY <1>1, <1>2

\* A report that is skipped or dropped.
LEMMA ChainSkip ==
  ASSUME NEW q \in Seq(StatusReports), NEW last \in SUBSET SeqNumbers,
         NEW next \in SeqNumbers, NEW gap \in Nat, NEW k \in Nat,
         Chain(q, last, next, gap)
  PROVE  Chain(q, last, (next + k) % SEQ_MOD, gap + k)
<1>1. Len(q) + 1 \in 1 .. Len(q) + 1
  OBVIOUS
<1>2. Prior(q, last, Len(q) + 1) \in SUBSET SeqNumbers
  BY <1>1, PriorType
<1>3. ComesAfter(Prior(q, last, Len(q) + 1), (next + k) % SEQ_MOD, gap + k)
  BY <1>2, ComesLater DEF Chain
<1> QED
  BY <1>3 DEF Chain

\* A report that is queued.
LEMMA ChainAppend ==
  ASSUME NEW q \in Seq(StatusReports), NEW last \in SUBSET SeqNumbers,
         NEW next \in SeqNumbers, NEW gap \in Nat, Chain(q, last, next, gap),
         NEW r \in StatusReports, r.seq = next, r.gap = gap,
         "HOST_REQUEST" \notin r.reason
  PROVE  Chain(Append(q, r), last, (next + 1) % SEQ_MOD, 0)
<1> DEFINE a == Append(q, r)
           n == Len(q)
<1>1. /\ n \in Nat /\ Len(a) = n + 1 /\ a[n + 1] = r
      /\ \A i \in 1 .. n : a[i] = q[i]
  OBVIOUS
<1> HIDE DEF a, n
<1>2. ASSUME NEW i \in 1 .. n + 1
      PROVE  Prior(a, last, i) = Prior(q, last, i)
  <2>1. CASE i = 1
    BY <2>1 DEF Prior
  <2>2. CASE i # 1
    <3>1. i - 1 \in 1 .. n
      BY <1>1, <2>2
    <3>2. a[i - 1] = q[i - 1]
      BY <1>1, <3>1
    <3> QED
      BY <2>2, <3>2 DEF Prior
  <2> QED
    BY <2>1, <2>2
<1>3. \A i \in 1 .. n : /\ ComesAfter(Prior(q, last, i), q[i].seq, q[i].gap)
                        /\ "HOST_REQUEST" \notin q[i].reason
  BY DEF Chain, n
<1>4. ComesAfter(Prior(q, last, n + 1), r.seq, r.gap)
  BY DEF Chain, n
<1>5. ASSUME NEW i \in 1 .. n + 1
      PROVE  /\ ComesAfter(Prior(a, last, i), a[i].seq, a[i].gap)
             /\ "HOST_REQUEST" \notin a[i].reason
  <2>1. CASE i \in 1 .. n
    BY <1>1, <1>2, <1>3, <2>1
  <2>2. CASE i = n + 1
    BY <1>1, <1>2, <1>4, <2>2
  <2> QED
    BY <1>1, <2>1, <2>2
<1>6. Prior(a, last, n + 2) = {next}
  <2>1. n + 2 # 1 /\ n + 2 - 1 = n + 1
    BY <1>1
  <2> QED
    BY <1>1, <2>1 DEF Prior
<1>7. ComesAfter({next}, (next + 1) % SEQ_MOD, 0)
  BY SeqArithmetic DEF ComesAfter, SeqNumbers
<1>8. Len(a) + 1 = n + 2
  BY <1>1
<1> QED
  BY <1>1, <1>5, <1>6, <1>7, <1>8 DEF Chain, a

\* The oldest report is read.
LEMMA ChainTail ==
  ASSUME NEW q \in Seq(StatusReports), q # <<>>, NEW last \in SUBSET SeqNumbers,
         NEW next, NEW gap, Chain(q, last, next, gap)
  PROVE  /\ ComesAfter(last, Head(q).seq, Head(q).gap)
         /\ "HOST_REQUEST" \notin Head(q).reason
         /\ Chain(Tail(q), {Head(q).seq}, next, gap)
<1> DEFINE t == Tail(q)
           n == Len(q)
<1>1. /\ n \in Nat /\ n >= 1 /\ Len(t) = n - 1 /\ Head(q) = q[1]
      /\ \A i \in 1 .. n - 1 : t[i] = q[i + 1]
  OBVIOUS
<1> HIDE DEF t, n
<1>2. \A i \in 1 .. n : /\ ComesAfter(Prior(q, last, i), q[i].seq, q[i].gap)
                        /\ "HOST_REQUEST" \notin q[i].reason
  BY DEF Chain, n
<1>3. ComesAfter(Prior(q, last, n + 1), next, gap)
  BY DEF Chain, n
<1>4. ComesAfter(last, q[1].seq, q[1].gap) /\ "HOST_REQUEST" \notin q[1].reason
  <2>1. 1 \in 1 .. n /\ Prior(q, last, 1) = last
    BY <1>1 DEF Prior
  <2>2. /\ ComesAfter(Prior(q, last, 1), q[1].seq, q[1].gap)
        /\ "HOST_REQUEST" \notin q[1].reason
    BY <1>2, <2>1
  <2> QED
    BY <2>1, <2>2
<1>5. ASSUME NEW i \in 1 .. n
      PROVE  Prior(t, {q[1].seq}, i) = Prior(q, last, i + 1)
  <2>1. i + 1 # 1 /\ i + 1 - 1 = i
    BY <1>1
  <2>2. CASE i = 1
    BY <1>1, <2>1, <2>2 DEF Prior
  <2>3. CASE i # 1
    <3>1. i - 1 \in 1 .. n - 1 /\ (i - 1) + 1 = i
      BY <1>1, <2>3
    <3>2. t[i - 1] = q[i]
      BY <1>1, <3>1
    <3> QED
      BY <2>1, <2>3, <3>2 DEF Prior
  <2> QED
    BY <2>2, <2>3
<1>6. ASSUME NEW i \in 1 .. n - 1
      PROVE  /\ ComesAfter(Prior(t, {q[1].seq}, i), t[i].seq, t[i].gap)
             /\ "HOST_REQUEST" \notin t[i].reason
  <2>1. i \in 1 .. n /\ i + 1 \in 1 .. n
    BY <1>1
  <2> QED
    BY <1>1, <1>2, <1>5, <2>1
<1>7. Prior(t, {q[1].seq}, n) = Prior(q, last, n + 1)
  <2>1. n \in 1 .. n
    BY <1>1
  <2> QED
    BY <1>5, <2>1
<1>8. Len(t) + 1 = n
  BY <1>1
<1> QED
  BY <1>1, <1>3, <1>4, <1>6, <1>7, <1>8 DEF Chain, t

\* What leaves the queues and the next sequence number alone, and one
\* operation after another.
LEMMA ChainsStay ==
  /\ \A b, d : d.handles = b.handles /\ d.next_seq = b.next_seq => KeepsChains(b, d)
  /\ \A a, b, d : KeepsChains(a, b) /\ KeepsChains(b, d) => KeepsChains(a, d)
BY DEF KeepsChains, Chained

\* A handle that gets a report, or drops it.
LEMMA QueuedChain ==
  ASSUME NEW h \in Handles, Len(h.reports) <= QUEUE_LEN, h.state = "open",
         NEW report \in StatusReports, "HOST_REQUEST" \notin report.reason,
         NEW last \in SUBSET SeqNumbers, Chain(h.reports, last, report.seq, h.gap)
  PROVE  Chain(Queued(h, report).reports, last, (report.seq + 1) % SEQ_MOD,
               Queued(h, report).gap)
<1> DEFINE sent == [report EXCEPT !.gap = h.gap]
<1>1. /\ h.reports \in Seq(StatusReports) /\ h.gap \in Nat
      /\ report.seq \in SeqNumbers
  BY DEF Handles, StatusReports
<1>2. /\ sent \in StatusReports /\ sent.seq = report.seq /\ sent.gap = h.gap
      /\ "HOST_REQUEST" \notin sent.reason
  BY <1>1 DEF StatusReports
<1> HIDE DEF sent
<1>3. CASE Len(h.reports) < QUEUE_LEN
  <2>1. /\ Queued(h, report).reports = Append(h.reports, sent)
        /\ Queued(h, report).gap = 0
    BY <1>3 DEF Queued, Handles, sent
  <2>2. Chain(Append(h.reports, sent), last, (report.seq + 1) % SEQ_MOD, 0)
    BY <1>1, <1>2, ChainAppend
  <2> QED
    BY <2>1, <2>2
<1>4. CASE ~(Len(h.reports) < QUEUE_LEN)
  <2>1. /\ Queued(h, report).reports = h.reports
        /\ Queued(h, report).gap = h.gap + 1
    BY <1>4 DEF Queued, Handles
  <2>2. Chain(h.reports, last, (report.seq + 1) % SEQ_MOD, h.gap + 1)
    <3>1. 1 \in Nat
      OBVIOUS
    <3> QED
      BY <1>1, <3>1, ChainSkip
  <2> QED
    BY <2>1, <2>2
<1> QED
  BY <1>3, <1>4

\* Sending a report (testing.rs Board::send).
LEMMA SendChains ==
  ASSUME NEW b, Bounded(b), NEW reason \in Reasons \ {"HOST_REQUEST"},
         NEW edges \in Seq(EdgeEvents)
  PROVE  KeepsChains(b, Send(b, reason, edges))
<1> DEFINE flags == IF b.overflow THEN {"OVERFLOW"} ELSE {}
           report == Status(b, {reason}, edges, b.next_seq, flags, 0)
           s == Send(b, reason, edges)
<1>1. /\ b \in Boards /\ b.next_seq \in SeqNumbers
      /\ b.handles \in [Clients -> Handles]
  BY HandlesOf DEF Boards
<1>2. /\ report \in StatusReports /\ report.seq = b.next_seq
      /\ "HOST_REQUEST" \notin report.reason
  <2>1. flags \in SUBSET Flags /\ {reason} \in SUBSET Reasons
    BY DEF Flags
  <2>2. report.seq = b.next_seq /\ report.reason = {reason}
    BY DEF Status
  <2> QED
    BY <1>1, <2>1, <2>2, StatusType
<1>3. /\ s.next_seq = (b.next_seq + 1) % SEQ_MOD
      /\ \A c \in Clients : s.handles[c] = Queued(b.handles[c], report)
  BY <1>1 DEF Send, Boards
<1> HIDE DEF report, s
<1>4. ASSUME NEW c \in Clients, NEW last \in SUBSET SeqNumbers, Chained(b, c, last),
             s.handles[c].state = "open"
      PROVE  Chain(s.handles[c].reports, last, s.next_seq, s.handles[c].gap)
  <2>1. b.handles[c] \in Handles /\ Len(b.handles[c].reports) <= QUEUE_LEN
    BY HandlesOf
  <2>2. b.handles[c].state = "open"
    BY <1>3, <1>4, <2>1 DEF Queued, Handles
  <2>3. Chain(b.handles[c].reports, last, report.seq, b.handles[c].gap)
    BY <1>2, <1>4, <2>2 DEF Chained
  <2>4. Chain(Queued(b.handles[c], report).reports, last,
              (report.seq + 1) % SEQ_MOD, Queued(b.handles[c], report).gap)
    BY <1>2, <2>1, <2>2, <2>3, QueuedChain
  <2> QED
    BY <1>2, <1>3, <2>4
<1> QED
  BY <1>4 DEF KeepsChains, Chained, s

\* Reports that the host never reads, and handles that fail or are closed.
LEMMA QueuesEndOrSkip ==
  ASSUME NEW b, Bounded(b)
  PROVE  /\ \A k \in Nat : KeepsChains(b, SkipReports(b, k))
         /\ KeepsChains(b, FailHandles(b))
         /\ \A c \in Clients : KeepsChains(b, CloseHandle(b, c))
<1>1. /\ b \in Boards /\ b.handles \in [Clients -> Handles]
      /\ b.next_seq \in SeqNumbers
  BY HandlesOf DEF Boards
<1>2. ASSUME NEW k \in Nat, NEW c \in Clients, NEW last \in SUBSET SeqNumbers,
             Chained(b, c, last)
      PROVE  Chained(SkipReports(b, k), c, last)
  <2> DEFINE s == SkipReports(b, k)
             h == b.handles[c]
  <2>1. /\ s.next_seq = (b.next_seq + k) % SEQ_MOD
        /\ s.handles[c] = Skipped(h, k)
    BY <1>1 DEF SkipReports, Boards
  <2>2. h \in Handles /\ h.gap \in Nat /\ h.reports \in Seq(StatusReports)
    BY <1>1 DEF Handles
  <2>3. CASE h.state = "open"
    <3>1. Chain(h.reports, last, b.next_seq, h.gap)
      BY <1>2, <2>3 DEF Chained
    <3>2. Chain(h.reports, last, (b.next_seq + k) % SEQ_MOD, h.gap + k)
      BY <1>1, <2>2, <3>1, ChainSkip
    <3>3. Skipped(h, k).reports = h.reports /\ Skipped(h, k).gap = h.gap + k
      BY <2>2, <2>3 DEF Skipped, Handles
    <3> HIDE DEF s, h
    <3> QED
      BY <2>1, <3>2, <3>3 DEF Chained, s
  <2>4. CASE h.state # "open"
    BY <2>1, <2>4 DEF Skipped, Chained
  <2> QED
    BY <2>3, <2>4
<1>3. KeepsChains(b, FailHandles(b))
  <2>1. /\ FailHandles(b).next_seq = b.next_seq
        /\ \A c \in Clients : FailHandles(b).handles[c] =
              IF b.handles[c].state = "open" THEN Failed ELSE b.handles[c]
    BY <1>1 DEF FailHandles, Boards
  <2>2. Failed.state # "open"
    BY DEF Failed, Closed
  <2> QED
    BY <2>1, <2>2 DEF KeepsChains, Chained
<1>4. ASSUME NEW c \in Clients
      PROVE  KeepsChains(b, CloseHandle(b, c))
  <2>1. /\ CloseHandle(b, c).next_seq = b.next_seq
        /\ CloseHandle(b, c).handles = [b.handles EXCEPT ![c] = Closed]
    BY <1>1 DEF CloseHandle, Boards
  <2>2. Closed.state # "open"
    BY DEF Closed
  <2> QED
    BY <1>1, <2>1, <2>2 DEF KeepsChains, Chained
<1> QED
  BY <1>2, <1>3, <1>4 DEF KeepsChains

\* Whatever happens to a board except being plugged in.
LEMMA WorldChains ==
  ASSUME NEW b, Bounded(b)
  PROVE  /\ KeepsChains(b, Unplug(b)) /\ KeepsChains(b, Reenumerate(b))
         /\ KeepsChains(b, Suspend(b)) /\ KeepsChains(b, Periodic(b))
         /\ \A mask, value \in SUBSET GPIOS : KeepsChains(b, WriteOutputs(b, mask, value))
         /\ \A n \in GPIOS, high \in BOOLEAN : /\ KeepsChains(b, SetInput(b, n, high))
                                               /\ KeepsChains(b, LoseInput(b, n, high))
         /\ \A p : Payload(p) => KeepsChains(b, WriteConfig(b, p))
<1>1. {"OUTPUT_RESET", "PERIODIC", "OUTPUT_APPLIED", "LEVEL_CHANGED", "CONFIG_CHANGED"}
        \subseteq Reasons \ {"HOST_REQUEST"}
  BY DEF Reasons
<1>2. ASSUME NEW d, Bounded(d)
      PROVE  KeepsChains(d, OutputsReset(d)) /\ Bounded(OutputsReset(d))
  <2>1. d \in Boards /\ Bounded(OutputsReset(d))
    BY <1>2, SmallStepTypes DEF Bounded
  <2>2. OutputsReset(d).handles = d.handles /\ OutputsReset(d).next_seq = d.next_seq
    BY <2>1 DEF OutputsReset, Boards
  <2> QED
    BY <2>1, <2>2, ChainsStay
<1>3. KeepsChains(b, Unplug(b))
  <2>1. KeepsChains(b, FailHandles(b)) /\ Bounded(FailHandles(b))
    BY QueuesEndOrSkip, SmallStepTypes
  <2>2. /\ Unplug(b).handles = FailHandles(b).handles
        /\ Unplug(b).next_seq = FailHandles(b).next_seq
    BY <2>1 DEF Unplug, Bounded, Boards
  <2> QED
    BY <2>1, <2>2, ChainsStay
<1>4. KeepsChains(b, Reenumerate(b))
  <2>1. KeepsChains(b, FailHandles(b)) /\ Bounded(FailHandles(b))
    BY QueuesEndOrSkip, SmallStepTypes
  <2>2. KeepsChains(FailHandles(b), OutputsReset(FailHandles(b)))
    BY <1>2, <2>1
  <2> QED
    BY <2>1, <2>2, ChainsStay DEF Reenumerate
<1>5. KeepsChains(b, Suspend(b))
  <2>1. KeepsChains(b, OutputsReset(b)) /\ Bounded(OutputsReset(b))
    BY <1>2
  <2>2. KeepsChains(OutputsReset(b), Send(OutputsReset(b), "OUTPUT_RESET", <<>>))
    BY <1>1, <2>1, SendChains, EventLists
  <2>3. KeepsChains(b, Send(OutputsReset(b), "OUTPUT_RESET", <<>>)) /\ KeepsChains(b, b)
    BY <2>1, <2>2, ChainsStay
  <2> QED
    BY <2>3 DEF Suspend
<1>6. KeepsChains(b, Periodic(b))
  BY <1>1, SendChains, EventLists DEF Periodic
<1>7. ASSUME NEW mask \in SUBSET GPIOS, NEW value \in SUBSET GPIOS
      PROVE  KeepsChains(b, WriteOutputs(b, mask, value))
  <2> DEFINE driven == mask \cap OutputsMask(b.config)
             l == (b.levels \ driven) \cup (value \cap driven)
             d == [b EXCEPT !.levels = l]
  <2>1. l \in SUBSET GPIOS
    BY HandlesOf DEF Boards
  <2>2. WriteOutputs(b, mask, value) = Send(d, "OUTPUT_APPLIED", <<>>)
    BY DEF WriteOutputs
  <2> HIDE DEF l
  <2>3. Bounded(d) /\ d.handles = b.handles /\ d.next_seq = b.next_seq
    <3>1. Bounded(d)
      BY <2>1, FieldTypes
    <3>2. d.handles = b.handles /\ d.next_seq = b.next_seq
      BY HandlesOf DEF Boards
    <3> QED
      BY <3>1, <3>2
  <2> HIDE DEF d
  <2>4. KeepsChains(b, d) /\ KeepsChains(d, Send(d, "OUTPUT_APPLIED", <<>>))
    BY <1>1, <2>3, SendChains, EventLists, ChainsStay
  <2> QED
    BY <2>2, <2>4, ChainsStay
<1>8. ASSUME NEW n \in GPIOS, NEW high \in BOOLEAN
      PROVE  KeepsChains(b, SetInput(b, n, high)) /\ KeepsChains(b, LoseInput(b, n, high))
  <2> DEFINE moved == WithInput(b, n, high)
             level == WithLevel(moved, n)
             edges == <<[gpio |-> n, level |-> high]>>
  <2>1. Bounded(moved) /\ moved.handles = b.handles /\ moved.next_seq = b.next_seq
    <3>1. Bounded(moved)
      BY SmallStepTypes
    <3>2. moved.handles = b.handles /\ moved.next_seq = b.next_seq
      BY HandlesOf DEF WithInput, Boards
    <3> QED
      BY <3>1, <3>2
  <2> HIDE DEF moved
  <2>2. /\ Bounded(level) /\ level.handles = moved.handles
        /\ level.next_seq = moved.next_seq
    <3>1. Bounded(level)
      BY <2>1, SmallStepTypes
    <3>2. level.handles = moved.handles /\ level.next_seq = moved.next_seq
      BY <2>1, HandlesOf DEF WithLevel, Boards
    <3> QED
      BY <3>1, <3>2
  <2> HIDE DEF level
  <2>3. KeepsChains(level, Send(level, "LEVEL_CHANGED", edges))
    BY <1>1, <2>2, SendChains, EventLists
  <2>4. /\ [level EXCEPT !.overflow = TRUE].handles = level.handles
        /\ [level EXCEPT !.overflow = TRUE].next_seq = level.next_seq
    BY <2>2, HandlesOf DEF Boards
  <2>5. /\ KeepsChains(b, moved) /\ KeepsChains(moved, level)
        /\ KeepsChains(level, [level EXCEPT !.overflow = TRUE])
    BY <2>1, <2>2, <2>4, ChainsStay
  <2>6. /\ KeepsChains(b, moved) /\ KeepsChains(b, Send(level, "LEVEL_CHANGED", edges))
        /\ KeepsChains(b, [level EXCEPT !.overflow = TRUE])
    BY <2>3, <2>5, ChainsStay
  <2> QED
    BY <2>6 DEF SetInput, LoseInput, moved, level
<1>9. ASSUME NEW p, Payload(p)
      PROVE  KeepsChains(b, WriteConfig(b, p))
  <2> DEFINE answer == ValidatePinConfigPayload(p, Available)
             answered == [b EXCEPT !.result = answer.result,
                                   !.request_id = answer.request_id]
             levels == LevelsAfter(b, p.pins)
             new == [answered EXCEPT !.levels = levels, !.config = p.pins]
  <2>1. /\ answer.result \in Results /\ answer.request_id \in 0 .. 255
        /\ answer.result = "OK" => p.pins \in ValidConfigs
    BY <1>9, AnswerType
  <2>2. levels \in SUBSET GPIOS
    BY DEF LevelsAfter
  <2>3. WriteConfig(b, p) = IF answer.result # "OK" \/ p.pins = b.config THEN answered
                            ELSE Send(new, "CONFIG_CHANGED", <<>>)
    BY DEF WriteConfig
  <2> HIDE DEF answer, levels
  <2>4. Bounded(answered) /\ answered.handles = b.handles /\ answered.next_seq = b.next_seq
    <3>1. Bounded(answered)
      BY <2>1, FieldTypes
    <3>2. answered.handles = b.handles /\ answered.next_seq = b.next_seq
      BY HandlesOf DEF Boards
    <3> QED
      BY <3>1, <3>2
  <2> HIDE DEF answered
  <2>5. new.handles = answered.handles /\ new.next_seq = answered.next_seq
    BY <2>4, HandlesOf DEF Boards
  <2>6. answer.result = "OK" => Bounded(new)
    BY <2>1, <2>2, <2>4, FieldTypes
  <2> HIDE DEF new
  <2>7. KeepsChains(b, answered) /\ KeepsChains(answered, new)
    BY <2>4, <2>5, ChainsStay
  <2>8. answer.result = "OK" => KeepsChains(new, Send(new, "CONFIG_CHANGED", <<>>))
    BY <1>1, <2>6, SendChains, EventLists
  <2> QED
    BY <2>3, <2>7, <2>8, ChainsStay
<1> QED
  BY <1>3, <1>4, <1>5, <1>6, <1>7, <1>8, <1>9

-----------------------------------------------------------------------------
(***************************************************************************)
(* What the reports in a queue tell                                        *)
(***************************************************************************)
Waiting(h) == {h.reports[i] : i \in 1 .. Len(h.reports)}

\* A report that waits tells of reason, and of the outputs there are.
Tells(b, c, reason) ==
  \E r \in Waiting(b.handles[c]) :
    reason \in r.reason /\ r.outputs = OutputsMask(b.config)

\* Handles that are open were, and have lost no report they had.
KeepsReports(b, d) ==
  \A c \in Clients : d.handles[c].state = "open" =>
    /\ b.handles[c].state = "open"
    /\ Waiting(b.handles[c]) \subseteq Waiting(d.handles[c])

\* Operations that leave the handles alone, and one after another.
LEMMA ReportsStay ==
  /\ \A b, d : d.handles = b.handles => KeepsReports(b, d)
  /\ \A a, b, d : KeepsReports(a, b) /\ KeepsReports(b, d) => KeepsReports(a, d)
BY DEF KeepsReports

\* A handle that gets a report has it, or counts it as dropped.
LEMMA QueuedTells ==
  ASSUME NEW h \in Handles, Len(h.reports) <= QUEUE_LEN, h.state = "open",
         NEW report \in StatusReports
  PROVE  LET q == Queued(h, report)
         IN  /\ Waiting(h) \subseteq Waiting(q)
             /\ q.gap = 0 => [report EXCEPT !.gap = h.gap] \in Waiting(q)
             /\ Len(h.reports) = 0 => q.gap = 0
<1> DEFINE sent == [report EXCEPT !.gap = h.gap]
           q == Queued(h, report)
<1>1. h.reports \in Seq(StatusReports) /\ h.gap \in Nat /\ sent \in StatusReports
  BY DEF Handles, StatusReports
<1>2. QUEUE_LEN \in Nat /\ QUEUE_LEN > 0 /\ Len(h.reports) \in Nat
  BY <1>1, BoardAssumption
<1> HIDE DEF sent
<1>3. CASE Len(h.reports) < QUEUE_LEN
  <2>1. q.reports = Append(h.reports, sent) /\ q.gap = 0
    BY <1>3 DEF Queued, Handles, sent
  <2>2. /\ Len(q.reports) = Len(h.reports) + 1
        /\ \A i \in 1 .. Len(h.reports) : q.reports[i] = h.reports[i]
        /\ q.reports[Len(h.reports) + 1] = sent
    BY <1>1, <2>1
  <2> HIDE DEF q
  <2>3. Len(h.reports) + 1 \in 1 .. Len(q.reports)
    BY <1>2, <2>2
  <2>4. 1 .. Len(h.reports) \subseteq 1 .. Len(q.reports)
    BY <1>2, <2>2
  <2>5. Waiting(h) \subseteq Waiting(q)
    BY <2>2, <2>4 DEF Waiting
  <2>6. sent \in Waiting(q)
    BY <2>2, <2>3 DEF Waiting
  <2> QED
    BY <2>1, <2>5, <2>6 DEF q, sent
<1>4. CASE ~(Len(h.reports) < QUEUE_LEN)
  <2>1. q.reports = h.reports /\ q.gap = h.gap + 1
    BY <1>4 DEF Queued, Handles
  <2> HIDE DEF q
  <2>2. q.gap # 0
    BY <1>1, <2>1
  <2>3. Waiting(q) = Waiting(h)
    BY <2>1 DEF Waiting
  <2> QED
    BY <1>2, <1>4, <2>2, <2>3 DEF q
<1> QED
  BY <1>3, <1>4

\* Sending a report (testing.rs Board::send): a queue that does not drop it
\* has it, and an empty one does not drop it.
LEMMA SendTells ==
  ASSUME NEW b, Bounded(b), NEW reason \in Reasons, NEW edges \in Seq(EdgeEvents)
  PROVE  LET s == Send(b, reason, edges)
         IN  /\ KeepsReports(b, s)
             /\ \A c \in Clients : s.handles[c].state = "open" =>
                  /\ s.handles[c].gap = 0 => Tells(s, c, reason)
                  /\ b.handles[c].reports = <<>> => s.handles[c].gap = 0
<1> DEFINE flags == IF b.overflow THEN {"OVERFLOW"} ELSE {}
           report == Status(b, {reason}, edges, b.next_seq, flags, 0)
           s == Send(b, reason, edges)
<1>1. b \in Boards /\ b.handles \in [Clients -> Handles] /\ b.next_seq \in SeqNumbers
  BY HandlesOf DEF Boards
<1>2. /\ report \in StatusReports /\ report.reason = {reason}
      /\ report.outputs = OutputsMask(b.config)
  <2>1. flags \in SUBSET Flags /\ {reason} \in SUBSET Reasons
    BY DEF Flags
  <2>2. report.reason = {reason} /\ report.outputs = OutputsMask(b.config)
    BY DEF Status
  <2> QED
    BY <1>1, <2>1, <2>2, StatusType
<1>3. /\ s.config = b.config
      /\ \A c \in Clients : s.handles[c] = Queued(b.handles[c], report)
  BY <1>1 DEF Send, Boards
<1> HIDE DEF report, s
<1>4. ASSUME NEW c \in Clients, s.handles[c].state = "open"
      PROVE  /\ b.handles[c].state = "open"
             /\ Waiting(b.handles[c]) \subseteq Waiting(s.handles[c])
             /\ s.handles[c].gap = 0 => Tells(s, c, reason)
             /\ b.handles[c].reports = <<>> => s.handles[c].gap = 0
  <2> DEFINE h == b.handles[c]
             sent == [report EXCEPT !.gap = h.gap]
  <2>1. h \in Handles /\ Len(h.reports) <= QUEUE_LEN
    BY HandlesOf
  <2>2. h.state = "open"
    BY <1>3, <1>4, <2>1 DEF Queued, Handles
  <2>3. /\ Waiting(h) \subseteq Waiting(s.handles[c])
        /\ s.handles[c].gap = 0 => sent \in Waiting(s.handles[c])
        /\ Len(h.reports) = 0 => s.handles[c].gap = 0
    BY <1>2, <1>3, <2>1, <2>2, QueuedTells
  <2>4. sent.reason = {reason} /\ sent.outputs = OutputsMask(s.config)
    BY <1>2, <1>3 DEF StatusReports
  <2>5. s.handles[c].gap = 0 => Tells(s, c, reason)
    BY <2>3, <2>4 DEF Tells
  <2>6. h.reports = <<>> => Len(h.reports) = 0
    OBVIOUS
  <2> QED
    BY <2>2, <2>3, <2>5, <2>6
<1> QED
  BY <1>4 DEF KeepsReports, s

\* Reports that the host never reads, and handles that fail.
LEMMA QueuesEndOrStay ==
  ASSUME NEW b, Bounded(b)
  PROVE  /\ \A k \in Nat : KeepsReports(b, SkipReports(b, k))
         /\ KeepsReports(b, FailHandles(b))
<1>1. b \in Boards /\ b.handles \in [Clients -> Handles]
  BY HandlesOf
<1>2. ASSUME NEW k \in Nat
      PROVE  KeepsReports(b, SkipReports(b, k))
  <2>1. \A c \in Clients : SkipReports(b, k).handles[c] = Skipped(b.handles[c], k)
    BY <1>1 DEF SkipReports, Boards
  <2>2. \A h \in Handles : /\ Skipped(h, k).reports = h.reports
                           /\ Skipped(h, k).state = h.state
    BY DEF Skipped, Handles
  <2> QED
    BY <1>1, <2>1, <2>2 DEF KeepsReports, Waiting
<1>3. KeepsReports(b, FailHandles(b))
  <2>1. \A c \in Clients : FailHandles(b).handles[c] =
           IF b.handles[c].state = "open" THEN Failed ELSE b.handles[c]
    BY <1>1 DEF FailHandles, Boards
  <2>2. Failed.state # "open"
    BY DEF Failed, Closed
  <2> QED
    BY <2>1, <2>2 DEF KeepsReports
<1> QED
  BY <1>2, <1>3

\* Whatever happens to a board except being plugged in: no queue loses a
\* report, and a reset of the outputs and a change of the configuration are
\* told.
LEMMA WorldTells ==
  ASSUME NEW b, Bounded(b)
  PROVE  /\ KeepsReports(b, Suspend(b)) /\ KeepsReports(b, Periodic(b))
         /\ \A mask, value \in SUBSET GPIOS : KeepsReports(b, WriteOutputs(b, mask, value))
         /\ \A n \in GPIOS, high \in BOOLEAN : /\ KeepsReports(b, SetInput(b, n, high))
                                               /\ KeepsReports(b, LoseInput(b, n, high))
         /\ \A c \in Clients :
              /\ Unplug(b).handles[c].state # "open"
              /\ Reenumerate(b).handles[c].state # "open"
              /\ Suspend(b).handles[c].state = "open" =>
                   \/ Suspend(b).handles[c].gap # 0 \/ OutputsMask(b.config) = {}
                   \/ Tells(Suspend(b), c, "OUTPUT_RESET")
<1>1. {"OUTPUT_RESET", "PERIODIC", "OUTPUT_APPLIED", "LEVEL_CHANGED"}
        \subseteq Reasons
  BY DEF Reasons
<1>2. KeepsReports(b, Periodic(b))
  BY <1>1, SendTells, EventLists DEF Periodic
<1>3. /\ KeepsReports(b, Suspend(b))
      /\ \A c \in Clients : Suspend(b).handles[c].state = "open" =>
           \/ Suspend(b).handles[c].gap # 0 \/ OutputsMask(b.config) = {}
           \/ Tells(Suspend(b), c, "OUTPUT_RESET")
  <2>1. Bounded(OutputsReset(b)) /\ OutputsReset(b).handles = b.handles
    <3>1. OutputsReset(b).handles = b.handles
      BY HandlesOf DEF OutputsReset, Boards
    <3> QED
      BY <3>1, SmallStepTypes
  <2> DEFINE s == Send(OutputsReset(b), "OUTPUT_RESET", <<>>)
  <2>2. /\ KeepsReports(OutputsReset(b), s)
        /\ \A c \in Clients : s.handles[c].state = "open" /\ s.handles[c].gap = 0
                                => Tells(s, c, "OUTPUT_RESET")
    BY <1>1, <2>1, SendTells, EventLists
  <2>3. KeepsReports(b, s) /\ KeepsReports(b, b)
    BY <2>1, <2>2, ReportsStay
  <2>4. Suspend(b) = IF OutputsMask(b.config) = {} THEN b ELSE s
    BY DEF Suspend
  <2> HIDE DEF s
  <2> QED
    BY <2>2, <2>3, <2>4
<1>4. ASSUME NEW c \in Clients
      PROVE  /\ Unplug(b).handles[c].state # "open"
             /\ Reenumerate(b).handles[c].state # "open"
  <2>1. /\ b \in Boards /\ b.handles \in [Clients -> Handles]
    BY HandlesOf
  <2>2. /\ Unplug(b).handles = FailHandles(b).handles
        /\ Reenumerate(b).handles = FailHandles(b).handles
    BY <2>1 DEF Unplug, Reenumerate, OutputsReset, FailHandles, Boards
  <2>3. FailHandles(b).handles[c] =
           IF b.handles[c].state = "open" THEN Failed ELSE b.handles[c]
    BY <2>1 DEF FailHandles, Boards
  <2>4. Failed.state # "open"
    BY DEF Failed, Closed
  <2> QED
    BY <2>2, <2>3, <2>4
<1>5. ASSUME NEW mask \in SUBSET GPIOS, NEW value \in SUBSET GPIOS
      PROVE  KeepsReports(b, WriteOutputs(b, mask, value))
  <2> DEFINE driven == mask \cap OutputsMask(b.config)
             l == (b.levels \ driven) \cup (value \cap driven)
             d == [b EXCEPT !.levels = l]
  <2>1. l \in SUBSET GPIOS
    BY HandlesOf DEF Boards
  <2>2. WriteOutputs(b, mask, value) = Send(d, "OUTPUT_APPLIED", <<>>)
    BY DEF WriteOutputs
  <2> HIDE DEF l
  <2>3. Bounded(d)
    BY <2>1, FieldTypes
  <2>4. d.handles = b.handles
    BY HandlesOf DEF Boards
  <2> HIDE DEF d
  <2>5. KeepsReports(d, Send(d, "OUTPUT_APPLIED", <<>>))
    BY <1>1, <2>3, SendTells, EventLists
  <2> QED
    BY <2>2, <2>4, <2>5, ReportsStay
<1>6. ASSUME NEW n \in GPIOS, NEW high \in BOOLEAN
      PROVE  KeepsReports(b, SetInput(b, n, high)) /\ KeepsReports(b, LoseInput(b, n, high))
  <2> DEFINE moved == WithInput(b, n, high)
             level == WithLevel(moved, n)
             edges == <<[gpio |-> n, level |-> high]>>
  <2>1. Bounded(moved) /\ moved.handles = b.handles
    <3>1. moved.handles = b.handles
      BY HandlesOf DEF WithInput, Boards
    <3> QED
      BY <3>1, SmallStepTypes
  <2>2. Bounded(level) /\ level.handles = moved.handles
    <3>1. moved \in Boards
      BY <2>1, HandlesOf
    <3>2. level.handles = moved.handles
      BY <3>1 DEF WithLevel, Boards
    <3> QED
      BY <2>1, <3>2, SmallStepTypes
  <2>3. [level EXCEPT !.overflow = TRUE].handles = level.handles
    BY <2>2, HandlesOf DEF Boards
  <2>4. edges \in Seq(EdgeEvents)
    BY EventLists
  <2>5. /\ SetInput(b, n, high) \in {moved, Send(level, "LEVEL_CHANGED", edges)}
        /\ LoseInput(b, n, high) \in {moved, [level EXCEPT !.overflow = TRUE]}
    BY DEF SetInput, LoseInput
  <2> HIDE DEF moved, level, edges
  <2>6. KeepsReports(level, Send(level, "LEVEL_CHANGED", edges))
    BY <1>1, <2>2, <2>4, SendTells
  <2>7. KeepsReports(b, moved) /\ KeepsReports(moved, level)
    BY <2>1, <2>2, ReportsStay
  <2>8. KeepsReports(level, [level EXCEPT !.overflow = TRUE])
    BY <2>3, ReportsStay
  <2>9. \A d : KeepsReports(level, d) => KeepsReports(b, d)
    BY <2>7, ReportsStay
  <2> QED
    BY <2>5, <2>6, <2>7, <2>8, <2>9
<1> QED
  BY <1>2, <1>3, <1>4, <1>5, <1>6

\* A write that changes the configuration tells it (testing.rs
\* Board::write_config).
LEMMA WriteTells ==
  ASSUME NEW b, Bounded(b), NEW p, Payload(p)
  PROVE  LET w == WriteConfig(b, p)
         IN  /\ KeepsReports(b, w)
             /\ \A c \in Clients : w.handles[c].state = "open" =>
                  \/ w.handles[c].gap # 0 \/ w.config = b.config
                  \/ Tells(w, c, "CONFIG_CHANGED")
<1> DEFINE answer == ValidatePinConfigPayload(p, Available)
           answered == [b EXCEPT !.result = answer.result,
                                 !.request_id = answer.request_id]
           levels == LevelsAfter(b, p.pins)
           new == [answered EXCEPT !.levels = levels, !.config = p.pins]
           s == Send(new, "CONFIG_CHANGED", <<>>)
<1>1. /\ answer.result \in Results /\ answer.request_id \in 0 .. 255
      /\ answer.result = "OK" => p.pins \in ValidConfigs
  BY AnswerType
<1>2. levels \in SUBSET GPIOS
  BY DEF LevelsAfter
<1>3. WriteConfig(b, p) = IF answer.result # "OK" \/ p.pins = b.config THEN answered
                          ELSE s
  BY DEF WriteConfig
<1> HIDE DEF answer, levels
<1>4. Bounded(answered)
  BY <1>1, FieldTypes
<1>5. answered.handles = b.handles /\ answered.config = b.config
  BY HandlesOf DEF Boards
<1> HIDE DEF answered
<1>6. answer.result = "OK" => Bounded(new)
  BY <1>1, <1>2, <1>4, FieldTypes
<1>7. new.handles = b.handles
  <2>1. answered \in Boards
    BY <1>4, HandlesOf
  <2> QED
    BY <1>5, <2>1 DEF Boards
<1>8. "CONFIG_CHANGED" \in Reasons
  BY DEF Reasons
<1> HIDE DEF new
<1>9. answer.result = "OK" =>
        /\ KeepsReports(new, s)
        /\ \A c \in Clients : s.handles[c].state = "open" /\ s.handles[c].gap = 0
                                => Tells(s, c, "CONFIG_CHANGED")
  BY <1>6, <1>8, SendTells, EventLists
<1>10. KeepsReports(b, answered) /\ (answer.result = "OK" => KeepsReports(b, s))
  BY <1>5, <1>7, <1>9, ReportsStay
<1> HIDE DEF s
<1> QED
  BY <1>3, <1>5, <1>9, <1>10

\* Reading the first report of a queue.
LEMMA ReadTakes ==
  ASSUME NEW b, Bounded(b), NEW c \in Clients, b.handles[c].reports # <<>>
  PROVE  LET d == [b EXCEPT !.handles[c].reports = Tail(@)]
         IN  /\ Bounded(d) /\ d.config = b.config
             /\ d.handles[c].gap = b.handles[c].gap
             /\ d.handles[c].state = b.handles[c].state
             /\ Waiting(b.handles[c])
                  \subseteq Waiting(d.handles[c]) \cup {Head(b.handles[c].reports)}
<1> DEFINE h == b.handles[c]
           q == h.reports
           rest == [h EXCEPT !.reports = Tail(q)]
           hs == [b.handles EXCEPT ![c] = rest]
           d == [b EXCEPT !.handles = hs]
<1>1. /\ h \in Handles /\ q \in Seq(StatusReports) /\ Len(q) <= QUEUE_LEN /\ q # <<>>
      /\ b.handles \in [Clients -> Handles]
      /\ \A e \in Clients : Len(b.handles[e].reports) <= QUEUE_LEN
  BY HandlesOf DEF Handles
<1>2. /\ Tail(q) \in Seq(StatusReports) /\ Len(Tail(q)) = Len(q) - 1
      /\ Len(q) \in Nat /\ Len(q) > 0 /\ Head(q) = q[1]
      /\ \A i \in 1 .. Len(Tail(q)) : Tail(q)[i] = q[i + 1]
  <2>1. ASSUME NEW s \in Seq(StatusReports), s # <<>>
        PROVE  /\ Tail(s) \in Seq(StatusReports) /\ Len(Tail(s)) = Len(s) - 1
               /\ Len(s) \in Nat /\ Len(s) > 0 /\ Head(s) = s[1]
               /\ \A i \in 1 .. Len(Tail(s)) : Tail(s)[i] = s[i + 1]
    BY <2>1
  <2> QED
    BY <1>1, <2>1
<1>3. QUEUE_LEN \in Nat
  BY BoardAssumption
<1>4. rest \in Handles /\ rest.reports = Tail(q) /\ rest.gap = h.gap /\ rest.state = h.state
  BY <1>1, <1>2 DEF Handles
<1>5. Waiting(h) \subseteq Waiting(rest) \cup {Head(q)}
  <2> SUFFICES ASSUME NEW i \in 1 .. Len(q), i # 1
               PROVE  q[i] \in Waiting(rest)
    BY <1>2 DEF Waiting
  <2>1. i - 1 \in 1 .. Len(Tail(q)) /\ (i - 1) + 1 = i
    BY <1>2
  <2>2. Tail(q)[i - 1] = q[i]
    BY <1>2, <2>1
  <2> QED
    BY <1>4, <2>1, <2>2 DEF Waiting
<1> HIDE DEF rest
<1>6. /\ hs \in [Clients -> Handles] /\ hs[c] = rest
      /\ \A e \in Clients : Len(hs[e].reports) <= QUEUE_LEN
  <2>1. Len(rest.reports) <= QUEUE_LEN
    BY <1>1, <1>2, <1>3, <1>4
  <2>2. hs \in [Clients -> Handles] /\ hs[c] = rest
    BY <1>1, <1>4
  <2>3. \A e \in Clients : hs[e] \in {rest, b.handles[e]}
    BY <1>1
  <2> QED
    BY <1>1, <2>1, <2>2, <2>3
<1>7. d.config = b.config /\ d.handles = hs
  BY HandlesOf DEF Boards
<1>8. [b EXCEPT !.handles[c].reports = Tail(@)] = d
  BY HandlesOf DEF rest, Boards
<1> HIDE DEF hs
<1>9. Bounded(d)
  BY <1>6, FieldTypes
<1> HIDE DEF d
<1> QED
  BY <1>4, <1>5, <1>6, <1>7, <1>8, <1>9
=============================================================================
