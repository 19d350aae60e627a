------------------------------ MODULE FakeBoard ------------------------------
(***************************************************************************)
(* A board as the host library meets it (rust/src/testing.rs, the board    *)
(* the library is tested with): what plugging, a pin configuration, an     *)
(* output command or a changed input does to it, and the status reports it *)
(* puts into the queue of every open handle.  Everything happens under the *)
(* lock of the board, so an operation is an operator from a board to the   *)
(* board after it; the modules that use one give each its action.          *)
(*                                                                         *)
(* A board is a record: powered, open_error, version_ok, config, result    *)
(* and request_id of the last Set, inputs and levels (sets of HIGH GPIOs), *)
(* next_seq, last_seq, overflow and the handle of each client.  The clock  *)
(* and the fields of the device information other than the protocol        *)
(* version and the available GPIOs are left out.                           *)
(*                                                                         *)
(* Two fields are history, read by properties only: moved counts how often *)
(* an input changed, and the gap of a handle counts the reports it dropped *)
(* since the last one it queued, which takes the count along.              *)
(***************************************************************************)
EXTENDS HostProtocol, Integers

CONSTANTS
  Clients,      \* programs with a handle on the board
  QUEUE_LEN,    \* reports a handle keeps (64)
  SEQ_MOD,      \* sequence numbers are u16 (65536)
  FirstSeq,     \* reports a board has sent when it is plugged in (0)
  Floating      \* inputs that nothing drives: they read what their pull says

ASSUME BoardAssumption ==
  /\ QUEUE_LEN \in Nat \ {0}
  /\ SEQ_MOD \in Nat /\ SEQ_MOD > 1
  /\ FirstSeq \in 0 .. SEQ_MOD - 1
  /\ Floating \subseteq GPIOS

Closed == [state |-> "closed", reports |-> <<>>, gap |-> 0]
Failed == [Closed EXCEPT !.state = "failed"]
Opened == [Closed EXCEPT !.state = "open"]

\* 0 while none was sent.
LastSeq == IF FirstSeq = 0 THEN 0 ELSE FirstSeq - 1

\* An open switch with a pull-up reads HIGH.
NewBoard ==
  [powered |-> FALSE, open_error |-> FALSE, version_ok |-> TRUE,
   config |-> DefaultFor(Available), result |-> "OK", request_id |-> 0,
   inputs |-> Available, levels |-> {}, next_seq |-> FirstSeq,
   last_seq |-> LastSeq, overflow |-> FALSE,
   handles |-> [c \in Clients |-> Closed], moved |-> [n \in GPIOS |-> 0]]

\* The value of an input.  The test board always reads inputs; the pin of a
\* real one follows its pull when nothing drives it.
ReadsHigh(b, n, setting) ==
  IF n \in Floating THEN setting.mode = MODE_INPUT_PULLUP ELSE n \in b.inputs

-----------------------------------------------------------------------------
(***************************************************************************)
(* Status reports                                                          *)
(***************************************************************************)
Status(b, reason, events, seq, flags, gap) ==
  [seq |-> seq, reason |-> reason, flags |-> flags, events |-> events,
   monitored |-> MonitoredMask(b.config), outputs |-> OutputsMask(b.config),
   levels |-> b.levels, gap |-> gap]

\* A handle with a full queue drops the report, as hidraw does.
Queued(h, report) ==
  IF h.state # "open" THEN h
  ELSE IF Len(h.reports) < QUEUE_LEN
       THEN [h EXCEPT !.reports = Append(@, [report EXCEPT !.gap = h.gap]),
                      !.gap = 0]
  ELSE [h EXCEPT !.gap = @ + 1]

\* Mutated form of Send: the sequence number does not wrap.
SendNoWrap(b, reason, events) ==
  LET report == Status(b, {reason}, events, b.next_seq, {}, 0)
  IN  [b EXCEPT !.overflow = FALSE, !.last_seq = b.next_seq,
                !.next_seq = b.next_seq + 1,
                !.handles = [c \in Clients |-> Queued(@[c], report)]]

Send(b, reason, events) ==
  LET flags  == IF b.overflow THEN {"OVERFLOW"} ELSE {}
      report == Status(b, {reason}, events, b.next_seq, flags, 0)
  IN  [b EXCEPT !.overflow = FALSE, !.last_seq = b.next_seq,
                !.next_seq = (b.next_seq + 1) % SEQ_MOD,
                !.handles = [c \in Clients |-> Queued(@[c], report)]]

\* Get_Report(Input): no sequence number of its own, nothing cleared.
StatusNow(b) == Status(b, {"HOST_REQUEST"}, <<>>, b.last_seq, {}, 0)

-----------------------------------------------------------------------------
(***************************************************************************)
(* Operations                                                              *)
(***************************************************************************)
FailHandles(b) ==
  [b EXCEPT !.handles =
     [c \in Clients |-> IF @[c].state = "open" THEN Failed ELSE @[c]]]

\* A board that is plugged in had lost power; it keeps its inputs.
Plug(b) ==
  [b EXCEPT !.powered = TRUE, !.config = DefaultFor(Available),
            !.result = "OK", !.request_id = 0,
            !.levels = {n \in Available :
                          ReadsHigh(b, n, DefaultFor(Available)[n])},
            !.next_seq = FirstSeq, !.last_seq = LastSeq, !.overflow = FALSE]

Unplug(b) == [FailHandles(b) EXCEPT !.powered = FALSE]

OpenHandle(b, c)  == [b EXCEPT !.handles[c] = Opened]
CloseHandle(b, c) == [b EXCEPT !.handles[c] = Closed]

InitialLevels(b) == InitialOutputLevels(b.config)

OutputsReset(b) ==
  [b EXCEPT !.levels = (@ \ OutputsMask(b.config)) \cup InitialLevels(b)]

Suspend(b) ==
  IF OutputsMask(b.config) = {} THEN b
  ELSE Send(OutputsReset(b), "OUTPUT_RESET", <<>>)

\* The host makes the device node anew; the board keeps its power.
Reenumerate(b) == OutputsReset(FailHandles(b))

WithInput(b, n, high) ==
  [b EXCEPT !.inputs = IF high THEN @ \cup {n} ELSE @ \ {n},
            !.moved[n] = @ + (IF high = (n \in b.inputs) THEN 0 ELSE 1)]

WithLevel(b, n) ==
  [b EXCEPT !.levels = IF n \in b.inputs THEN @ \cup {n} ELSE @ \ {n}]

SetInput(b, n, high) ==
  LET moved == WithInput(b, n, high)
  IN  IF \/ ~b.powered
         \/ ~IsMonitored(b.config[n])
         \/ (n \in b.levels) = high
      THEN moved
      ELSE Send(WithLevel(moved, n), "LEVEL_CHANGED",
                <<[gpio |-> n, level |-> high]>>)

\* As if the edge event had been dropped from a full event queue.
LoseInput(b, n, high) ==
  LET moved == WithInput(b, n, high)
  IN  IF IsMonitored(b.config[n])
      THEN [WithLevel(moved, n) EXCEPT !.overflow = TRUE]
      ELSE moved

Periodic(b) == Send(b, "PERIODIC", <<>>)

Skipped(h, k) == IF h.state = "open" THEN [h EXCEPT !.gap = @ + k] ELSE h

\* Reports that the host never reads.
SkipReports(b, k) ==
  [b EXCEPT !.next_seq = (@ + k) % SEQ_MOD,
            !.last_seq = (b.next_seq + k + SEQ_MOD - 1) % SEQ_MOD,
            !.handles = [c \in Clients |-> Skipped(@[c], k)]]

-----------------------------------------------------------------------------
(***************************************************************************)
(* What a host writes                                                      *)
(***************************************************************************)
\* Whether a pin keeps its level when its setting changes: at most the
\* debounce time is another.
KeepsLevel(prev, setting) ==
  \/ prev = setting
  \/ IsMonitored(prev) /\ IsMonitored(setting) /\ prev.mode = setting.mode

LevelsAfter(b, next) ==
  {n \in GPIOS :
     CASE KeepsLevel(b.config[n], next[n]) -> n \in b.levels
       [] ~KeepsLevel(b.config[n], next[n]) /\ IsMonitored(next[n]) ->
            ReadsHigh(b, n, next[n])
       [] OTHER -> IsOutput(next[n]) /\ next[n].param # 0}

\* A Set: its result and request id are recorded, and it is applied when it
\* passes and changes something.
WriteConfig(b, payload) ==
  LET answer == ValidatePinConfigPayload(payload, Available)
      told   == [b EXCEPT !.result = answer.result,
                          !.request_id = answer.request_id]
      next   == payload.pins
  IN  IF answer.result # "OK" \/ next = b.config THEN told
      ELSE Send([told EXCEPT !.levels = LevelsAfter(b, next),
                             !.config = next], "CONFIG_CHANGED", <<>>)

\* Another program writes with request id 1.
WritePinConfig(b, config) == WriteConfig(b, EncodePinConfigSet(config, 1))

\* An output command: pins that are no outputs are left alone, and a report
\* follows in any case.
WriteOutputs(b, mask, value) ==
  LET driven == mask \cap OutputsMask(b.config)
  IN  Send([b EXCEPT !.levels = (@ \ driven) \cup (value \cap driven)],
           "OUTPUT_APPLIED", <<>>)

-----------------------------------------------------------------------------
(***************************************************************************)
(* Types                                                                   *)
(***************************************************************************)
EdgeEvents == [gpio : GPIOS, level : BOOLEAN]
SeqNumbers == 0 .. SEQ_MOD - 1

StatusReports ==
  [seq : SeqNumbers, reason : SUBSET Reasons, flags : SUBSET Flags,
   events : Seq(EdgeEvents), monitored : SUBSET GPIOS,
   outputs : SUBSET GPIOS, levels : SUBSET GPIOS, gap : Nat]

Handles == [state : {"closed", "open", "failed"},
            reports : Seq(StatusReports), gap : Nat]

Boards ==
  [powered : BOOLEAN, open_error : BOOLEAN, version_ok : BOOLEAN,
   config : ValidConfigs, result : Results, request_id : 0 .. 255,
   inputs : SUBSET GPIOS, levels : SUBSET GPIOS, next_seq : SeqNumbers,
   last_seq : SeqNumbers, overflow : BOOLEAN,
   handles : [Clients -> Handles], moved : [GPIOS -> Nat]]
=============================================================================
