-------------------------- MODULE PinConfigWriters --------------------------
(***************************************************************************)
(* Several programs that use the library's Device on one board at a time,  *)
(* next to programs that write to it without the library.  Every transfer  *)
(* is a step: set_pin_config sends in one and reads back in another,       *)
(* update_pins reads first, and anyone may write, and the board may be     *)
(* unplugged or reset, in between.                                         *)
(***************************************************************************)
EXTENDS DeviceAccess

CONSTANTS
  Configs,       \* configurations that set_pin_config is called with
  Settings,      \* pins and their settings that update_pins is called with
  RawPayloads,   \* what programs without the library write
  MaxWrites,     \* Sets in all
  MaxEvents      \* plugs, resets, inputs and skipped reports in all

VARIABLES
  board,
  device,        \* the Device of each host
  at,            \* the transfer each host does next
  task,          \* the arguments of its call, and the request id sent
  told,          \* what its last Set returned, with the history of others
  others,        \* history: the ids others wrote since a host's Set
  lost,          \* history: reports its handle did not queue, or dropped
  written,       \* history: the last payload since the board was plugged in
  writes, events \* how much of the bounds is used

vars == <<board, device, at, task, told, others, lost, written, writes, events>>

Hosts == Clients

NoSettings == [n \in {} |-> UnusedSetting]
NothingTold == [outcome |-> "none", id |-> 0, others |-> {}]
NoTask      == [config |-> UnusedConfig, settings |-> NoSettings, id |-> 0]

ASSUME WritersAssumption ==
  /\ Configs \subseteq PinConfigs
  /\ \A s \in Settings : DOMAIN s \subseteq GPIOS
                           /\ \A n \in DOMAIN s :
                                s[n] \in [mode : Modes, param : 0 .. 255]
  /\ RawPayloads \subseteq
       [len : Nat, result : Results, result_gpio : 0 .. 255,
        request_id : 0 .. 255,
        pins : [GPIOS -> [mode : 0 .. 255, param : 0 .. 255]]]
  /\ MaxWrites \in Nat /\ MaxEvents \in Nat

Init ==
  /\ board = Plug(NewBoard)
  /\ device = [h \in Hosts |-> NewDevice]
  /\ at = [h \in Hosts |-> "closed"]
  /\ task = [h \in Hosts |-> NoTask]
  /\ told = [h \in Hosts |-> NothingTold]
  /\ others = [h \in Hosts |-> {}]
  /\ lost = [h \in Hosts |-> 0]
  /\ written = None
  /\ writes = 0 /\ events = 0

-----------------------------------------------------------------------------
(***************************************************************************)
(* A host                                                                  *)
(***************************************************************************)
GoTo(h, step) == at' = [at EXCEPT ![h] = step]

\* The end of a call: its task and the history of the others end with it.
Return(h, outcome) ==
  /\ GoTo(h, "idle")
  /\ told' = [told EXCEPT ![h] = [outcome |-> outcome, id |-> task[h].id,
                                  others |-> others[h]]]
  /\ task' = [task EXCEPT ![h] = NoTask]
  /\ others' = [others EXCEPT ![h] = {}]

\* A transfer on a handle that failed ends the call with its error.
FailedTransfer(h) ==
  /\ ~Usable(board, h)
  /\ Return(h, "io")
  /\ UNCHANGED <<board, device, lost, written, writes, events>>

\* Device::open_path: the device information comes before anything else.
Open(h) ==
  /\ at[h] = "closed"
  /\ CanOpen(board)
  /\ board' = OpenHandle(board, h)
  /\ device' = [device EXCEPT ![h] = NewDevice]
  /\ lost' = [lost EXCEPT ![h] = 0]
  /\ GoTo(h, "info")
  /\ UNCHANGED <<task, told, others, written, writes, events>>

Info(h) ==
  /\ at[h] = "info"
  /\ \/ /\ Usable(board, h) /\ board.version_ok
        /\ GoTo(h, "idle")
        /\ UNCHANGED board
     \/ /\ ~(Usable(board, h) /\ board.version_ok)
        /\ board' = CloseHandle(board, h)
        /\ GoTo(h, "closed")
  /\ UNCHANGED <<device, task, told, others, lost, written, writes, events>>

Close(h) ==
  /\ at[h] = "idle"
  /\ board' = CloseHandle(board, h)
  /\ GoTo(h, "closed")
  /\ UNCHANGED <<device, task, told, others, lost, written, writes, events>>

\* The library's own validation comes first: what fails is not sent, and
\* what passes gets its request id.
Validated(h, config, settings) ==
  IF Suits(config, Available)
  THEN /\ \E id \in FreshIds(device[h].last_request_id) :
            /\ device' = [device EXCEPT ![h].last_request_id = id]
            /\ task' = [task EXCEPT ![h] = [config |-> config,
                                            settings |-> settings, id |-> id]]
       /\ GoTo(h, "send")
       /\ told' = [told EXCEPT ![h] = NothingTold]
       /\ UNCHANGED others
  ELSE Return(h, "rejected_here") /\ UNCHANGED device

SetPinConfig(h) ==
  /\ at[h] = "idle"
  /\ writes < MaxWrites
  /\ \E config \in Configs : Validated(h, config, NoSettings)
  /\ UNCHANGED <<board, lost, written, writes, events>>

UpdatePins(h) ==
  /\ at[h] = "idle"
  /\ writes < MaxWrites
  /\ \E settings \in Settings :
       task' = [task EXCEPT ![h] = [NoTask EXCEPT !.settings = settings]]
  /\ GoTo(h, "get")
  /\ UNCHANGED <<board, device, told, others, lost, written, writes, events>>

UpdateGet(h) ==
  /\ at[h] = "get"
  /\ \/ FailedTransfer(h)
     \/ /\ Usable(board, h)
        /\ Validated(h, WithPins(board.config, task[h].settings),
                     task[h].settings)
        /\ UNCHANGED <<board, lost, written, writes, events>>

\* A write, and the history of the hosts that have not read back theirs.
Wrote(payload) ==
  /\ board' = WriteConfig(board, payload)
  /\ written' = Some(payload)
  /\ others' = [g \in Hosts |-> IF at[g] # "readback" THEN {}
                                ELSE others[g] \cup {board'.request_id}]
  /\ writes' = writes + 1

SendSet(h) ==
  /\ at[h] = "send"
  /\ \/ FailedTransfer(h)
     \/ /\ Usable(board, h)
        /\ writes < MaxWrites
        /\ Wrote(EncodePinConfigSet(task[h].config, task[h].id))
        /\ GoTo(h, "readback")
        /\ UNCHANGED <<device, task, told, lost, events>>

ReadBack(h) ==
  /\ at[h] = "readback"
  /\ \/ FailedTransfer(h)
     \/ /\ Usable(board, h)
        /\ Return(h, SetOutcome(PinConfigReport(board), task[h].id,
                                task[h].config))
        /\ UNCHANGED <<board, device, lost, written, writes, events>>

\* read_status, when a report is there.
ReadStatus(h) ==
  /\ at[h] = "idle"
  /\ Usable(board, h)
  /\ board.handles[h].reports # <<>>
  /\ LET report == Head(board.handles[h].reports)
         d      == device[h]
     IN  /\ device' = [device EXCEPT ![h] = AfterRead(d, report)]
         /\ lost' = [lost EXCEPT ![h] =
                       @ + IF d.last_seq = None THEN 0
                                                ELSE report.gap % SEQ_MOD]
  /\ board' = [board EXCEPT !.handles[h].reports = Tail(@)]
  /\ UNCHANGED <<at, task, told, others, written, writes, events>>

HostStep(h) ==
  \/ Open(h) \/ Info(h) \/ Close(h)
  \/ SetPinConfig(h) \/ UpdatePins(h) \/ UpdateGet(h)
  \/ SendSet(h) \/ ReadBack(h) \/ ReadStatus(h)

-----------------------------------------------------------------------------
(***************************************************************************)
(* The rest of the world                                                   *)
(***************************************************************************)
RawWrite ==
  /\ board.powered
  /\ writes < MaxWrites
  /\ \E payload \in RawPayloads : Wrote(payload)
  /\ UNCHANGED <<device, at, task, told, lost, events>>

Happens(b) ==
  /\ events < MaxEvents
  /\ events' = events + 1
  /\ board' = b
  /\ UNCHANGED <<device, at, task, told, others, lost, writes>>

PlugIn ==
  /\ ~board.powered
  /\ board' = Plug(board)
  /\ written' = None
  /\ UNCHANGED <<device, at, task, told, others, lost, writes, events>>

World ==
  /\ board.powered
  /\ \/ Happens(Unplug(board))
     \/ Happens(Reenumerate(board))
     \/ Happens(Suspend(board))
     \/ Happens(Periodic(board))
     \/ \E k \in {1, SEQ_MOD} : Happens(SkipReports(board, k))
     \/ \E value \in {{}, GPIOS} : Happens(WriteOutputs(board, GPIOS, value))
     \/ \E n \in Available :
          \/ Happens(SetInput(board, n, n \notin board.inputs))
          \/ Happens(LoseInput(board, n, n \notin board.inputs))
     \/ Happens([board EXCEPT !.version_ok = ~@])
     \/ Happens([board EXCEPT !.open_error = ~@])
  /\ UNCHANGED written

Next == PlugIn \/ World \/ RawWrite \/ \E h \in Hosts : HostStep(h)

Spec == Init /\ [][Next]_vars

-----------------------------------------------------------------------------
(***************************************************************************)
(* Properties                                                              *)
(***************************************************************************)
\* The types, and that a board never has a configuration its firmware would
\* refuse, whoever writes to it.
TypeOK ==
  /\ board \in Boards
  /\ \A h \in Hosts : device[h].missed \in Nat /\ lost[h] \in Nat
  /\ at \in [Hosts -> {"closed", "info", "idle", "get", "send", "readback"}]
  /\ \A h \in Hosts : Len(board.handles[h].reports) <= QUEUE_LEN

\* What the board says of the last Set is what the firmware's own validation
\* (Protocol) says of that payload: the library's copy of it, which decides
\* what a host sends, cannot drift from the device's.
RepliesAsFirmware ==
  \A payload \in written :
    LET reply == PinConfigDecodeSet(payload)
    IN  board.result = reply.result /\ board.request_id = reply.request_id

\* A Set's answer is about that Set.  One that nobody interfered with
\* succeeds or fails on the transfer.  One that says anything but conflict
\* was not written over, unless another writer happened to use the same
\* request id; and a configuration that passed the library's validation is
\* refused by the device only under somebody else's request id.
SetAnswersForItself ==
  \A h \in Hosts :
    LET t == told[h]
    IN  /\ t.outcome = "conflict" => t.others # {}
        /\ t.outcome \in {"rejected", "mismatch"} => t.id \in t.others
        /\ t.outcome = "ok" /\ t.id \notin t.others => t.others = {}

\* The count of missed reports is the number of reports its handle did not
\* get, across a wrapped sequence number; a gap of a whole round of sequence
\* numbers cannot be seen.
MissedIsExact == \A h \in Hosts : device[h].missed = lost[h]
=============================================================================
