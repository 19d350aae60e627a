---------------------------- MODULE DeviceProofs ----------------------------
(***************************************************************************)
(* What the library's pin configuration transfers promise, for every value *)
(* of the constants: the board answers as its firmware would, the answer   *)
(* of a Set is about that Set, a board never has a configuration its       *)
(* firmware would refuse and no queue of a handle outgrows its limit.      *)
(***************************************************************************)
EXTENDS PinConfigWriters, BoardProofs

-----------------------------------------------------------------------------
(***************************************************************************)
(* The answer of the board to the last Set                                 *)
(***************************************************************************)
AnswerInv ==
  /\ BoardOK(board)
  /\ \A p \in written :
       /\ board.result = ValidatePinConfigPayload(p, Available).result
       /\ board.request_id = ValidatePinConfigPayload(p, Available).request_id

\* The first state.
LEMMA InitAnswer == Init => AnswerInv
<1> SUFFICES ASSUME Init PROVE AnswerInv
  OBVIOUS
<1>1. BoardOK(NewBoard)
  BY DEF BoardOK, NewBoard, BoardFields, HandleFields, Closed
<1>2. BoardOK(board) /\ written = {}
  BY <1>1, PlugOK DEF Init, None
<1> QED
  BY <1>2 DEF AnswerInv

\* What the world does to a powered board, short of a write.
LEMMA WorldStep ==
  ASSUME BoardOK(board), World
  PROVE  BoardOK(board') /\ Keeps(board, board')
<1>1. \A k : BoardOK(SkipReports(board, k)) /\ Keeps(board, SkipReports(board, k))
  BY SmallStepsKeep
<1>2. \A x : /\ BoardOK([board EXCEPT !.version_ok = x])
             /\ Keeps(board, [board EXCEPT !.version_ok = x])
             /\ BoardOK([board EXCEPT !.open_error = x])
             /\ Keeps(board, [board EXCEPT !.open_error = x])
  BY DEF BoardOK, Keeps, BoardFields
<1>3. PICK b : Happens(b) /\ BoardOK(b) /\ Keeps(board, b)
  BY <1>1, <1>2, WorldKeeps DEF World
<1> QED
  BY <1>3 DEF Happens

\* Every step of the program, seen from the board.  A step either leaves the
\* answer alone, writes, or plugs the board in.
BoardStep ==
  \/ /\ BoardOK(board') /\ Keeps(board, board') /\ UNCHANGED written
  \/ \E h \in Hosts : Open(h)
  \/ \E p : Wrote(p)
  \/ PlugIn

\* There are no other steps.
LEMMA NextIsBoardStep ==
  ASSUME BoardOK(board), [Next]_vars
  PROVE  BoardStep
<1> USE DEF Hosts
<1>1. ASSUME UNCHANGED <<board, written>>
      PROVE  BoardStep
  BY <1>1 DEF BoardStep, Keeps
<1>2. CASE World
  BY <1>2, WorldStep DEF World, BoardStep
<1>3. ASSUME NEW h \in Hosts, FailedTransfer(h)
      PROVE  BoardStep
  BY <1>1, <1>3 DEF FailedTransfer
<1>4. ASSUME NEW h \in Hosts, HostStep(h)
      PROVE  BoardStep
  <2>1. CASE Open(h)
    BY <2>1 DEF BoardStep
  <2>2. CASE Info(h)
    BY <1>1, <2>2, HandleSteps DEF Info, BoardStep
  <2>3. CASE Close(h)
    BY <2>3, HandleSteps DEF Close, BoardStep
  <2>4. CASE SetPinConfig(h)
    BY <1>1, <2>4 DEF SetPinConfig
  <2>5. CASE UpdatePins(h)
    BY <1>1, <2>5 DEF UpdatePins
  <2>6. CASE UpdateGet(h)
    BY <1>1, <1>3, <2>6 DEF UpdateGet
  <2>7. CASE SendSet(h)
    BY <1>3, <2>7 DEF SendSet, BoardStep
  <2>8. CASE ReadBack(h)
    BY <1>1, <1>3, <2>8 DEF ReadBack
  <2>9. CASE ReadStatus(h)
    BY <2>9, HandleSteps DEF ReadStatus, BoardStep
  <2> QED
    BY <1>4, <2>1, <2>2, <2>3, <2>4, <2>5, <2>6, <2>7, <2>8, <2>9 DEF HostStep
<1>5. CASE RawWrite
  BY <1>5 DEF RawWrite, BoardStep
<1>6. CASE PlugIn
  BY <1>6 DEF BoardStep
<1>7. CASE UNCHANGED vars
  BY <1>1, <1>7 DEF vars
<1> QED
  BY <1>2, <1>4, <1>5, <1>6, <1>7 DEF Next

\* A step of the program keeps what the board says of the last Set.
LEMMA NextAnswer == AnswerInv /\ [Next]_vars => AnswerInv'
<1> SUFFICES ASSUME AnswerInv, [Next]_vars
             PROVE  AnswerInv'
  OBVIOUS
<1>1. BoardStep /\ BoardOK(board)
  BY NextIsBoardStep DEF AnswerInv
<1>2. CASE BoardOK(board') /\ Keeps(board, board') /\ UNCHANGED written
  BY <1>2 DEF AnswerInv, Keeps
<1>3. ASSUME NEW h \in Hosts, Open(h)
      PROVE  AnswerInv'
  BY <1>1, <1>3, HandleSteps DEF AnswerInv, Open, Hosts
<1>4. ASSUME NEW p, Wrote(p)
      PROVE  AnswerInv'
  <2>1. board' = WriteConfig(board, p) /\ written' = {p}
    BY <1>4 DEF Wrote, Some
  <2>2. /\ BoardOK(board')
        /\ board'.result = ValidatePinConfigPayload(p, Available).result
        /\ board'.request_id = ValidatePinConfigPayload(p, Available).request_id
    BY <1>1, <2>1, WriteAnswers
  <2> QED
    BY <2>1, <2>2 DEF AnswerInv
<1>5. CASE PlugIn
  BY <1>1, <1>5, PlugOK DEF AnswerInv, PlugIn, None
<1> QED
  BY <1>1, <1>2, <1>3, <1>4, <1>5 DEF BoardStep

(***************************************************************************)
(* Whoever writes, and whatever was done to the board since: the result    *)
(* and the request id it reports are those that the firmware's own         *)
(* validation gives the last payload.                                      *)
(***************************************************************************)
THEOREM BoardRepliesAsFirmware == Spec => []RepliesAsFirmware
<1>1. AnswerInv => RepliesAsFirmware
  BY HostValidationAgrees DEF AnswerInv, RepliesAsFirmware
<1> QED
  BY InitAnswer, NextAnswer, <1>1, PTL DEF Spec

-----------------------------------------------------------------------------
(***************************************************************************)
(* The answer of a Set                                                     *)
(***************************************************************************)

\* A host between its Set and its readback: nobody else wrote, and the board
\* has its configuration under its id, or the last of the others did.
ReadingBack(h) ==
  at[h] = "readback" /\ board.handles[h].state = "open" =>
    IF others[h] = {}
    THEN /\ board.request_id = task[h].id /\ board.result = "OK"
         /\ board.config = task[h].config
    ELSE board.request_id \in others[h]

AnswersItself(t) ==
  /\ t.outcome = "conflict" => t.others # {}
  /\ t.outcome \in {"rejected", "mismatch"} => t.id \in t.others
  /\ t.outcome = "ok" /\ t.id \notin t.others => t.others = {}

SetInv ==
  /\ BoardOK(board)
  /\ DOMAIN at = Hosts /\ DOMAIN task = Hosts
  /\ DOMAIN told = Hosts /\ DOMAIN others = Hosts
  /\ \A h \in Hosts :
       /\ at[h] \in {"send", "readback"} => Suits(task[h].config, Available)
       /\ ReadingBack(h)
       /\ AnswersItself(told[h])

\* The first state.
LEMMA InitSet == Init => SetInv
<1> SUFFICES ASSUME Init PROVE SetInv
  OBVIOUS
<1>1. BoardOK(board)
  BY InitAnswer DEF AnswerInv
<1>2. \A h \in Hosts : AnswersItself(told[h])
  BY DEF Init, AnswersItself, NothingTold
<1> QED
  BY <1>1, <1>2 DEF Init, SetInv, ReadingBack

\* A step that leaves the answer of the board and the host alone.
LEMMA BoardKept ==
  ASSUME SetInv, Keeps(board, board'), NEW h \in Hosts,
         at'[h] = at[h], task'[h] = task[h], others'[h] = others[h]
  PROVE  ReadingBack(h)'
BY DEF SetInv, Keeps, ReadingBack, Hosts

\* A write by somebody else, or by a host that has validated its payload.
LEMMA WriteKeepsOthers ==
  ASSUME SetInv, NEW p, Wrote(p), NEW h \in Hosts,
         at[h] = "readback", at'[h] = at[h], task'[h] = task[h]
  PROVE  ReadingBack(h)'
<1>1. others'[h] = others[h] \cup {board'.request_id}
  BY DEF Wrote, SetInv
<1> QED
  BY <1>1 DEF ReadingBack

\* What is returned after a readback is about the Set that was sent.
LEMMA OutcomeAnswers ==
  ASSUME SetInv, NEW h \in Hosts, at[h] = "readback",
         board.handles[h].state = "open",
         NEW outcome,
         outcome = SetOutcome(PinConfigReport(board), task[h].id, task[h].config)
  PROVE  AnswersItself([outcome |-> outcome, id |-> task[h].id,
                        others |-> others[h]])
BY DEF SetInv, ReadingBack, SetOutcome, PinConfigReport, AnswersItself

\* The end of a call with any other outcome, or with that one.
LEMMA ReturnKeeps ==
  ASSUME SetInv, NEW h \in Hosts, NEW outcome, Return(h, outcome),
         board' = board,
         AnswersItself([outcome |-> outcome, id |-> task[h].id,
                        others |-> others[h]])
  PROVE  SetInv'
<1>1. /\ at' = [at EXCEPT ![h] = "idle"]
      /\ told' = [told EXCEPT ![h] = [outcome |-> outcome, id |-> task[h].id,
                                      others |-> others[h]]]
      /\ task' = [task EXCEPT ![h] = NoTask]
      /\ others' = [others EXCEPT ![h] = {}]
  BY DEF Return, GoTo
<1>2. \A g \in Hosts \ {h} : /\ at'[g] = at[g] /\ task'[g] = task[g]
                             /\ told'[g] = told[g] /\ others'[g] = others[g]
  BY <1>1 DEF SetInv
<1>3. /\ at'[h] = "idle"
      /\ told'[h] = [outcome |-> outcome, id |-> task[h].id, others |-> others[h]]
  BY <1>1 DEF SetInv
<1>4. \A g \in Hosts : ReadingBack(g)'
  BY <1>2, <1>3, BoardKept DEF Keeps, ReadingBack
<1>5. /\ DOMAIN at' = Hosts /\ DOMAIN task' = Hosts
      /\ DOMAIN told' = Hosts /\ DOMAIN others' = Hosts /\ BoardOK(board')
  BY <1>1 DEF SetInv
<1>6. \A g \in Hosts : /\ AnswersItself(told'[g])
                       /\ at'[g] \in {"send", "readback"}
                            => Suits(task'[g].config, Available)
  BY <1>2, <1>3 DEF SetInv
<1> QED
  BY <1>4, <1>5, <1>6 DEF SetInv

\* A host that is left alone by a step, but for a write to the board.
Untouched(g) ==
  /\ at'[g] = at[g] /\ task'[g] = task[g] /\ told'[g] = told[g]

\* A step that writes nothing: the hosts it changes are not reading back, and
\* go on with a suitable configuration.
LEMMA QuietStep ==
  ASSUME SetInv, BoardOK(board'), Keeps(board, board'),
         DOMAIN at' = Hosts, DOMAIN task' = Hosts, DOMAIN told' = Hosts,
         others' = others,
         \A g \in Hosts :
           \/ Untouched(g)
           \/ /\ at'[g] # "readback" /\ AnswersItself(told'[g])
              /\ at'[g] = "send" => Suits(task'[g].config, Available)
  PROVE  SetInv'
<1>1. \A g \in Hosts : ReadingBack(g)'
  <2> TAKE g \in Hosts
  <2>1. CASE Untouched(g)
    BY <2>1, BoardKept DEF Untouched
  <2>2. CASE at'[g] # "readback"
    BY <2>2 DEF ReadingBack
  <2> QED
    BY <2>1, <2>2
<1>2. \A g \in Hosts : /\ AnswersItself(told'[g])
                       /\ at'[g] \in {"send", "readback"}
                            => Suits(task'[g].config, Available)
  BY DEF SetInv, Untouched
<1> QED
  BY <1>1, <1>2 DEF SetInv

\* Validating the argument of a call: it is sent only when it is suitable.
LEMMA ValidatedKeeps ==
  ASSUME SetInv, NEW h \in Hosts, NEW config, NEW settings,
         Validated(h, config, settings), UNCHANGED board
  PROVE  SetInv'
<1>1. CASE Suits(config, Available)
  <2>1. PICK id :
          /\ task' = [task EXCEPT ![h] = [config |-> config,
                                          settings |-> settings, id |-> id]]
          /\ at' = [at EXCEPT ![h] = "send"]
          /\ told' = [told EXCEPT ![h] = NothingTold]
          /\ others' = others
    BY <1>1 DEF Validated, GoTo
  <2>2. /\ BoardOK(board') /\ Keeps(board, board')
        /\ DOMAIN at' = Hosts /\ DOMAIN task' = Hosts /\ DOMAIN told' = Hosts
    BY <2>1 DEF SetInv, Keeps
  <2>3. /\ at'[h] = "send" /\ told'[h] = NothingTold
        /\ Suits(task'[h].config, Available)
    BY <1>1, <2>1 DEF SetInv
  <2>4. AnswersItself(told'[h])
    BY <2>3 DEF AnswersItself, NothingTold
  <2>5. \A g \in Hosts \ {h} : Untouched(g)
    BY <2>1 DEF SetInv, Untouched
  <2> QED
    BY <2>1, <2>2, <2>3, <2>4, <2>5, QuietStep
<1>2. CASE ~Suits(config, Available)
  <2>1. Return(h, "rejected_here")
    BY <1>2 DEF Validated
  <2>2. AnswersItself([outcome |-> "rejected_here", id |-> task[h].id,
                       others |-> others[h]])
    BY DEF AnswersItself
  <2> QED
    BY <2>1, <2>2, ReturnKeeps
<1> QED
  BY <1>1, <1>2

\* A transfer that fails ends the call.
LEMMA FailedTransferKeeps ==
  ASSUME SetInv, NEW h \in Hosts, FailedTransfer(h)
  PROVE  SetInv'
<1>1. AnswersItself([outcome |-> "io", id |-> task[h].id, others |-> others[h]])
  BY DEF AnswersItself
<1> QED
  BY <1>1, ReturnKeeps DEF FailedTransfer

\* A write: whoever reads back has been overtaken, except the writer.
LEMMA WroteKeeps ==
  ASSUME SetInv, NEW p, Wrote(p), UNCHANGED <<at, task, told>>
  PROVE  SetInv'
<1>1. BoardOK(board') /\ DOMAIN others' = Hosts
  BY WriteAnswers DEF SetInv, Wrote
<1>2. \A g \in Hosts : ReadingBack(g)'
  <2> TAKE g \in Hosts
  <2>1. CASE at[g] = "readback"
    BY <2>1, WriteKeepsOthers
  <2>2. CASE at[g] # "readback"
    BY <2>2 DEF ReadingBack
  <2> QED
    BY <2>1, <2>2
<1> QED
  BY <1>1, <1>2 DEF SetInv

\* The Set itself.
LEMMA SendKeepsSet ==
  ASSUME SetInv, NEW h \in Hosts, at[h] = "send", SendSet(h)
  PROVE  SetInv'
<1>1. CASE FailedTransfer(h)
  BY <1>1, FailedTransferKeeps
<1>2. CASE ~FailedTransfer(h)
  <2> DEFINE p == EncodePinConfigSet(task[h].config, task[h].id)
  <2>1. /\ Wrote(p) /\ at' = [at EXCEPT ![h] = "readback"]
        /\ UNCHANGED <<task, told>>
    BY <1>2 DEF SendSet, GoTo
  <2>2. /\ board' = WriteConfig(board, p)
        /\ others' = [g \in Hosts |-> IF at[g] # "readback" THEN {}
                                      ELSE others[g] \cup {board'.request_id}]
    BY <2>1 DEF Wrote
  <2>3. Suits(task[h].config, Available)
    BY DEF SetInv
  <2>4. /\ ValidatePinConfigPayload(p, Available).result = "OK"
        /\ ValidatePinConfigPayload(p, Available).request_id = task[h].id
        /\ p.pins = task[h].config
    BY <2>3, SuitsIsAccepted DEF EncodePinConfigSet, Encoded
  <2> HIDE DEF p
  <2>5. /\ BoardOK(board') /\ board'.result = "OK"
        /\ board'.request_id = task[h].id /\ board'.config = task[h].config
    BY <2>2, <2>4, WriteAnswers DEF SetInv
  <2>6. others'[h] = {} /\ at'[h] = "readback" /\ DOMAIN others' = Hosts
    BY <2>1, <2>2 DEF SetInv
  <2>7. \A g \in Hosts \ {h} : at'[g] = at[g] /\ task'[g] = task[g]
    BY <2>1 DEF SetInv
  <2>8. \A g \in Hosts : ReadingBack(g)'
    <3> TAKE g \in Hosts
    <3>1. CASE g = h
      BY <2>1, <2>5, <2>6, <3>1 DEF ReadingBack
    <3>2. CASE g # h /\ at[g] = "readback"
      BY <2>1, <2>7, <3>2, WriteKeepsOthers
    <3>3. CASE g # h /\ at[g] # "readback"
      BY <2>7, <3>3 DEF ReadingBack
    <3> QED
      BY <3>1, <3>2, <3>3
  <2>9. \A g \in Hosts : /\ AnswersItself(told'[g])
                         /\ at'[g] \in {"send", "readback"}
                              => Suits(task'[g].config, Available)
    BY <2>1, <2>3, <2>7 DEF SetInv
  <2> QED
    BY <2>1, <2>5, <2>6, <2>8, <2>9 DEF SetInv
<1> QED
  BY <1>1, <1>2

\* A step of a host.
LEMMA HostKeepsSet ==
  ASSUME SetInv, NEW h \in Hosts, HostStep(h)
  PROVE  SetInv'
<1> USE DEF Hosts
<1>1. BoardOK(board) /\ AnswersItself(told[h])
  BY DEF SetInv
<1>2. ASSUME NEW step, step \notin {"send", "readback"},
             at' = [at EXCEPT ![h] = step],
             BoardOK(board'), Keeps(board, board'),
             UNCHANGED <<task, told, others>>
      PROVE  SetInv'
  BY <1>1, <1>2, QuietStep DEF SetInv, Untouched
<1>3. CASE Open(h)
  <2>1. /\ board' = OpenHandle(board, h) /\ CanOpen(board)
        /\ at[h] = "closed" /\ at' = [at EXCEPT ![h] = "info"]
        /\ UNCHANGED <<task, told, others>>
    BY <1>3 DEF Open, GoTo
  <2>2. /\ BoardOK(board') /\ board'.config = board.config
        /\ board'.result = board.result /\ board'.request_id = board.request_id
        /\ \A g \in Hosts \ {h} : board'.handles[g] = board.handles[g]
    BY <1>1, <2>1, HandleSteps
  <2>3. /\ at'[h] = "info" /\ DOMAIN at' = Hosts
        /\ \A g \in Hosts \ {h} : at'[g] = at[g]
    BY <2>1 DEF SetInv
  <2> QED
    BY <2>1, <2>2, <2>3 DEF SetInv, ReadingBack
<1>4. CASE Info(h)
  <2>1. CASE board' = board /\ at' = [at EXCEPT ![h] = "idle"]
    BY <1>1, <1>2, <1>4, <2>1 DEF Info, Keeps
  <2>2. CASE board' = CloseHandle(board, h) /\ at' = [at EXCEPT ![h] = "closed"]
    BY <1>1, <1>2, <1>4, <2>2, HandleSteps DEF Info
  <2> QED
    BY <1>4, <2>1, <2>2 DEF Info, GoTo
<1>5. CASE Close(h)
  BY <1>1, <1>2, <1>5, HandleSteps DEF Close, GoTo
<1>6. CASE SetPinConfig(h)
  BY <1>6, ValidatedKeeps DEF SetPinConfig
<1>7. CASE UpdatePins(h)
  <2>1. PICK t : /\ task' = [task EXCEPT ![h] = t]
                 /\ at' = [at EXCEPT ![h] = "get"]
                 /\ UNCHANGED <<board, told, others>>
    BY <1>7 DEF UpdatePins, GoTo
  <2>2. /\ DOMAIN at' = Hosts /\ DOMAIN task' = Hosts /\ DOMAIN told' = Hosts
        /\ at'[h] = "get" /\ told'[h] = told[h]
        /\ \A g \in Hosts \ {h} : Untouched(g)
    BY <2>1 DEF SetInv, Untouched
  <2> QED
    BY <1>1, <2>1, <2>2, QuietStep DEF Keeps
<1>8. CASE UpdateGet(h)
  BY <1>8, ValidatedKeeps, FailedTransferKeeps DEF UpdateGet
<1>9. CASE SendSet(h)
  BY <1>9, SendKeepsSet DEF SendSet
<1>10. CASE ReadBack(h)
  <2> DEFINE outcome == SetOutcome(PinConfigReport(board), task[h].id,
                                   task[h].config)
  <2>1. CASE FailedTransfer(h)
    BY <2>1, FailedTransferKeeps
  <2>2. CASE ~FailedTransfer(h)
    <3>1. /\ at[h] = "readback" /\ board.handles[h].state = "open"
          /\ Return(h, outcome) /\ board' = board
      BY <1>10, <2>2 DEF ReadBack, Usable
    <3>2. AnswersItself([outcome |-> outcome, id |-> task[h].id,
                         others |-> others[h]])
      BY <3>1, OutcomeAnswers
    <3> QED
      BY <3>1, <3>2, ReturnKeeps
  <2> QED
    BY <2>1, <2>2
<1>11. CASE ReadStatus(h)
  <2>1. BoardOK(board') /\ Keeps(board, board')
    BY <1>1, <1>11, HandleSteps DEF ReadStatus
  <2>2. UNCHANGED <<at, task, told, others>>
    BY <1>11 DEF ReadStatus
  <2> QED
    BY <2>1, <2>2, QuietStep DEF SetInv, Untouched
<1> QED
  BY <1>3, <1>4, <1>5, <1>6, <1>7, <1>8, <1>9, <1>10, <1>11 DEF HostStep

\* Every step.
LEMMA NextSet == SetInv /\ [Next]_vars => SetInv'
<1> SUFFICES ASSUME SetInv, [Next]_vars
             PROVE  SetInv'
  OBVIOUS
<1>1. BoardOK(board)
  BY DEF SetInv
<1>2. ASSUME NEW h \in Hosts, HostStep(h)
      PROVE  SetInv'
  BY <1>2, HostKeepsSet
<1>3. CASE RawWrite
  BY <1>3, WroteKeeps DEF RawWrite
<1>4. CASE PlugIn
  <2>1. BoardOK(board') /\ board'.handles = board.handles
        /\ \A h \in Hosts : board.handles[h].state # "open"
    BY <1>1, <1>4, PlugOK DEF PlugIn, BoardOK, Hosts
  <2> QED
    BY <1>4, <2>1 DEF PlugIn, SetInv, ReadingBack
<1>5. CASE World
  <2>2. BoardOK(board') /\ Keeps(board, board')
    BY <1>1, <1>5, WorldStep
  <2>3. UNCHANGED <<at, task, told, others>>
    BY <1>5 DEF World, Happens
  <2> QED
    BY <2>2, <2>3, QuietStep DEF SetInv, Untouched
<1>6. CASE UNCHANGED vars
  BY <1>1, <1>6, QuietStep DEF vars, SetInv, Untouched, Keeps
<1> QED
  BY <1>2, <1>3, <1>4, <1>5, <1>6 DEF Next

(***************************************************************************)
(* set_pin_config, with other writers between the Set and its readback:    *)
(* it says "conflict" only when somebody else wrote, and everything else   *)
(* it says is about its own write unless the last of the others used the   *)
(* same request id.                                                        *)
(***************************************************************************)
THEOREM AnswerOfSet == Spec => []SetAnswersForItself
<1>1. SetInv => SetAnswersForItself
  BY DEF SetInv, SetAnswersForItself, AnswersItself
<1> QED
  BY InitSet, NextSet, <1>1, PTL DEF Spec

-----------------------------------------------------------------------------
(***************************************************************************)
(* The hosts                                                               *)
(***************************************************************************)
\* Both kinds of writers.
LEMMA Payloads ==
  /\ \A p \in RawPayloads : Payload(p)
  /\ \A config \in PinConfigs, id \in 0 .. 255 :
       Payload(EncodePinConfigSet(config, id))
<1>1. \A p \in RawPayloads : Payload(p)
  <2> SUFFICES ASSUME NEW p \in RawPayloads
               PROVE  Payload(p)
    OBVIOUS
  <2>1. p \in [len : Nat, result : Results, result_gpio : 0 .. 255,
               request_id : 0 .. 255,
               pins : [GPIOS -> [mode : 0 .. 255, param : 0 .. 255]]]
    BY WritersAssumption
  <2> HIDE DEF Results
  <2> QED
    BY <2>1 DEF Payload
<1> QED
  BY <1>1, EncodedPayload

Devices == [last_request_id : 0 .. 255, last_seq : SUBSET SeqNumbers,
            missed : Nat]

TypeInv ==
  /\ Bounded(board)
  /\ device \in [Hosts -> Devices]
  /\ lost \in [Hosts -> Nat]
  /\ at \in [Hosts -> {"closed", "info", "idle", "get", "send", "readback"}]
  /\ DOMAIN task = Hosts
  /\ \A h \in Hosts :
       /\ at[h] = "get" => task[h].settings \in Settings
       /\ at[h] = "send" => /\ task[h].config \in PinConfigs
                            /\ task[h].id \in 0 .. 255

\* The first state.
LEMMA InitTypes == Init => TypeInv
<1> SUFFICES ASSUME Init PROVE TypeInv
  OBVIOUS
<1>1. Bounded(board)
  BY PlugTypes DEF Init
<1>2. NewDevice \in Devices
  BY DEF NewDevice, Devices, None
<1> QED
  BY <1>1, <1>2 DEF Init, TypeInv

\* A device that reads a report.
LEMMA AfterReadType ==
  ASSUME NEW d \in Devices, NEW report \in StatusReports
  PROVE  AfterRead(d, report) \in Devices
<1>1. report.seq \in SeqNumbers /\ d.last_seq \in SUBSET SeqNumbers /\ d.missed \in Nat
  BY DEF StatusReports, Devices, SeqNumbers
<1>2. MissedBefore(d.last_seq, report) \in Nat
  <2>1. CASE d.last_seq = None
    BY <2>1 DEF MissedBefore
  <2>2. CASE d.last_seq # None
    <3> DEFINE s == CHOOSE s \in d.last_seq : TRUE
               distance == SeqDistance(report.seq, s, SEQ_MOD)
    <3>1. s \in SeqNumbers
      BY <1>1, <2>2 DEF None
    <3>2. distance \in SeqNumbers
      BY <1>1, <3>1, SeqArithmetic
    <3> HIDE DEF distance
    <3>3. (distance + SEQ_MOD - 1) % SEQ_MOD \in Nat
      <4>1. (distance + 0 + SEQ_MOD - 1) % SEQ_MOD \in SeqNumbers
        BY <3>2, SeqArithmetic
      <4> QED
        BY <3>2, <4>1, SeqArithmetic DEF SeqNumbers
    <3> QED
      BY <2>2, <3>3 DEF MissedBefore, distance
  <2> QED
    BY <2>1, <2>2
<1>3. {report.seq} \in SUBSET SeqNumbers
  BY <1>1
<1>4. AfterRead(d, report) =
        IF "HOST_REQUEST" \in report.reason THEN d
        ELSE [d EXCEPT !.missed = d.missed + MissedBefore(d.last_seq, report),
                       !.last_seq = {report.seq}]
  BY DEF AfterRead, Some, Devices
<1>5. d.missed + MissedBefore(d.last_seq, report) \in Nat
  BY <1>1, <1>2
<1>6. \A missed \in Nat, last \in SUBSET SeqNumbers :
        [d EXCEPT !.missed = missed, !.last_seq = last] \in Devices
  BY DEF Devices
<1>7. CASE "HOST_REQUEST" \in report.reason
  BY <1>4, <1>7
<1>8. CASE "HOST_REQUEST" \notin report.reason
  <2>1. AfterRead(d, report) =
          [d EXCEPT !.missed = d.missed + MissedBefore(d.last_seq, report),
                    !.last_seq = {report.seq}]
    BY <1>4, <1>8
  <2> QED
    BY <2>1, <1>3, <1>5, <1>6
<1> QED
  BY <1>7, <1>8

\* A step of one host that leaves its task, or leaves it behind.
LEMMA OneHost ==
  ASSUME TypeInv, Bounded(board'), NEW h \in Hosts, NEW step,
         step \in {"closed", "info", "idle", "readback"},
         at' = [at EXCEPT ![h] = step],
         device' \in [Hosts -> Devices], lost' \in [Hosts -> Nat],
         \/ task' = task
         \/ task' = [task EXCEPT ![h] = NoTask]
  PROVE  TypeInv'
<1>1. /\ at'[h] = step /\ DOMAIN task' = Hosts
      /\ \A g \in Hosts \ {h} : at'[g] = at[g] /\ task'[g] = task[g]
  BY DEF TypeInv
<1>2. at' \in [Hosts -> {"closed", "info", "idle", "get", "send", "readback"}]
  BY DEF TypeInv
<1> QED
  BY <1>1, <1>2 DEF TypeInv

\* The end of a call.
LEMMA ReturnTypes ==
  ASSUME TypeInv, NEW h \in Hosts, NEW outcome, Return(h, outcome),
         UNCHANGED <<board, device, lost>>
  PROVE  TypeInv'
<1>1. Bounded(board') /\ device' \in [Hosts -> Devices] /\ lost' \in [Hosts -> Nat]
  BY DEF TypeInv
<1> QED
  BY <1>1, OneHost DEF Return, GoTo

\* The argument of a call on its way to the board.
LEMMA ValidatedTypes ==
  ASSUME TypeInv, NEW h \in Hosts, NEW config \in PinConfigs, NEW settings,
         Validated(h, config, settings), UNCHANGED <<board, lost>>
  PROVE  TypeInv'
<1>1. CASE Suits(config, Available)
  <2>1. PICK id \in RequestIds :
          /\ device' = [device EXCEPT ![h].last_request_id = id]
          /\ task' = [task EXCEPT ![h] = [config |-> config,
                                          settings |-> settings, id |-> id]]
          /\ at' = [at EXCEPT ![h] = "send"]
    BY <1>1 DEF Validated, GoTo, FreshIds
  <2>2. id \in 0 .. 255
    BY <2>1, RequestIdAssumption
  <2>3. device' \in [Hosts -> Devices]
    <3>1. device \in [Hosts -> Devices]
      BY DEF TypeInv
    <3>2. [device[h] EXCEPT !.last_request_id = id] \in Devices
      BY <2>2, <3>1 DEF Devices
    <3> QED
      BY <2>1, <3>1, <3>2
  <2>4. /\ DOMAIN task' = Hosts /\ at'[h] = "send"
        /\ task'[h].config = config /\ task'[h].id = id
        /\ \A g \in Hosts \ {h} : at'[g] = at[g] /\ task'[g] = task[g]
    BY <2>1 DEF TypeInv
  <2>5. at' \in [Hosts -> {"closed", "info", "idle", "get", "send", "readback"}]
    BY <2>1 DEF TypeInv
  <2> QED
    BY <2>2, <2>3, <2>4, <2>5 DEF TypeInv
<1>2. CASE ~Suits(config, Available)
  BY <1>2, ReturnTypes DEF Validated
<1> QED
  BY <1>1, <1>2

\* Reading a report from the queue of a handle.
LEMMA ReadStatusTypes ==
  ASSUME TypeInv, NEW h \in Hosts, ReadStatus(h)
  PROVE  TypeInv'
<1> DEFINE report == Head(board.handles[h].reports)
           hd == board.handles[h]
           rest == [hd EXCEPT !.reports = Tail(hd.reports)]
           hs == [board.handles EXCEPT ![h] = rest]
<1>1. /\ hd \in Handles /\ Len(hd.reports) <= QUEUE_LEN
      /\ hd.reports # <<>> /\ hd.reports \in Seq(StatusReports)
      /\ board.handles \in [Clients -> Handles]
      /\ \A c \in Clients : Len(board.handles[c].reports) <= QUEUE_LEN
  BY HandlesOf DEF TypeInv, ReadStatus, Hosts, Handles
<1>2. /\ report \in StatusReports /\ Tail(hd.reports) \in Seq(StatusReports)
      /\ Len(Tail(hd.reports)) <= QUEUE_LEN
  <2>1. ASSUME NEW s \in Seq(StatusReports), s # <<>>, Len(s) <= QUEUE_LEN
        PROVE  /\ Head(s) \in StatusReports /\ Tail(s) \in Seq(StatusReports)
               /\ Len(Tail(s)) <= QUEUE_LEN
    BY <2>1, BoardAssumption
  <2> QED
    BY <1>1, <2>1
<1>3. rest \in Handles /\ rest.reports = Tail(hd.reports)
  BY <1>1, <1>2 DEF Handles
<1>4. board' = [board EXCEPT !.handles = hs]
  BY DEF ReadStatus
<1>5. /\ hs \in [Clients -> Handles]
      /\ \A c \in Clients : Len(hs[c].reports) <= QUEUE_LEN
  <2>1. Len(rest.reports) <= QUEUE_LEN
    BY <1>2, <1>3
  <2> HIDE DEF rest, hd, report
  <2> QED
    BY <1>1, <1>3, <2>1 DEF Hosts
<1> HIDE DEF hs, rest, hd, report
<1>6. Bounded(board')
  <2>1. Bounded([board EXCEPT !.handles = hs])
    BY <1>5, FieldTypes DEF TypeInv
  <2> QED
    BY <1>4, <2>1
<1>7. device' \in [Hosts -> Devices]
  <2>1. AfterRead(device[h], report) \in Devices
    BY <1>2, AfterReadType DEF TypeInv
  <2>2. device' = [device EXCEPT ![h] = AfterRead(device[h], report)]
    BY DEF ReadStatus, report
  <2> QED
    BY <2>1, <2>2 DEF TypeInv
<1>8. lost' \in [Hosts -> Nat]
  <2> DEFINE more == IF device[h].last_seq = None THEN 0 ELSE report.gap % SEQ_MOD
  <2>1. report.gap \in Nat
    BY <1>2 DEF StatusReports
  <2>2. report.gap % SEQ_MOD \in Nat
    BY <2>1, BoardAssumption
  <2>3. more \in Nat
    BY <2>2
  <2>4. lost' = [lost EXCEPT ![h] = @ + more]
    BY DEF ReadStatus, report
  <2> HIDE DEF more
  <2> QED
    BY <2>3, <2>4 DEF TypeInv
<1>9. UNCHANGED <<at, task>>
  BY DEF ReadStatus
<1> QED
  BY <1>6, <1>7, <1>8, <1>9 DEF TypeInv

\* A step of a host.
LEMMA HostTypes ==
  ASSUME TypeInv, NEW h \in Hosts, HostStep(h)
  PROVE  TypeInv'
<1>1. /\ Bounded(board) /\ device \in [Hosts -> Devices]
      /\ lost \in [Hosts -> Nat]
  BY DEF TypeInv
<1>2. ASSUME FailedTransfer(h)
      PROVE  TypeInv'
  BY <1>2, ReturnTypes DEF FailedTransfer
<1>3. CASE Open(h)
  <2>1. Bounded(board') /\ lost' \in [Hosts -> Nat]
    BY <1>1, <1>3, SmallStepTypes DEF Open, Hosts
  <2>2. device' \in [Hosts -> Devices]
    <3>1. NewDevice \in Devices
      BY DEF NewDevice, Devices, None
    <3> QED
      BY <1>1, <1>3, <3>1 DEF Open
  <2> QED
    BY <1>3, <2>1, <2>2, OneHost DEF Open, GoTo
<1>4. CASE Info(h) \/ Close(h)
  <2>1. Bounded(board')
    BY <1>1, <1>4, SmallStepTypes DEF Info, Close, Hosts
  <2> QED
    BY <1>1, <1>4, <2>1, OneHost DEF Info, Close, GoTo
<1>5. CASE SetPinConfig(h)
  <2>1. PICK config \in Configs : Validated(h, config, NoSettings)
    BY <1>5 DEF SetPinConfig
  <2>2. config \in PinConfigs
    BY WritersAssumption
  <2> QED
    BY <1>5, <2>1, <2>2, ValidatedTypes DEF SetPinConfig
<1>6. CASE UpdatePins(h)
  <2>1. PICK settings \in Settings :
          /\ task' = [task EXCEPT ![h] = [NoTask EXCEPT !.settings = settings]]
          /\ at' = [at EXCEPT ![h] = "get"]
          /\ UNCHANGED <<board, device, lost>>
    BY <1>6 DEF UpdatePins, GoTo
  <2>2. [NoTask EXCEPT !.settings = settings].settings = settings
    BY DEF NoTask
  <2>3. /\ DOMAIN task' = Hosts /\ at'[h] = "get" /\ task'[h].settings = settings
        /\ \A g \in Hosts \ {h} : at'[g] = at[g] /\ task'[g] = task[g]
    BY <2>1, <2>2 DEF TypeInv
  <2>4. at' \in [Hosts -> {"closed", "info", "idle", "get", "send", "readback"}]
    BY <2>1 DEF TypeInv
  <2> QED
    BY <1>1, <2>1, <2>3, <2>4 DEF TypeInv
<1>7. CASE UpdateGet(h)
  <2> DEFINE config == WithPins(board.config, task[h].settings)
  <2>1. CASE FailedTransfer(h)
    BY <1>2, <2>1
  <2>2. CASE ~FailedTransfer(h)
    <3>1. Validated(h, config, task[h].settings) /\ UNCHANGED <<board, lost>>
      BY <1>7, <2>2 DEF UpdateGet
    <3>2. config \in PinConfigs
      <4>1. board.config \in PinConfigs
        BY <1>1 DEF Bounded, Boards, ValidConfigs
      <4>2. task[h].settings \in Settings
        BY <1>7 DEF UpdateGet, TypeInv
      <4>3. \A n \in DOMAIN task[h].settings :
              task[h].settings[n] \in [mode : Modes, param : 0 .. 255]
        BY <4>2, WritersAssumption
      <4> QED
        BY <4>1, <4>3 DEF WithPins, PinConfigs
    <3> HIDE DEF config
    <3> QED
      BY <3>1, <3>2, ValidatedTypes
  <2> QED
    BY <2>1, <2>2
<1>8. CASE SendSet(h)
  <2> DEFINE p == EncodePinConfigSet(task[h].config, task[h].id)
  <2>1. CASE FailedTransfer(h)
    BY <1>2, <2>1
  <2>2. CASE ~FailedTransfer(h)
    <3>1. /\ board' = WriteConfig(board, p) /\ at' = [at EXCEPT ![h] = "readback"]
          /\ UNCHANGED <<device, task, lost>>
      BY <1>8, <2>2 DEF SendSet, Wrote, GoTo
    <3>2. Payload(p)
      BY <1>8, Payloads DEF TypeInv, SendSet
    <3> HIDE DEF p
    <3>3. Bounded(board')
      BY <1>1, <3>1, <3>2, WriteType
    <3> QED
      BY <1>1, <3>1, <3>3, OneHost
  <2> QED
    BY <2>1, <2>2
<1>9. CASE ReadBack(h)
  BY <1>2, <1>9, ReturnTypes DEF ReadBack
<1>10. CASE ReadStatus(h)
  BY <1>10, ReadStatusTypes
<1> QED
  BY <1>3, <1>4, <1>5, <1>6, <1>7, <1>8, <1>9, <1>10 DEF HostStep

\* Every step.
LEMMA NextTypes == TypeInv /\ [Next]_vars => TypeInv'
<1> SUFFICES ASSUME TypeInv, [Next]_vars
             PROVE  TypeInv'
  OBVIOUS
<1>1. Bounded(board)
  BY DEF TypeInv
<1>2. ASSUME Bounded(board'), UNCHANGED <<device, at, task, lost>>
      PROVE  TypeInv'
  BY <1>2 DEF TypeInv
<1>3. CASE RawWrite
  <2>1. PICK p \in RawPayloads : board' = WriteConfig(board, p)
    BY <1>3 DEF RawWrite, Wrote
  <2>2. Bounded(board')
    BY <1>1, <2>1, Payloads, WriteType
  <2> QED
    BY <1>2, <1>3, <2>2 DEF RawWrite
<1>4. CASE PlugIn
  BY <1>1, <1>2, <1>4, PlugTypes DEF PlugIn
<1>5. CASE World
  <2>1. PICK b : Happens(b) /\ Bounded(b)
    <3>1. /\ {} \in SUBSET GPIOS /\ GPIOS \in SUBSET GPIOS
          /\ Available \subseteq GPIOS /\ 1 \in Nat /\ SEQ_MOD \in Nat
      BY ProtocolAssumption, BoardAssumption
    <3>2. \A k \in {1, SEQ_MOD} : Bounded(SkipReports(board, k))
      BY <1>1, <3>1, SmallStepTypes
    <3>3. \A value \in {{}, GPIOS} : Bounded(WriteOutputs(board, GPIOS, value))
      BY <1>1, <3>1, WorldTypes
    <3>4. \A n \in Available :
            /\ Bounded(SetInput(board, n, n \notin board.inputs))
            /\ Bounded(LoseInput(board, n, n \notin board.inputs))
      BY <1>1, <3>1, WorldTypes
    <3>5. /\ Bounded([board EXCEPT !.version_ok = ~@])
          /\ Bounded([board EXCEPT !.open_error = ~@])
      <4>1. (~board.version_ok) \in BOOLEAN /\ (~board.open_error) \in BOOLEAN
        OBVIOUS
      <4> QED
        BY <1>1, <4>1, FieldTypes
    <3>6. /\ Bounded(Unplug(board)) /\ Bounded(Reenumerate(board))
          /\ Bounded(Suspend(board)) /\ Bounded(Periodic(board))
      BY <1>1, WorldTypes
    <3> QED
      BY <1>5, <3>2, <3>3, <3>4, <3>5, <3>6, Zenon DEF World
  <2> QED
    BY <1>2, <1>5, <2>1 DEF World, Happens
<1>6. CASE UNCHANGED vars
  BY <1>1, <1>2, <1>6 DEF vars
<1> QED
  BY <1>3, <1>4, <1>5, <1>6, HostTypes DEF Next

(***************************************************************************)
(* Whatever the hosts, the other writers and the world do to a board: it   *)
(* never has a configuration its firmware would refuse, its sequence       *)
(* numbers stay in range, and no handle keeps more than QUEUE_LEN reports. *)
(***************************************************************************)
THEOREM TypesOfWriters == Spec => []TypeOK
<1>1. TypeInv => TypeOK
  BY DEF TypeInv, TypeOK, Bounded, Devices, Hosts
<1> QED
  BY InitTypes, NextTypes, <1>1, PTL DEF Spec

-----------------------------------------------------------------------------
(***************************************************************************)
(* Missed reports                                                          *)
(***************************************************************************)

\* The queue of a host follows the report it read last, and so far it has
\* counted what it lost.
GapInv ==
  \A h \in Hosts :
    /\ Chained(board, h, device[h].last_seq)
    /\ device[h].missed = lost[h]
    /\ \A s, t \in device[h].last_seq : s = t

\* The first state.
LEMMA InitGap == Init => GapInv
<1> SUFFICES ASSUME Init PROVE GapInv
  OBVIOUS
<1>1. \A h \in Hosts : board.handles[h].state # "open"
  BY DEF Init, Plug, NewBoard, Closed, Hosts
<1> QED
  BY <1>1 DEF Init, GapInv, Chained, NewDevice, None

\* A step that reads nothing.
LEMMA GapsStay ==
  ASSUME GapInv, TypeInv, KeepsChains(board, board'), UNCHANGED lost,
         \A h \in Hosts : /\ device'[h].last_seq = device[h].last_seq
                          /\ device'[h].missed = device[h].missed
  PROVE  GapInv'
<1>1. \A h \in Hosts : device[h].last_seq \in SUBSET SeqNumbers
  BY DEF TypeInv, Devices
<1> QED
  BY <1>1 DEF GapInv, KeepsChains, Hosts

\* What a host counts when it reads a report is what it lost before it.
LEMMA MissedBeforeIsGap ==
  ASSUME NEW last \in SUBSET SeqNumbers, \A s, t \in last : s = t,
         NEW report \in StatusReports, ComesAfter(last, report.seq, report.gap)
  PROVE  MissedBefore(last, report) =
           IF last = None THEN 0 ELSE report.gap % SEQ_MOD
<1>1. CASE last = None
  BY <1>1 DEF MissedBefore
<1>2. CASE last # None
  <2>1. PICK s \in last : last = {s}
    BY <1>2 DEF None
  <2>2. (CHOOSE x \in last : TRUE) = s
    BY <2>1
  <2>3. report.seq = (s + 1 + report.gap) % SEQ_MOD
    BY <2>1 DEF ComesAfter
  <2>4. /\ SEQ_MOD \in Nat /\ SEQ_MOD > 0 /\ s \in 0 .. SEQ_MOD - 1
        /\ report.gap \in Nat
    BY SeqArithmetic DEF SeqNumbers, StatusReports
  <2>5. (SeqDistance(report.seq, s, SEQ_MOD) + SEQ_MOD - 1) % SEQ_MOD
          = report.gap % SEQ_MOD
    BY <2>3, <2>4, GapIsSeen
  <2> QED
    BY <1>2, <2>2, <2>5 DEF MissedBefore
<1> QED
  BY <1>1, <1>2

\* Reading a report.
LEMMA ReadStatusGap ==
  ASSUME GapInv, TypeInv, NEW h \in Hosts, ReadStatus(h)
  PROVE  GapInv'
<1> DEFINE q == board.handles[h].reports
           report == Head(q)
           last == device[h].last_seq
<1>1. /\ board \in Boards /\ board.handles \in [Clients -> Handles]
      /\ device \in [Hosts -> Devices] /\ lost \in [Hosts -> Nat]
  BY HandlesOf DEF TypeInv
<1>2. /\ q \in Seq(StatusReports) /\ q # <<>> /\ board.handles[h].state = "open"
      /\ last \in SUBSET SeqNumbers
  BY <1>1 DEF ReadStatus, Usable, Handles, Hosts, Devices
<1>3. Chain(q, last, board.next_seq, board.handles[h].gap)
  BY <1>2 DEF GapInv, Chained
<1>4. /\ ComesAfter(last, report.seq, report.gap)
      /\ "HOST_REQUEST" \notin report.reason
      /\ Chain(Tail(q), {report.seq}, board.next_seq, board.handles[h].gap)
  <2> HIDE DEF q, last
  <2> QED
    BY <1>2, <1>3, ChainTail
<1>5. report \in StatusReports
  <2> HIDE DEF q
  <2> QED
    BY <1>2
<1>6. MissedBefore(last, report) = IF last = None THEN 0 ELSE report.gap % SEQ_MOD
  <2>1. \A s, t \in last : s = t
    BY DEF GapInv
  <2> HIDE DEF last, report
  <2> QED
    BY <1>2, <1>4, <1>5, <2>1, MissedBeforeIsGap
<1>7. /\ device' = [device EXCEPT ![h] = AfterRead(device[h], report)]
      /\ lost' = [lost EXCEPT ![h] =
                    @ + IF last = None THEN 0 ELSE report.gap % SEQ_MOD]
      /\ board' = [board EXCEPT !.handles[h].reports = Tail(q)]
  BY DEF ReadStatus
<1>8. /\ AfterRead(device[h], report).missed = device[h].missed + MissedBefore(last, report)
      /\ AfterRead(device[h], report).last_seq = {report.seq}
  <2> HIDE DEF report
  <2> QED
    BY <1>1, <1>4 DEF AfterRead, Devices, Some
<1>9. /\ board'.handles[h].reports = Tail(q)
      /\ board'.handles[h].gap = board.handles[h].gap
      /\ board'.next_seq = board.next_seq
      /\ \A g \in Hosts \ {h} : board'.handles[g] = board.handles[g]
  BY <1>1, <1>7 DEF Boards, Handles, Hosts
<1> HIDE DEF q, report, last
<1>10. /\ device'[h].missed = lost'[h] /\ device'[h].last_seq = {report.seq}
       /\ \A g \in Hosts \ {h} : device'[g] = device[g] /\ lost'[g] = lost[g]
  BY <1>1, <1>6, <1>7, <1>8 DEF GapInv
<1>11. Chained(board, h, device[h].last_seq)' /\ \A s, t \in device'[h].last_seq : s = t
  BY <1>4, <1>9, <1>10 DEF Chained
<1>12. ASSUME NEW g \in Hosts \ {h}
       PROVE  /\ Chained(board, g, device[g].last_seq)'
              /\ device'[g].missed = lost'[g]
              /\ \A s, t \in device'[g].last_seq : s = t
  BY <1>9, <1>10 DEF GapInv, Chained
<1> QED
  BY <1>10, <1>11, <1>12 DEF GapInv

\* A step of a host.
LEMMA HostGap ==
  ASSUME GapInv, TypeInv, NEW h \in Hosts, HostStep(h)
  PROVE  GapInv'
<1>1. /\ Bounded(board) /\ board \in Boards /\ device \in [Hosts -> Devices]
      /\ KeepsChains(board, board)
  BY ChainsStay DEF TypeInv, Bounded
<1>2. ASSUME UNCHANGED <<board, device, lost>>
      PROVE  GapInv'
  BY <1>1, <1>2, GapsStay
<1>3. ASSUME NEW config, NEW settings, Validated(h, config, settings),
             UNCHANGED <<board, lost>>
      PROVE  GapInv'
  <2>1. \/ UNCHANGED device
        \/ \E id : device' = [device EXCEPT ![h].last_request_id = id]
    BY <1>3 DEF Validated
  <2>2. \A g \in Hosts : /\ device'[g].last_seq = device[g].last_seq
                         /\ device'[g].missed = device[g].missed
    BY <1>1, <2>1 DEF Devices
  <2> QED
    BY <1>1, <1>3, <2>2, GapsStay
<1>4. CASE Open(h)
  <2>1. /\ board' = [board EXCEPT !.handles[h] = Opened]
        /\ device' = [device EXCEPT ![h] = NewDevice] /\ lost' = [lost EXCEPT ![h] = 0]
    BY <1>4 DEF Open, OpenHandle
  <2>2. /\ board'.handles[h] = Opened /\ board'.next_seq = board.next_seq
        /\ \A g \in Hosts \ {h} : board'.handles[g] = board.handles[g]
    BY <1>1, <2>1 DEF Boards, Hosts
  <2>3. /\ device'[h] = NewDevice /\ lost'[h] = 0
        /\ \A g \in Hosts \ {h} : device'[g] = device[g] /\ lost'[g] = lost[g]
    BY <2>1 DEF TypeInv
  <2>4. Chained(board', h, device'[h].last_seq)
    BY <2>2, <2>3 DEF Chained, Chain, ComesAfter, Prior, Opened, Closed, NewDevice, None
  <2>5. /\ Chained(board, h, device[h].last_seq)'
        /\ device'[h].missed = lost'[h] /\ device'[h].last_seq = {}
    BY <2>3, <2>4 DEF NewDevice, None
  <2>6. ASSUME NEW g \in Hosts \ {h}
        PROVE  /\ Chained(board, g, device[g].last_seq)'
               /\ device'[g].missed = lost'[g]
               /\ \A s, t \in device'[g].last_seq : s = t
    BY <2>2, <2>3 DEF GapInv, Chained
  <2> QED
    BY <2>5, <2>6 DEF GapInv
<1>5. CASE Info(h) \/ Close(h)
  <2>1. /\ board' = board \/ board' = CloseHandle(board, h)
        /\ UNCHANGED <<device, lost>>
    BY <1>5 DEF Info, Close
  <2>2. KeepsChains(board, board')
    BY <1>1, <2>1, QueuesEndOrSkip DEF Hosts
  <2> QED
    BY <2>1, <2>2, GapsStay
<1>6. CASE SetPinConfig(h)
  BY <1>3, <1>6 DEF SetPinConfig
<1>7. CASE UpdatePins(h)
  BY <1>2, <1>7 DEF UpdatePins
<1>8. CASE UpdateGet(h)
  BY <1>2, <1>3, <1>8 DEF UpdateGet, FailedTransfer
<1>9. CASE SendSet(h)
  <2>1. CASE FailedTransfer(h)
    BY <1>2, <2>1 DEF FailedTransfer
  <2>2. CASE ~FailedTransfer(h)
    <3> DEFINE p == EncodePinConfigSet(task[h].config, task[h].id)
    <3>1. board' = WriteConfig(board, p) /\ UNCHANGED <<device, lost>>
      BY <1>9, <2>2 DEF SendSet, Wrote
    <3>2. Payload(p)
      BY <1>9, Payloads DEF TypeInv, SendSet
    <3> HIDE DEF p
    <3>3. KeepsChains(board, board')
      BY <1>1, <3>1, <3>2, WorldChains
    <3> QED
      BY <3>1, <3>3, GapsStay
  <2> QED
    BY <2>1, <2>2
<1>10. CASE ReadBack(h)
  BY <1>2, <1>10 DEF ReadBack, FailedTransfer
<1>11. CASE ReadStatus(h)
  BY <1>11, ReadStatusGap
<1> QED
  BY <1>4, <1>5, <1>6, <1>7, <1>8, <1>9, <1>10, <1>11 DEF HostStep

\* Every step.
LEMMA NextGap == GapInv /\ TypeInv /\ AnswerInv /\ [Next]_vars => GapInv'
<1> SUFFICES ASSUME GapInv, TypeInv, AnswerInv, [Next]_vars
             PROVE  GapInv'
  OBVIOUS
<1>1. Bounded(board) /\ board \in Boards
  BY DEF TypeInv, Bounded
<1>2. ASSUME KeepsChains(board, board'), UNCHANGED <<device, lost>>
      PROVE  GapInv'
  BY <1>2, GapsStay
<1>3. CASE RawWrite
  <2>1. PICK p \in RawPayloads : board' = WriteConfig(board, p)
    BY <1>3 DEF RawWrite, Wrote
  <2>2. KeepsChains(board, board')
    BY <1>1, <2>1, Payloads, WorldChains
  <2> QED
    BY <1>2, <1>3, <2>2 DEF RawWrite
<1>4. CASE PlugIn
  <2>1. board'.handles = board.handles /\ ~board.powered
    BY <1>1, <1>4, PlugOK DEF PlugIn, AnswerInv
  <2>2. \A c \in Clients : board.handles[c].state # "open"
    BY <2>1 DEF AnswerInv, BoardOK
  <2>3. KeepsChains(board, board')
    BY <2>1, <2>2 DEF KeepsChains, Chained
  <2> QED
    BY <1>2, <1>4, <2>3 DEF PlugIn
<1>5. CASE World
  <2>1. /\ {} \in SUBSET GPIOS /\ GPIOS \in SUBSET GPIOS
        /\ Available \subseteq GPIOS /\ 1 \in Nat /\ SEQ_MOD \in Nat
    BY ProtocolAssumption, BoardAssumption
  <2>2. \A k \in {1, SEQ_MOD} : KeepsChains(board, SkipReports(board, k))
    BY <1>1, <2>1, QueuesEndOrSkip
  <2>3. \A value \in {{}, GPIOS} : KeepsChains(board, WriteOutputs(board, GPIOS, value))
    BY <1>1, <2>1, WorldChains
  <2>4. \A n \in Available :
          /\ KeepsChains(board, SetInput(board, n, n \notin board.inputs))
          /\ KeepsChains(board, LoseInput(board, n, n \notin board.inputs))
    BY <1>1, <2>1, WorldChains
  <2>5. /\ KeepsChains(board, [board EXCEPT !.version_ok = ~@])
        /\ KeepsChains(board, [board EXCEPT !.open_error = ~@])
    BY <1>1, ChainsStay DEF Boards
  <2>6. /\ KeepsChains(board, Unplug(board)) /\ KeepsChains(board, Reenumerate(board))
        /\ KeepsChains(board, Suspend(board)) /\ KeepsChains(board, Periodic(board))
    BY <1>1, WorldChains
  <2>7. PICK b : Happens(b) /\ KeepsChains(board, b)
    BY <1>5, <2>2, <2>3, <2>4, <2>5, <2>6, Zenon DEF World
  <2> QED
    BY <1>2, <2>7 DEF Happens
<1>6. CASE UNCHANGED vars
  BY <1>1, <1>2, <1>6, ChainsStay DEF vars
<1> QED
  BY <1>3, <1>4, <1>5, <1>6, HostGap DEF Next

(***************************************************************************)
(* The count of missed reports that the library keeps from the sequence    *)
(* numbers alone (device.rs read_status) is the number of reports that the *)
(* handle's queue dropped or never got, across wrapped sequence numbers,   *)
(* resets and other writers, up to whole rounds of sequence numbers.       *)
(***************************************************************************)
THEOREM MissedIsCounted == Spec => []MissedIsExact
<1>1. GapInv => MissedIsExact
  BY DEF GapInv, MissedIsExact
<1> QED
  BY InitGap, NextGap, InitTypes, NextTypes, InitAnswer, NextAnswer, <1>1, PTL
  DEF Spec
=============================================================================
