---------------------------- MODULE DeviceAccess ----------------------------
(***************************************************************************)
(* One open device of the Rust library (rust/src/device.rs) on a board:    *)
(* when a transfer succeeds, what a Set and its readback make of the       *)
(* board's answer, request ids, and the count of missed reports.  As in    *)
(* FakeBoard, these are operators: the modules that use them decide which  *)
(* transfers follow each other and what may come in between.               *)
(*                                                                         *)
(* An Option is a set of at most one value.                                *)
(***************************************************************************)
EXTENDS FakeBoard

CONSTANT RequestIds        \* what the generator can give (1 .. 255)

ASSUME RequestIdAssumption == RequestIds \subseteq 1 .. 255

None    == {}
Some(x) == {x}

\* What a Device keeps; what it caches of the device information and the
\* pin configuration is left out.
NewDevice == [last_request_id |-> 0, last_seq |-> None, missed |-> 0]

\* Opening a node, and a transfer on an open handle.
CanOpen(b)   == b.powered /\ ~b.open_error
Usable(b, c) == b.handles[c].state = "open"

\* The request ids that next_request_id may choose.
FreshIds(last_request_id) == RequestIds \ {last_request_id}

\* The pin configuration report: the result of the last Set of anyone.
PinConfigReport(b) ==
  [result |-> b.result, request_id |-> b.request_id, config |-> b.config]

\* Mutated form of SetOutcome: the request id is not looked at.
SetOutcomeAnyId(read, request_id, config) ==
  IF read.result # "OK" THEN "rejected"
  ELSE IF read.config # config THEN "mismatch" ELSE "ok"

\* What set_pin_config makes of the report it reads back.
SetOutcome(read, request_id, config) ==
  IF read.request_id # request_id THEN "conflict"
  ELSE IF read.result # "OK" THEN "rejected"
  ELSE IF read.config # config THEN "mismatch"
  ELSE "ok"

\* Mutated form of MissedBefore: the distance counts the report itself.
MissedBeforeOne(last_seq, report) ==
  IF last_seq = None THEN 0
  ELSE SeqDistance(report.seq, CHOOSE s \in last_seq : TRUE, SEQ_MOD)

\* Reports that were sent and not read just before this one.
MissedBefore(last_seq, report) ==
  IF last_seq = None THEN 0
  ELSE (SeqDistance(report.seq, CHOOSE s \in last_seq : TRUE, SEQ_MOD)
          + SEQ_MOD - 1) % SEQ_MOD

\* A device after reading a report.
AfterRead(d, report) ==
  IF "HOST_REQUEST" \in report.reason THEN d
  ELSE [d EXCEPT !.missed = @ + MissedBefore(d.last_seq, report),
                 !.last_seq = Some(report.seq)]

\* Whether LOW means ON: an override, or the pull-up.
ActiveLow(overrides, config, n) ==
  IF n \in DOMAIN overrides THEN overrides[n]
  ELSE config[n].mode = MODE_INPUT_PULLUP

\* The ON/OFF of every monitored pin of a report.
OnOff(overrides, config, report) ==
  [n \in report.monitored |->
     (n \in report.levels) # ActiveLow(overrides, config, n)]
=============================================================================
