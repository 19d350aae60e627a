------------------------------ MODULE MCEngine ------------------------------
(***************************************************************************)
(* Constants for checking the engine: two or three pins, one time unit for *)
(* every millisecond of debounce time.                                     *)
(***************************************************************************)
EXTENDS Engine, TLC

Pin(mode, param) == [mode |-> mode, param |-> param]
PullUp(ms)   == Pin(MODE_INPUT_PULLUP, ms)
PullDown(ms) == Pin(MODE_INPUT_PULLDOWN, ms)
Out(level)   == Pin(MODE_OUTPUT, level)
Unused       == Pin(MODE_UNUSED, 0)

Payload(len, id, pins) == [len |-> len, request_id |-> id, pins |-> pins]
Set2(e0, e1)     == Payload(REPORT_PAYLOAD_LEN, 1, 0 :> e0 @@ 1 :> e1)
Set3(e0, e1, e2) == Payload(REPORT_PAYLOAD_LEN, 1,
                            0 :> e0 @@ 1 :> e1 @@ 2 :> e2)
Command(mask, value) ==
  [len |-> OUTPUT_PAYLOAD_LEN, mask |-> mask, value |-> value]

\* Pin 0 gets another pull, becomes an output and returns; pin 1 stays.
RepullPayloads == {Set2(PullUp(0), PullUp(0)), Set2(PullDown(0), PullUp(0)),
                   Set2(Out(1), PullUp(0))}

\* Pins 0 and 1 are available and change roles, pin 2 is not available: the
\* last payload asks for it and is rejected, the one before is too short.
RolePayloads ==
  {Set3(PullUp(0), PullUp(0), Unused), Set3(Out(1), PullUp(0), Unused),
   Set3(Out(0), Unused, Unused), Payload(2, 9, [n \in GPIOS |-> Out(0)]),
   Set3(Unused, Unused, PullUp(0))}

RoleCommands == {Command({0, 1, 2}, {0, 2}), Command({0}, {}),
                 [len |-> 7, mask |-> {0}, value |-> {0}]}

\* One pin gets other debounce times, another pull and becomes an output.
TimePayloads == {Payload(REPORT_PAYLOAD_LEN, 1, 0 :> e) :
                   e \in {PullUp(0), PullUp(1), PullUp(2), PullDown(1),
                         Out(0)}}

NoCommands == {}
=============================================================================
