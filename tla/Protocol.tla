------------------------------ MODULE Protocol ------------------------------
(***************************************************************************)
(* The vocabulary of hidpin protocol version 1 and the validation of a pin *)
(* configuration, as the firmware core implements them                     *)
(* (firmware/core/src/protocol.c).                                         *)
(*                                                                         *)
(* A u32 bitmask of GPIOs is a set of GPIO numbers.  A pin configuration   *)
(* is a function from GPIO numbers to [mode, param].  Byte layouts are     *)
(* left out: no property of this module is about them.                     *)
(***************************************************************************)
EXTENDS Naturals, FiniteSets

CONSTANTS
  GPIO_COUNT,           \* entries of a pin configuration (30)
  Available,            \* GPIOs brought out by the board and free to use
  DEFAULT_DEBOUNCE_MS   \* debounce time of the default configuration (20)

GPIOS == 0 .. GPIO_COUNT - 1

ASSUME ProtocolAssumption ==
  /\ GPIO_COUNT \in Nat \ {0}
  /\ Available \subseteq GPIOS
  /\ DEFAULT_DEBOUNCE_MS \in 0 .. 255

REPORT_PAYLOAD_LEN == 63
OUTPUT_PAYLOAD_LEN == 8

MODE_UNUSED         == 0
MODE_INPUT_NOPULL   == 1
MODE_INPUT_PULLUP   == 2
MODE_INPUT_PULLDOWN == 3
MODE_OUTPUT         == 4
Modes == MODE_UNUSED .. MODE_OUTPUT

ModeIsInput(mode) == mode \in MODE_INPUT_NOPULL .. MODE_INPUT_PULLDOWN

Reasons == {"LEVEL_CHANGED", "OUTPUT_APPLIED", "CONFIG_CHANGED", "PERIODIC",
            "OUTPUT_RESET", "HOST_REQUEST"}
Flags == {"OVERFLOW", "MORE_EVENTS"}
Results == {"OK", "BAD_LENGTH", "BAD_MODE", "UNAVAILABLE_GPIO",
            "UNUSED_WITH_PARAM", "BAD_OUTPUT_LEVEL"}
RESULT_GPIO_NONE == 255

-----------------------------------------------------------------------------
(***************************************************************************)
(* Pin configurations                                                      *)
(***************************************************************************)
PinConfigs == [GPIOS -> [mode : Modes, param : 0 .. 255]]

PinConfigDefault ==
  [n \in GPIOS |-> IF n \in Available
                   THEN [mode  |-> MODE_INPUT_PULLUP,
                         param |-> DEFAULT_DEBOUNCE_MS]
                   ELSE [mode |-> MODE_UNUSED, param |-> 0]]

(***************************************************************************)
(* A Set_Report(Feature) payload: its length, its request id and one entry *)
(* per GPIO, whatever the host put there.                                  *)
(***************************************************************************)
SetPayloads == [len : Nat, request_id : 0 .. 255,
                pins : [GPIOS -> [mode : 0 .. 255, param : 0 .. 255]]]

\* Mutated form of EntryResult: any GPIO may be configured.
EntryResultAnyGpio(n, e) ==
  IF e.mode > MODE_OUTPUT                              THEN "BAD_MODE"
  ELSE IF e.mode = MODE_UNUSED /\ e.param # 0          THEN "UNUSED_WITH_PARAM"
  ELSE IF e.mode = MODE_OUTPUT /\ e.param > 1          THEN "BAD_OUTPUT_LEVEL"
  ELSE "OK"

\* What is wrong with one entry; the tests are made in this order.
EntryResult(n, e) ==
  IF e.mode > MODE_OUTPUT                              THEN "BAD_MODE"
  ELSE IF n \notin Available /\ e.mode # MODE_UNUSED   THEN "UNAVAILABLE_GPIO"
  ELSE IF e.mode = MODE_UNUSED /\ e.param # 0          THEN "UNUSED_WITH_PARAM"
  ELSE IF e.mode = MODE_OUTPUT /\ e.param > 1          THEN "BAD_OUTPUT_LEVEL"
  ELSE "OK"

\* The reply to a Set: the first faulty GPIO decides, and the request id is
\* recorded whether or not the payload is accepted.
PinConfigDecodeSet(p) ==
  LET faulty == {n \in GPIOS : EntryResult(n, p.pins[n]) # "OK"}
      first  == CHOOSE n \in faulty : \A m \in faulty : n <= m
      reply(result, gpio) ==
        [result |-> result, result_gpio |-> gpio,
         request_id |-> IF p.len >= 3 THEN p.request_id ELSE 0]
  IN  IF p.len # REPORT_PAYLOAD_LEN THEN reply("BAD_LENGTH", RESULT_GPIO_NONE)
      ELSE IF faulty # {} THEN reply(EntryResult(first, p.pins[first]), first)
      ELSE reply("OK", RESULT_GPIO_NONE)

\* The configurations that pass: exactly what the validation is there for.
ValidConfigs ==
  {c \in PinConfigs :
     \A n \in GPIOS :
       /\ n \notin Available => c[n].mode = MODE_UNUSED
       /\ c[n].mode = MODE_UNUSED => c[n].param = 0
       /\ c[n].mode = MODE_OUTPUT => c[n].param \in {0, 1}}

InputMask(c)  == {n \in GPIOS : ModeIsInput(c[n].mode)}
OutputMask(c) == {n \in GPIOS : c[n].mode = MODE_OUTPUT}
InitialOutputLevels(c) == {n \in OutputMask(c) : c[n].param # 0}
=============================================================================
