---------------------------- MODULE HostProtocol ----------------------------
(***************************************************************************)
(* What the Rust library makes of the protocol (rust/src/protocol.rs): pin *)
(* settings and configurations, the payload of a Set and what is read back *)
(* from a Get, and the library's own copy of the device's validation.      *)
(*                                                                         *)
(* A bitmask is a set of GPIO numbers, as in Protocol, and a payload is    *)
(* the record of its fields; offsets and byte order are left out.          *)
(***************************************************************************)
EXTENDS Protocol, Sequences

-----------------------------------------------------------------------------
(***************************************************************************)
(* Settings and configurations                                             *)
(***************************************************************************)
PinSetting(mode, param) == [mode |-> mode, param |-> param]

UnusedSetting        == PinSetting(MODE_UNUSED, 0)
PullUpSetting(ms)    == PinSetting(MODE_INPUT_PULLUP, ms)
PullDownSetting(ms)  == PinSetting(MODE_INPUT_PULLDOWN, ms)
OutputSetting(level) == PinSetting(MODE_OUTPUT, level)

IsMonitored(setting) == ModeIsInput(setting.mode)
IsOutput(setting)    == setting.mode = MODE_OUTPUT

UnusedConfig == [n \in GPIOS |-> UnusedSetting]

DefaultFor(available) ==
  [n \in GPIOS |-> IF n \in available THEN PullUpSetting(DEFAULT_DEBOUNCE_MS)
                                      ELSE UnusedSetting]

\* A copy with the pins of settings, a function from some GPIOs, replaced.
WithPins(config, settings) ==
  [n \in GPIOS |-> IF n \in DOMAIN settings THEN settings[n] ELSE config[n]]

MonitoredMask(config) == {n \in GPIOS : IsMonitored(config[n])}
OutputsMask(config)   == {n \in GPIOS : IsOutput(config[n])}

-----------------------------------------------------------------------------
(***************************************************************************)
(* The pin configuration report                                            *)
(***************************************************************************)
\* A payload of the full length.
Encoded(result, gpio, request_id, config) ==
  [len |-> REPORT_PAYLOAD_LEN, result |-> result, result_gpio |-> gpio,
   request_id |-> request_id, pins |-> config]

\* What the host writes; request id 0 is refused before this.
EncodePinConfigSet(config, request_id) ==
  Encoded("OK", RESULT_GPIO_NONE, request_id, config)

\* What a check finds wrong with an entry of the payload.
BadMode(e)                   == e.mode > MODE_OUTPUT
UnavailableGpio(n, e, avail) == n \notin avail /\ e.mode # MODE_UNUSED
UnusedWithParam(e)           == e.mode = MODE_UNUSED /\ e.param # 0

\* Mutated form of BadOutputLevel: any parameter counts as HIGH.
BadOutputLevelNever(e) == FALSE

BadOutputLevel(e) == e.mode = MODE_OUTPUT /\ e.param > 1

Faulty(n, e, avail) == BadMode(e) \/ UnavailableGpio(n, e, avail)
                         \/ UnusedWithParam(e) \/ BadOutputLevel(e)

\* The library's copy of the device's validation: the first GPIO with a
\* faulty entry, the first check that it fails, and the request id.
ValidatePinConfigPayload(p, avail) ==
  LET request_id == IF p.len >= 3 THEN p.request_id ELSE 0
      faulty     == {n \in GPIOS : Faulty(n, p.pins[n], avail)}
      first      == CHOOSE n \in faulty : \A m \in faulty : n <= m
      answer(result, gpio) == [result |-> result, result_gpio |-> gpio,
                               request_id |-> request_id]
  IN  CASE p.len # REPORT_PAYLOAD_LEN -> answer("BAD_LENGTH", RESULT_GPIO_NONE)
        [] p.len = REPORT_PAYLOAD_LEN /\ faulty = {} ->
             answer("OK", RESULT_GPIO_NONE)
        [] OTHER ->
             LET e == p.pins[first]
             IN  answer(IF BadMode(e) THEN "BAD_MODE"
                        ELSE IF UnavailableGpio(first, e, avail)
                             THEN "UNAVAILABLE_GPIO"
                        ELSE IF UnusedWithParam(e) THEN "UNUSED_WITH_PARAM"
                        ELSE "BAD_OUTPUT_LEVEL", first)

\* The same, for a configuration that is not sent yet.
ValidatePinConfig(config, avail) ==
  ValidatePinConfigPayload(Encoded("OK", RESULT_GPIO_NONE, 1, config), avail)

Suits(config, avail) == ValidatePinConfig(config, avail).result = "OK"

-----------------------------------------------------------------------------
(***************************************************************************)
(* The status report                                                       *)
(***************************************************************************)
\* The distance from sequence number b to a, both modulo mod.
SeqDistance(a, b, mod) == (a + mod - b) % mod
=============================================================================
