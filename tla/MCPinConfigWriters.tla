------------------------- MODULE MCPinConfigWriters -------------------------
(***************************************************************************)
(* Constants for the programs that write to one board: two available pins  *)
(* and one that is not.                                                    *)
(***************************************************************************)
EXTENDS PinConfigWriters, TLC

Config(e0, e1) == 0 :> e0 @@ 1 :> e1 @@ 2 :> UnusedSetting

\* The last one fails the library's validation.
SomeConfigs == {Config(PullUpSetting(0), OutputSetting(1)),
                Config(PullDownSetting(0), OutputSetting(2))}

SomeSettings == {0 :> PullUpSetting(0), 1 :> OutputSetting(0)}

\* Accepted, too short, and refused for its level.
SomePayloads ==
  {Encoded("OK", RESULT_GPIO_NONE, 1, Config(UnusedSetting, UnusedSetting)),
   [Encoded("OK", RESULT_GPIO_NONE, 2, UnusedConfig) EXCEPT !.len = 2],
   Encoded("OK", RESULT_GPIO_NONE, 2,
           Config(OutputSetting(2), OutputSetting(0)))}

Symmetry == Permutations(Hosts)
=============================================================================
