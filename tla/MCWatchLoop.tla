---------------------------- MODULE MCWatchLoop ----------------------------
(***************************************************************************)
(* Constants for the watcher's loop: a switch, a pin that is mostly an     *)
(* output, a GPIO the board does not have, and the disturbances of each    *)
(* run.                                                                    *)
(***************************************************************************)
EXTENDS WatchLoop, TLC

Config(e0, e1) == 0 :> e0 @@ 1 :> e1 @@ 2 :> UnusedSetting

Switch       == Config(PullUpSetting(0), OutputSetting(0))
SwitchDown   == Config(PullDownSetting(0), OutputSetting(1))
NoSwitch     == Config(UnusedSetting, OutputSetting(0))
\* The board does not have GPIO 2.
Unsuitable   == [Switch EXCEPT ![2] = PullUpSetting(0)]

SomeTargets  == {SwitchDown, Unsuitable}
SomeOthers   == {SwitchDown, NoSwitch, Unsuitable}
NoOverrides  == [n \in {} |-> TRUE]

Calm == [input |-> 0, lose |-> 0, plug |-> 0, unplug |-> 0, bus |-> 0,
         other |-> 0, skip |-> 0, fail |-> 0, target |-> 0,
         outputs |-> 0, glitch |-> 0]

\* A watcher without a target that follows inputs and another program.
Following ==
  [target |-> None,
   budget |-> [Calm EXCEPT !.input = 2, !.lose = 1, !.other = 2, !.skip = 1,
                           !.bus = 1]]

\* One with a target, against another program, an unplugged board, and calls
\* of the application.
Targeting ==
  [target |-> {Switch},
   budget |-> [Calm EXCEPT !.input = 1, !.other = 2, !.target = 1,
                           !.unplug = 1, !.plug = 1]]

\* One whose board loses its outputs again and again.
Resetting ==
  [target |-> {Switch}, budget |-> [Calm EXCEPT !.bus = 2, !.plug = 1]]

Loops == {Following, Targeting, Resetting}

\* What ends a connection or an attempt to connect, with a target and
\* without one.
Interrupted ==
  [target |-> {Switch},
   budget |-> [Calm EXCEPT !.other = 2, !.unplug = 1, !.plug = 1, !.fail = 2,
                           !.glitch = 1]]

Disturbed ==
  [target |-> None,
   budget |-> [Calm EXCEPT !.input = 1, !.lose = 1, !.outputs = 1, !.plug = 1,
                           !.fail = 1, !.bus = 1, !.glitch = 1]]

Failures  == {Interrupted, Disturbed}
\* One of them is the target itself: writing it again sends no report.
TwoOthers == {NoSwitch, Switch}

\* A board that has not sent a report yet, and one change.
Fresh    == [target |-> None, budget |-> [Calm EXCEPT !.input = 1]]
FreshRun == {Fresh}

\* A target that is set while a transfer fails, and nothing else.
Retarget    == [target |-> {Switch}, budget |-> [Calm EXCEPT !.target = 1, !.glitch = 1]]
RetargetRun == {Retarget}
=============================================================================
