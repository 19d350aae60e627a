---------------------------- MODULE EngineTiming ----------------------------
(***************************************************************************)
(* Engine with a history of the electrical changes it was told of, and the *)
(* properties about the times of edge events.                              *)
(***************************************************************************)
EXTENDS Engine

VARIABLE changed_us   \* the time of the last electrical change of each pin

timingVars == <<vars, changed_us>>

TimingInit == Init /\ changed_us = [n \in GPIOS |-> 0]

TimedEdge(n, raw, t) ==
  /\ now <= LastInput
  /\ OnEdge(n, raw, t)
  /\ changed_us' = [changed_us EXCEPT ![n] =
                      IF n \in Tracked THEN t ELSE @]

TimedResync(raw) ==
  /\ now <= LastInput
  /\ Resync(raw)
  /\ changed_us' = [n \in GPIOS |->
                      IF n \in Tracked /\ (n \in raw) # debounce[n].raw
                      THEN now ELSE changed_us[n]]

TimingNext ==
  \/ \E n \in GPIOS, raw \in BOOLEAN, t \in 0 .. now : TimedEdge(n, raw, t)
  \/ \E raw \in SUBSET GPIOS : TimedResync(raw)
  \/ /\ now <= LastInput
     /\ \/ \E p \in Payloads : SetPinConfig(p)
        \/ \E cmd \in OutputCmds : Output(cmd)
        \/ UsbReset
     /\ UNCHANGED changed_us
  \/ Step /\ UNCHANGED changed_us

TimingSpec == TimingInit /\ [][TimingNext]_timingVars

\* With the fairness of the engine: the history restricts no step.
TimingFairSpec == TimingSpec /\ Fairness

\* The events a step adds to the queue (no step both removes and adds some).
NewEvents == {queue'[i] : i \in (DOMAIN queue') \ (DOMAIN queue)}

-----------------------------------------------------------------------------
(***************************************************************************)
(* Chattering never becomes an edge event: a pin of which an event is      *)
(* queued has kept its value for the whole debounce time of the            *)
(* configuration in force, since the last change the engine was told of    *)
(* (PROTOCOL.md section 8).  Edges that repeat the value, changes of the   *)
(* debounce time and new pulls in between do not shorten the wait.         *)
(***************************************************************************)
EventsAreStable ==
  [][ \A e \in NewEvents :
        now >= changed_us'[e.gpio] + config[e.gpio].param * US_PER_MS ]_timingVars
=============================================================================
