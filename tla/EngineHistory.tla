--------------------------- MODULE EngineHistory ---------------------------
(***************************************************************************)
(* Engine with three history variables, and the safety properties of the   *)
(* device.  The history variables only record; they restrict no step.      *)
(***************************************************************************)
EXTENDS Engine

VARIABLES
  rebased,    \* pins whose level was read afresh, after a new pull, while the
              \* queue still held events of theirs
  host_view,  \* monitored, outputs and levels of the latest report sent, or
              \* NoReport
  lost        \* an edge event was dropped that no report has announced

histVars == <<rebased, host_view, lost>>
allVars  == <<vars, histVars>>

NoReport == [monitored |-> {}, outputs |-> {}, levels |-> {}]

Snapshot == [monitored |-> monitored, outputs |-> outputs,
             levels |-> ConfirmedLevels \cup (output_levels \cap outputs)]

EventsOf(n) == {i \in DOMAIN queue : queue[i].gpio = n}

HistInit == Init /\ rebased = {} /\ host_view = NoReport /\ lost = FALSE

(***************************************************************************)
(* Every change of a confirmed level but the first read of a pin makes an  *)
(* edge event; the event was dropped when the step did not add it to the   *)
(* queue.                                                                  *)
(***************************************************************************)
JustConfirmed ==
  {n \in GPIOS \ settling : debounce'[n].confirmed # debounce[n].confirmed}
JustQueued == {queue'[i].gpio : i \in (DOMAIN queue') \ (DOMAIN queue)}

RecordLoss == lost' = (lost \/ ~(JustConfirmed \subseteq JustQueued))

(***************************************************************************)
(* The first settle after boot ends without a report: what a host was sent *)
(* in that first millisecond is not held against the device.               *)
(***************************************************************************)
HistTask(raw) ==
  /\ Task(raw)
  /\ rebased' = IF SettleDue
                THEN rebased \cup {n \in settling : EventsOf(n) # {}}
                ELSE rebased
  /\ host_view' = IF SettleDue /\ ~config_changed THEN NoReport
                  ELSE host_view
  /\ RecordLoss

HistSend ==
  /\ SendStatusReport
  /\ rebased' = IF Drained THEN {} ELSE rebased
  /\ host_view' = [monitored |-> monitored, outputs |-> outputs,
                   levels |-> StatusReport.levels]
  /\ lost' = (lost /\ "OVERFLOW" \notin StatusReport.flags)

HistNext ==
  \/ (Input \/ Tick) /\ RecordLoss /\ UNCHANGED <<rebased, host_view>>
  \/ \E raw \in SUBSET settling : HistTask(raw)
  \/ HistSend

HistSpec == HistInit /\ [][HistNext]_allVars

-----------------------------------------------------------------------------
\* Event i is the last one of its pin in the queue, or the first one.
LastOf(n, i)  == i \in EventsOf(n) /\ \A j \in EventsOf(n) : j <= i
FirstOf(n, i) == i \in EventsOf(n) /\ \A j \in EventsOf(n) : i <= j

(***************************************************************************)
(* The queue explains the levels: starting from the levels the host was    *)
(* last told, a pin's queued events lead to its confirmed level.  This is  *)
(* what lets a report that leaves events in the queue show the levels up   *)
(* to its own last event only.  It fails, by design, once an event was     *)
(* dropped, until the report that empties the queue; and for a pin that    *)
(* got a new pull while it had events queued.                              *)
(***************************************************************************)
QueueExplainsLevels ==
  ~overflowed =>
    \A n \in monitored \ rebased :
      /\ \A i \in EventsOf(n) :
           LastOf(n, i) => (queue[i].level <=> debounce[n].confirmed)
      /\ EventsOf(n) = {} =>
           (n \in reported_levels <=> debounce[n].confirmed)

(***************************************************************************)
(* The host is told of real changes only: the events of a pin alternate,   *)
(* starting away from the level the host was last told.                    *)
(***************************************************************************)
EventsAlternate ==
  ~overflowed =>
    \A n \in monitored \ rebased :
      /\ \A i \in EventsOf(n) :
           FirstOf(n, i) => (queue[i].level <=> n \notin reported_levels)
      /\ \A i, j \in EventsOf(n) :
           (i < j /\ \A k \in EventsOf(n) : k <= i \/ j <= k)
             => queue[i].level # queue[j].level

(***************************************************************************)
(* A quiet device has told the host everything: with nothing to report and *)
(* no change settling, the last report sent shows exactly the monitored    *)
(* pins, the outputs and the levels that Get_Report(Input) would return.   *)
(* Every handler that changes one of them must leave a reason or an event  *)
(* behind, and no report may clear the reason of a later change.           *)
(***************************************************************************)
QuietMeansTold ==
  (~ReportDue /\ ~settle_active /\ host_view # NoReport)
    => host_view = Snapshot

(***************************************************************************)
(* Nothing the host sees of the monitored pins moves between two reports   *)
(* but by their events: the levels of a report are those of the one before *)
(* it after the report's events, unless it announces a lost event or a     *)
(* changed configuration (or concerns a pin that got a new pull).  The     *)
(* partial reports sent while an overflow is still to be announced follow, *)
(* too.                                                                    *)
(***************************************************************************)
ReportsFollow ==
  [][ (HistSend /\ host_view # NoReport
         /\ "OVERFLOW" \notin StatusReport.flags
         /\ "CONFIG_CHANGED" \notin pending_reasons) =>
        LET told == host_view.levels \cap host_view.monitored
        IN  /\ host_view.monitored = monitored
            /\ \A n \in monitored \ rebased :
                 n \in StatusReport.levels
                   <=> n \in AfterEvents(told, NextEvents) ]_allVars

(***************************************************************************)
(* A dropped event is announced, once and in its place (PROTOCOL.md 4.5):  *)
(* until then the queue holds events, so that a report is due; the partial *)
(* reports say that events remain and nothing of the loss, and the one     *)
(* that empties the queue carries OVERFLOW.  No report carries it when     *)
(* nothing was dropped since it was last announced.                        *)
(***************************************************************************)
OverflowAnnounced ==
  [][ /\ lost' => queue' # <<>>
      /\ HistSend =>
           /\ "OVERFLOW" \in StatusReport.flags <=> lost /\ queue' = <<>>
           /\ "MORE_EVENTS" \in StatusReport.flags <=> queue' # <<>> ]_allVars
=============================================================================
