------------------------------ MODULE Debounce ------------------------------
(***************************************************************************)
(* Chattering removal for one monitored pin                                *)
(* (firmware/core/src/debounce.c), as functions from the debounce record   *)
(* of the pin to its next value.                                           *)
(***************************************************************************)
EXTENDS Naturals

CONSTANT US_PER_MS   \* microseconds in a millisecond of debounce time (1000)

ASSUME DebounceAssumption == US_PER_MS \in Nat \ {0}

Debouncers == [confirmed : BOOLEAN, raw : BOOLEAN, pending : BOOLEAN,
               last_change_us : Nat, debounce_us : Nat]

\* hp_engine_init clears the whole engine.
DebounceZero == [confirmed |-> FALSE, raw |-> FALSE, pending |-> FALSE,
                 last_change_us |-> 0, debounce_us |-> 0]

\* Starts from a known level with nothing pending.
DebounceReset(level, ms) ==
  [confirmed |-> level, raw |-> level, pending |-> FALSE,
   last_change_us |-> 0, debounce_us |-> ms * US_PER_MS]

\* A new debounce time: a wait in progress starts again at t.
DebounceSetTime(d, ms, t) ==
  [d EXCEPT !.debounce_us = ms * US_PER_MS,
            !.last_change_us = IF d.pending THEN t ELSE @]

\* An electrical change to raw is confirmed at once.
EdgeConfirms(d, raw) == raw # d.confirmed /\ d.debounce_us = 0

\* Mutated forms of DebounceEdge: a change back to the confirmed level leaves
\* the old change pending; the wait counts from the first edge of a burst.
DebounceEdgeKeepsPending(d, raw, t) ==
  [d EXCEPT !.raw = raw,
            !.last_change_us = t,
            !.confirmed = IF EdgeConfirms(d, raw) THEN raw ELSE @,
            !.pending = @ \/ (raw # d.confirmed /\ d.debounce_us # 0)]
DebounceEdgeFromFirst(d, raw, t) ==
  [d EXCEPT !.raw = raw,
            !.last_change_us = IF d.pending THEN @ ELSE t,
            !.confirmed = IF EdgeConfirms(d, raw) THEN raw ELSE @,
            !.pending = raw # d.confirmed /\ d.debounce_us # 0]

\* The record after an electrical change to raw at time t.
DebounceEdge(d, raw, t) ==
  [d EXCEPT !.raw = raw,
            !.last_change_us = t,
            !.confirmed = IF EdgeConfirms(d, raw) THEN raw ELSE @,
            !.pending = raw # d.confirmed /\ d.debounce_us # 0]

\* A pending change has been stable for the debounce time at t.
PollConfirms(d, t) ==
  /\ d.pending
  /\ t >= d.last_change_us
  /\ t - d.last_change_us >= d.debounce_us

\* The record after that change is confirmed.
DebouncePoll(d) == [d EXCEPT !.confirmed = d.raw, !.pending = FALSE]
=============================================================================
