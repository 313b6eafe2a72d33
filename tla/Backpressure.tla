---------------------------- MODULE Backpressure ----------------------------
(***************************************************************************)
(* netfault::BackpressureTracker (backpressure.hpp): when reads of a       *)
(* direction pause and resume, and the counters the metrics report.        *)
(* DelayedQueue calls it after every commit and consume, as Relay does.    *)
(***************************************************************************)
EXTENDS Integers

CONSTANTS Capacity, Low, High

VARIABLES tracker, now

Init ==
  tracker = [read_paused |-> FALSE, at_capacity |-> FALSE, pause_started_at |-> 0,
             total_paused |-> 0, pause_count |-> 0, resume_count |-> 0,
             saturation_count |-> 0]

Pauses(occupancy)  == ~tracker.read_paused /\ occupancy >= High
Resumes(occupancy) == tracker.read_paused /\ occupancy <= Low

\* Mutant: once full, the queue counts as full for ever.
AtCapacityKept(occupancy) == tracker.at_capacity \/ occupancy = Capacity

AtCapacity(occupancy) == occupancy = Capacity

\* Mutant: a pause goes on counting from where the first one began.
PauseStartFirst(occupancy) ==
  IF Pauses(occupancy) /\ tracker.pause_count = 0 THEN now ELSE tracker.pause_started_at

PauseStart(occupancy) == IF Pauses(occupancy) THEN now ELSE tracker.pause_started_at

Observe(occupancy) ==
  tracker' = [tracker EXCEPT
    !.at_capacity = AtCapacity(occupancy),
    !.saturation_count = IF occupancy = Capacity /\ ~tracker.at_capacity THEN @ + 1 ELSE @,
    !.read_paused = Pauses(occupancy) \/ (@ /\ ~Resumes(occupancy)),
    !.pause_started_at = PauseStart(occupancy),
    !.pause_count = IF Pauses(occupancy) THEN @ + 1 ELSE @,
    !.total_paused = IF Resumes(occupancy) THEN @ + now - tracker.pause_started_at ELSE @,
    !.resume_count = IF Resumes(occupancy) THEN @ + 1 ELSE @]

PausedDuration ==
  tracker.total_paused + IF tracker.read_paused THEN now - tracker.pause_started_at ELSE 0
=============================================================================
