---------------------------- MODULE DelayedQueue ----------------------------
(***************************************************************************)
(* One direction of a relay with its fault channel's delay: the ring of    *)
(* ByteQueue, the segments of DelayLine and the counters of Backpressure,  *)
(* moved together by Relay::handle_readable (commit_write, stamp_ingress,  *)
(* observe_backpressure) and by Relay::flush (consume, on_consume,         *)
(* observe_backpressure).  Shown to implement one queue of bytes that each *)
(* have a time; module Relay uses ring and segments in that form.          *)
(***************************************************************************)
EXTENDS Integers, Sequences

CONSTANTS
  Capacity, Bytes,
  Low, High,       \* low_water_bytes, high_water_bytes
  MaxTime,         \* bound: the clock and the times asked for
  MaxPauses        \* bound: how often reads are paused

ASSUME DelayedQueueAssumption ==
  /\ Capacity \in Nat \ {0} /\ 0 \in Bytes /\ MaxTime \in Nat /\ MaxPauses \in Nat
  /\ Low \in Nat /\ High \in Nat /\ Low < High /\ High <= Capacity

VARIABLES
  storage, head, size, high_water_mark, taken,  \* as in ByteQueue
  segments, pending, last_eligible,             \* as in DelayLine
  tracker,                                      \* as in Backpressure
  now

queueVars == <<storage, head, size, high_water_mark, taken>>
vars == <<queueVars, segments, pending, last_eligible, tracker, now>>

Queue == INSTANCE ByteQueue
Delay == INSTANCE DelayLine
Reads == INSTANCE Backpressure

Init == Queue!Init /\ Delay!Init /\ Reads!Init

\* The loop of handle_readable goes on, up to the high-water mark.
MayRead(bytes) ==
  ~tracker.read_paused /\ size + bytes <= High /\ tracker.pause_count < MaxPauses

\* recv() returned data: it is queued, then stamped with now and its delay.
Receive(data, at) ==
  /\ MayRead(Len(data))
  /\ Queue!CommitWrite(data) /\ Delay!OnCommit(Len(data), at) /\ Reads!Observe(size')

\* send() took count bytes of the readable span that are also releasable.
Send(count) == Queue!Consume(count) /\ Delay!OnConsume(count) /\ Reads!Observe(size')

Tick == Delay!Tick /\ UNCHANGED <<queueVars, tracker>>

Next ==
  \/ \E n \in 1 .. Capacity, at \in now .. MaxTime :
        \E data \in [1 .. n -> Bytes] : Receive(data, at)
  \/ \E count \in 1 .. Capacity : Send(count)
  \/ Tick

Spec == Init /\ [][Next]_vars
-----------------------------------------------------------------------------
\* A queue that is not full can always be written and one that is not empty can
\* always be read, wherever the ring wraps (writable_span, readable_span).
SpansMakeProgress == Queue!SpansMakeProgress

\* next_eligible is the wake that matters: see DelayLine.
WakeReleases == Delay!WakeReleases

\* The paused time the metrics report is the time reads were really paused, over
\* any number of pauses and whenever it is asked for.
PausedTimeIsExact ==
  [][Reads!PausedDuration' =
       Reads!PausedDuration + (IF tracker.read_paused THEN now' - now ELSE 0)]_vars

\* The tracker's view is the queue's: reads are paused between the watermarks'
\* crossings, every pause but the present one was resumed, and the queue was full
\* once per pause if it is read up to its capacity, otherwise never.
CountersAgree ==
  /\ IF tracker.read_paused THEN size > Low ELSE size < High
  /\ tracker.pause_count = tracker.resume_count + (IF tracker.read_paused THEN 1 ELSE 0)
  /\ tracker.at_capacity = (size = Capacity)
  /\ tracker.saturation_count = IF High = Capacity THEN tracker.pause_count ELSE 0

Stamped == [i \in 1 .. size |-> [byte |-> Queue!Queued[i], time |-> Delay!Stamps[i]]]

Abstract == INSTANCE DelayedFifo WITH queue <- Stamped, latest <- last_eligible

\* Ring and segments together are a FIFO of timed bytes: wrapping, partial
\* writes, coalescing and cutting never reorder, lose or repeat a byte, nor let
\* one leave before its time or change the time it waits for.
ImplementsDelayedFifo == Abstract!Spec
=============================================================================
