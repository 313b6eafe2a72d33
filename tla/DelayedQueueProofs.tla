------------------------- MODULE DelayedQueueProofs -------------------------
(***************************************************************************)
(* One direction for every capacity, every pair of watermarks and any      *)
(* delays: the counters, the wakes, and the refinement of DelayedFifo.     *)
(***************************************************************************)
EXTENDS DelayedQueue, WellFoundedInduction, SequenceTheorems, FiniteSetTheorems, TLAPS

RingTypes ==
  /\ head \in 0 .. Capacity - 1 /\ size \in 0 .. High
  /\ now \in Nat

Trackers ==
  [read_paused : BOOLEAN, at_capacity : BOOLEAN, pause_started_at : Nat,
   total_paused : Nat, pause_count : Nat, resume_count : Nat, saturation_count : Nat]

TrackerTypes == tracker \in Trackers

\* A pause under way began in the past.
PauseBegan == tracker.read_paused => tracker.pause_started_at <= now

Inv == RingTypes /\ TrackerTypes /\ PauseBegan /\ CountersAgree
-----------------------------------------------------------------------------
LEMMA Remainder ==
  ASSUME NEW a \in Nat PROVE a % Capacity \in 0 .. Capacity - 1
BY DelayedQueueAssumption

\* The spans, wherever the ring wraps: cells of the storage, none but at the limits.
LEMMA SpanLengths ==
  ASSUME RingTypes
  PROVE  /\ Queue!WritableSpan.length \in 0 .. Capacity - size
         /\ Queue!WritableSpan.length > 0 <=> size < Capacity
         /\ Queue!ReadableSpan.length \in 0 .. size
         /\ Queue!ReadableSpan.length > 0 <=> size > 0
<1>1. /\ Capacity \in Nat \ {0} /\ head \in Nat /\ head < Capacity
      /\ size \in Nat /\ size <= Capacity
  BY DelayedQueueAssumption DEF RingTypes
<1>2. PICK tail \in 0 .. Capacity - 1 : tail = (head + size) % Capacity
  BY <1>1, Remainder
<1>3. CASE size = Capacity
  BY <1>1, <1>3 DEF Queue!WritableSpan, Queue!ReadableSpan, Queue!Smaller
<1>4. CASE size # Capacity
  <2>1. Queue!WritableSpan.length = Queue!Smaller(Capacity - size, Capacity - tail)
    BY <1>2, <1>4 DEF Queue!WritableSpan
  <2>2. /\ Queue!WritableSpan.length \in 0 .. Capacity - size
        /\ Queue!WritableSpan.length > 0
    BY <1>1, <1>4, <2>1 DEF Queue!Smaller
  <2>3. /\ Queue!ReadableSpan.length \in 0 .. size
        /\ Queue!ReadableSpan.length > 0 <=> size > 0
    BY <1>1 DEF Queue!ReadableSpan, Queue!Smaller
  <2> QED BY <1>1, <1>4, <2>2, <2>3
<1> QED BY <1>3, <1>4

Updated(t, full, saturated, paused, start, pauses, total, resumes) ==
  [t EXCEPT !.at_capacity = full, !.saturation_count = saturated, !.read_paused = paused,
            !.pause_started_at = start, !.pause_count = pauses, !.total_paused = total,
            !.resume_count = resumes]

LEMMA UpdatedTyped ==
  ASSUME NEW t \in Trackers, NEW full \in BOOLEAN, NEW saturated \in Nat,
         NEW paused \in BOOLEAN, NEW start \in Nat, NEW pauses \in Nat, NEW total \in Nat,
         NEW resumes \in Nat
  PROVE  Updated(t, full, saturated, paused, start, pauses, total, resumes) \in Trackers
BY DEF Trackers, Updated

\* observe, field by field.
LEMMA Observed ==
  ASSUME TrackerTypes, now \in Nat, NEW occupancy \in Nat, Reads!Observe(occupancy),
         tracker.read_paused => tracker.pause_started_at <= now
  PROVE  /\ TrackerTypes'
         /\ tracker'.at_capacity = (occupancy = Capacity)
         /\ tracker.read_paused => (tracker'.read_paused <=> occupancy > Low)
         /\ ~tracker.read_paused => (tracker'.read_paused <=> occupancy >= High)
         /\ tracker'.saturation_count = IF occupancy = Capacity /\ ~tracker.at_capacity
              THEN tracker.saturation_count + 1 ELSE tracker.saturation_count
         /\ tracker'.pause_count = IF ~tracker.read_paused /\ occupancy >= High
              THEN tracker.pause_count + 1 ELSE tracker.pause_count
         /\ tracker'.resume_count = IF tracker.read_paused /\ occupancy <= Low
              THEN tracker.resume_count + 1 ELSE tracker.resume_count
         /\ tracker'.pause_started_at = IF ~tracker.read_paused /\ occupancy >= High
              THEN now ELSE tracker.pause_started_at
         /\ tracker'.total_paused = IF tracker.read_paused /\ occupancy <= Low
              THEN tracker.total_paused + now - tracker.pause_started_at
              ELSE tracker.total_paused
<1> USE DelayedQueueAssumption DEF Reads!Observe, Reads!Pauses, Reads!Resumes,
        Reads!AtCapacity, Reads!PauseStart
<1>1. /\ tracker.read_paused \in BOOLEAN /\ tracker.at_capacity \in BOOLEAN
      /\ tracker.pause_started_at \in Nat /\ tracker.total_paused \in Nat
      /\ tracker.pause_count \in Nat /\ tracker.resume_count \in Nat
      /\ tracker.saturation_count \in Nat
  BY DEF TrackerTypes, Trackers
<1>2. tracker'.at_capacity = (occupancy = Capacity)
  BY DEF TrackerTypes, Trackers
<1>3. /\ tracker.read_paused => (tracker'.read_paused <=> occupancy > Low)
      /\ ~tracker.read_paused => (tracker'.read_paused <=> occupancy >= High)
  <2>1. tracker'.read_paused = (Reads!Pauses(occupancy)
                                  \/ (tracker.read_paused /\ ~Reads!Resumes(occupancy)))
    BY DEF TrackerTypes, Trackers
  <2>2. occupancy > Low <=> ~(occupancy <= Low)
    OBVIOUS
  <2> QED BY <1>1, <2>1, <2>2, Zenon
<1>4. tracker'.saturation_count = IF occupancy = Capacity /\ ~tracker.at_capacity
        THEN tracker.saturation_count + 1 ELSE tracker.saturation_count
  BY DEF TrackerTypes, Trackers
<1>5. /\ tracker'.pause_count = IF ~tracker.read_paused /\ occupancy >= High
           THEN tracker.pause_count + 1 ELSE tracker.pause_count
      /\ tracker'.resume_count = IF tracker.read_paused /\ occupancy <= Low
           THEN tracker.resume_count + 1 ELSE tracker.resume_count
  BY DEF TrackerTypes, Trackers
<1>6. /\ tracker'.pause_started_at = IF ~tracker.read_paused /\ occupancy >= High
           THEN now ELSE tracker.pause_started_at
      /\ tracker'.total_paused = IF tracker.read_paused /\ occupancy <= Low
           THEN tracker.total_paused + now - tracker.pause_started_at
           ELSE tracker.total_paused
  BY DEF TrackerTypes, Trackers
<1>7. tracker'.total_paused \in Nat
  BY <1>1, <1>6
<1>8. TrackerTypes'
  <2>1. PICK full \in BOOLEAN : full = (occupancy = Capacity)
    OBVIOUS
  <2>2. PICK paused \in BOOLEAN :
          paused = (Reads!Pauses(occupancy) \/ (tracker.read_paused /\ ~Reads!Resumes(occupancy)))
    OBVIOUS
  <2>3. PICK saturated \in Nat :
          saturated = IF occupancy = Capacity /\ ~tracker.at_capacity
                      THEN tracker.saturation_count + 1 ELSE tracker.saturation_count
    BY <1>1
  <2>4. PICK start \in Nat : start = Reads!PauseStart(occupancy)
    BY <1>1
  <2>5. PICK pauses \in Nat :
          pauses = IF Reads!Pauses(occupancy) THEN tracker.pause_count + 1 ELSE tracker.pause_count
    BY <1>1
  <2>6. PICK total \in Nat :
          total = IF Reads!Resumes(occupancy)
                  THEN tracker.total_paused + now - tracker.pause_started_at
                  ELSE tracker.total_paused
    BY <1>1
  <2>7. PICK resumes \in Nat :
          resumes = IF Reads!Resumes(occupancy)
                    THEN tracker.resume_count + 1 ELSE tracker.resume_count
    BY <1>1
  <2>8. tracker' = Updated(tracker, full, saturated, paused, start, pauses, total, resumes)
    BY <2>1, <2>2, <2>3, <2>4, <2>5, <2>6, <2>7, Zenon DEF Updated
  <2>9. tracker \in Trackers
    BY DEF TrackerTypes
  <2>10. Updated(tracker, full, saturated, paused, start, pauses, total, resumes) \in Trackers
    BY ONLY <2>9, UpdatedTyped
  <2>11. tracker' \in Trackers
    BY <2>8, <2>10, Zenon
  <2> QED BY <2>11, Zenon DEF TrackerTypes
<1> QED BY <1>2, <1>3, <1>4, <1>5, <1>6, <1>8
-----------------------------------------------------------------------------
LEMMA InitInv == Init => Inv
<1> SUFFICES ASSUME Init PROVE Inv
  OBVIOUS
<1> USE DelayedQueueAssumption DEF Init, Queue!Init, Delay!Init, Reads!Init
<1>1. RingTypes
  BY DEF RingTypes
<1>2. TrackerTypes
  BY DEF TrackerTypes, Trackers
<1>3. /\ ~tracker.read_paused /\ tracker.at_capacity = FALSE /\ tracker.pause_count = 0
      /\ tracker.resume_count = 0 /\ tracker.saturation_count = 0 /\ size = 0
  OBVIOUS
<1>4. (size = Capacity) = FALSE /\ size < High
  BY <1>3
<1>5. PauseBegan
  BY <1>3 DEF PauseBegan
<1>6. CountersAgree
  <2>1. IF tracker.read_paused THEN size > Low ELSE size < High
    BY <1>3, <1>4, Zenon
  <2>2. tracker.pause_count = tracker.resume_count + (IF tracker.read_paused THEN 1 ELSE 0)
    BY <1>3
  <2>3. tracker.at_capacity = (size = Capacity)
    BY <1>3, <1>4, Zenon
  <2>4. tracker.saturation_count = IF High = Capacity THEN tracker.pause_count ELSE 0
    BY <1>3
  <2> QED BY <2>1, <2>2, <2>3, <2>4, Zenon DEF CountersAgree
<1> QED BY <1>1, <1>2, <1>5, <1>6 DEF Inv

\* What one direction's counters do when the occupancy moves from size to size'.
LEMMA ObserveKeepsCounters ==
  ASSUME Inv, now' = now, size' \in 0 .. High, Reads!Observe(size'),
         tracker.read_paused => size' < size
  PROVE  TrackerTypes' /\ PauseBegan' /\ CountersAgree'
<1>0. /\ RingTypes /\ TrackerTypes /\ PauseBegan /\ CountersAgree
      /\ now \in Nat /\ size' \in Nat /\ size \in Nat
  BY DelayedQueueAssumption DEF Inv, RingTypes
<1>1. PICK occupancy \in Nat : occupancy = size'
  BY <1>0
<1>2. /\ Reads!Observe(occupancy) /\ occupancy <= High
      /\ tracker.read_paused => occupancy < size
      /\ tracker.read_paused => tracker.pause_started_at <= now
  BY <1>0, <1>1, DelayedQueueAssumption DEF PauseBegan
<1>3. /\ TrackerTypes'
      /\ tracker'.at_capacity = (occupancy = Capacity)
      /\ tracker.read_paused => (tracker'.read_paused <=> occupancy > Low)
      /\ ~tracker.read_paused => (tracker'.read_paused <=> occupancy >= High)
      /\ tracker'.saturation_count = IF occupancy = Capacity /\ ~tracker.at_capacity
           THEN tracker.saturation_count + 1 ELSE tracker.saturation_count
      /\ tracker'.pause_count = IF ~tracker.read_paused /\ occupancy >= High
           THEN tracker.pause_count + 1 ELSE tracker.pause_count
      /\ tracker'.resume_count = IF tracker.read_paused /\ occupancy <= Low
           THEN tracker.resume_count + 1 ELSE tracker.resume_count
      /\ tracker'.pause_started_at = IF ~tracker.read_paused /\ occupancy >= High
           THEN now ELSE tracker.pause_started_at
  BY <1>0, <1>2, Observed
<1>4. /\ tracker.read_paused \in BOOLEAN /\ tracker.at_capacity \in BOOLEAN
      /\ tracker.pause_count \in Nat /\ tracker.resume_count \in Nat
      /\ tracker.saturation_count \in Nat /\ tracker.pause_started_at \in Nat
  BY <1>0 DEF TrackerTypes, Trackers
<1>5. /\ IF tracker.read_paused THEN size > Low ELSE size < High
      /\ tracker.pause_count = tracker.resume_count + (IF tracker.read_paused THEN 1 ELSE 0)
      /\ tracker.at_capacity = (size = Capacity)
      /\ tracker.saturation_count = IF High = Capacity THEN tracker.pause_count ELSE 0
  BY <1>0 DEF CountersAgree
<1>6. PauseBegan'
  BY <1>0, <1>2, <1>3, <1>4 DEF PauseBegan
<1>7. CASE tracker.read_paused
  <2>1. /\ size > Low /\ tracker.pause_count = tracker.resume_count + 1 /\ occupancy < size
        /\ size <= High /\ occupancy # Capacity
    BY <1>0, <1>2, <1>5, <1>7, DelayedQueueAssumption DEF RingTypes
  <2>2. /\ tracker'.read_paused <=> (occupancy > Low)
        /\ tracker'.pause_count = tracker.pause_count
        /\ tracker'.saturation_count = tracker.saturation_count
    BY <1>3, <1>7, <2>1
  <2>3. CASE occupancy <= Low
    <3>1. tracker'.resume_count = tracker.resume_count + 1 /\ ~tracker'.read_paused
      BY <1>3, <1>7, <2>2, <2>3, DelayedQueueAssumption
    <3> QED BY <1>1, <1>3, <1>4, <1>5, <2>1, <2>2, <2>3, <3>1, <1>6, DelayedQueueAssumption
            DEF CountersAgree
  <2>4. CASE occupancy > Low
    <3>1. tracker'.resume_count = tracker.resume_count /\ tracker'.read_paused
      BY <1>3, <1>7, <2>2, <2>4, DelayedQueueAssumption
    <3> QED BY <1>1, <1>3, <1>4, <1>5, <2>1, <2>2, <2>4, <3>1, <1>6 DEF CountersAgree
  <2> QED BY <2>3, <2>4, DelayedQueueAssumption
<1>8. CASE ~tracker.read_paused
  <2>1. /\ size < High /\ tracker.pause_count = tracker.resume_count /\ ~tracker.at_capacity
    BY <1>0, <1>4, <1>5, <1>8, DelayedQueueAssumption
  <2>2. /\ tracker'.read_paused <=> (occupancy >= High)
        /\ tracker'.resume_count = tracker.resume_count
    BY <1>3, <1>8
  <2>3. CASE occupancy >= High
    <3>1. /\ tracker'.pause_count = tracker.pause_count + 1 /\ tracker'.read_paused
          /\ occupancy = High
      BY <1>2, <1>3, <1>8, <2>2, <2>3, DelayedQueueAssumption
    <3>2. tracker'.saturation_count = IF High = Capacity THEN tracker'.pause_count ELSE 0
      BY <1>3, <1>5, <2>1, <3>1
    <3> QED BY <1>1, <1>3, <1>4, <2>1, <2>2, <3>1, <3>2, <1>6, DelayedQueueAssumption
            DEF CountersAgree
  <2>4. CASE occupancy < High
    <3>1. /\ tracker'.pause_count = tracker.pause_count /\ ~tracker'.read_paused
          /\ occupancy # Capacity
      BY <1>3, <1>8, <2>2, <2>4, DelayedQueueAssumption
    <3>2. tracker'.saturation_count = IF High = Capacity THEN tracker'.pause_count ELSE 0
      BY <1>3, <1>5, <3>1
    <3> QED BY <1>1, <1>3, <1>4, <2>1, <2>2, <2>4, <3>1, <3>2, <1>6 DEF CountersAgree
  <2> QED BY <2>3, <2>4, DelayedQueueAssumption
<1> QED BY <1>7, <1>8

LEMMA ReceiveInv ==
  ASSUME Inv, NEW n \in 1 .. Capacity, NEW at, NEW data \in [1 .. n -> Bytes],
         Receive(data, at)
  PROVE  Inv'
<1>1. /\ RingTypes /\ Len(data) \in Nat /\ ~tracker.read_paused
      /\ size \in Nat /\ size + Len(data) <= High
  BY DelayedQueueAssumption DEF Inv, RingTypes, Receive, MayRead
<1>2. now' = now /\ head' = head /\ size' = size + Len(data) /\ Reads!Observe(size')
  BY DEF Receive, Delay!OnCommit, Queue!CommitWrite
<1>3. RingTypes'
  BY <1>1, <1>2, DelayedQueueAssumption DEF RingTypes
<1>4. TrackerTypes' /\ PauseBegan' /\ CountersAgree'
  BY <1>1, <1>2, <1>3, ObserveKeepsCounters DEF RingTypes
<1> QED BY <1>3, <1>4 DEF Inv

LEMMA SendInv == ASSUME Inv, NEW count \in 1 .. Capacity, Send(count) PROVE Inv'
<1>1. /\ RingTypes /\ Capacity \in Nat \ {0} /\ High \in Nat /\ count \in Nat \ {0}
      /\ size \in Nat /\ head \in Nat
  BY DelayedQueueAssumption DEF Inv, RingTypes
<1>2. /\ now' = now /\ size' = size - count /\ Reads!Observe(size')
      /\ head' = IF size' = 0 THEN 0 ELSE (head + count) % Capacity
      /\ count <= Queue!ReadableSpan.length
  BY DEF Send, Delay!OnConsume, Queue!Consume
<1>3. count <= size
  BY <1>1, <1>2, SpanLengths
<1>4. head' \in 0 .. Capacity - 1
  BY <1>1, <1>2, Remainder
<1>5. size' \in 0 .. High /\ size' < size
  BY <1>1, <1>2, <1>3 DEF RingTypes
<1>6. RingTypes'
  BY <1>1, <1>2, <1>4, <1>5 DEF RingTypes
<1>7. TrackerTypes' /\ PauseBegan' /\ CountersAgree'
  BY <1>2, <1>5, ObserveKeepsCounters
<1> QED BY <1>6, <1>7 DEF Inv

LEMMA TickInv == ASSUME Inv, Tick PROVE Inv'
<1>1. UNCHANGED <<head, size, tracker>> /\ now' = now + 1
  BY DEF Tick, Delay!Tick, queueVars
<1>2. RingTypes' /\ TrackerTypes' /\ CountersAgree'
  BY <1>1 DEF Inv, RingTypes, TrackerTypes, CountersAgree
<1>3. PauseBegan'
  <2>1. now \in Nat /\ tracker.pause_started_at \in Nat
    BY DEF Inv, RingTypes, TrackerTypes, Trackers
  <2> QED BY <1>1, <2>1 DEF Inv, PauseBegan
<1> QED BY <1>2, <1>3 DEF Inv

LEMMA NextInv == Inv /\ [Next]_vars => Inv'
<1> SUFFICES ASSUME Inv, [Next]_vars PROVE Inv'
  OBVIOUS
<1>1. ASSUME NEW n \in 1 .. Capacity, NEW at \in now .. MaxTime,
             NEW data \in [1 .. n -> Bytes], Receive(data, at)
      PROVE  Inv'
  BY <1>1, ReceiveInv
<1>2. ASSUME NEW count \in 1 .. Capacity, Send(count) PROVE Inv'
  BY <1>2, SendInv
<1>3. CASE Tick
  BY <1>3, TickInv
<1>4. CASE UNCHANGED vars
  BY <1>4 DEF vars, queueVars, Inv, RingTypes, TrackerTypes, PauseBegan, CountersAgree
<1> QED BY <1>1, <1>2, <1>3, <1>4, Zenon DEF Next

LEMMA InvHolds == Spec => []Inv
BY InitInv, NextInv, PTL DEF Spec
-----------------------------------------------------------------------------
\* BackpressureTracker::observe after every commit and consume: the paused flag is the
\* watermarks' hysteresis, pauses and resumes alternate, and the queue counts as saturated
\* once per pause or never, for every capacity and pair of watermarks.
THEOREM CountersStayInAgreement == Spec => []CountersAgree
<1>1. Inv => CountersAgree
  BY DEF Inv
<1> QED BY <1>1, InvHolds, PTL

\* writable_span and readable_span: only a full ring has no cell to write and only an
\* empty one none to read, wherever it wraps and whatever its capacity.
THEOREM SpansAreNeverEmpty == Spec => []SpansMakeProgress
<1>1. Inv => SpansMakeProgress
  BY SpanLengths DEF Inv, SpansMakeProgress, Queue!SpansMakeProgress
<1> QED BY <1>1, InvHolds, PTL

PausedStep ==
  Reads!PausedDuration' =
    Reads!PausedDuration + (IF tracker.read_paused THEN now' - now ELSE 0)

LEMMA ObservePausedStep ==
  ASSUME Inv, now' = now, size' \in Nat, Reads!Observe(size')
  PROVE  PausedStep
<1>1. PICK occupancy \in Nat : occupancy = size'
  OBVIOUS
<1>2. /\ TrackerTypes /\ now \in Nat /\ Reads!Observe(occupancy)
      /\ tracker.read_paused => tracker.pause_started_at <= now
  BY <1>1 DEF Inv, RingTypes, PauseBegan
<1>3. /\ tracker.read_paused => (tracker'.read_paused <=> occupancy > Low)
      /\ ~tracker.read_paused => (tracker'.read_paused <=> occupancy >= High)
      /\ tracker'.pause_started_at = IF ~tracker.read_paused /\ occupancy >= High
           THEN now ELSE tracker.pause_started_at
      /\ tracker'.total_paused = IF tracker.read_paused /\ occupancy <= Low
           THEN tracker.total_paused + now - tracker.pause_started_at
           ELSE tracker.total_paused
  BY <1>2, Observed
<1>4. /\ tracker.read_paused \in BOOLEAN /\ tracker.pause_started_at \in Nat
      /\ tracker.total_paused \in Nat
  BY <1>2 DEF TrackerTypes, Trackers
<1>5. CASE tracker.read_paused /\ occupancy <= Low
  <2>1. /\ ~tracker'.read_paused
        /\ tracker'.total_paused = tracker.total_paused + now - tracker.pause_started_at
    BY <1>3, <1>5, DelayedQueueAssumption
  <2> QED BY <1>2, <1>4, <1>5, <2>1 DEF PausedStep, Reads!PausedDuration
<1>6. CASE tracker.read_paused /\ occupancy > Low
  <2>1. /\ tracker'.read_paused /\ tracker'.pause_started_at = tracker.pause_started_at
        /\ tracker'.total_paused = tracker.total_paused
    BY <1>3, <1>6, DelayedQueueAssumption
  <2> QED BY <1>2, <1>4, <1>6, <2>1 DEF PausedStep, Reads!PausedDuration
<1>7. CASE ~tracker.read_paused /\ occupancy >= High
  <2>1. /\ tracker'.read_paused /\ tracker'.pause_started_at = now
        /\ tracker'.total_paused = tracker.total_paused
    BY <1>3, <1>7, DelayedQueueAssumption
  <2> QED BY <1>2, <1>4, <1>7, <2>1 DEF PausedStep, Reads!PausedDuration
<1>8. CASE ~tracker.read_paused /\ occupancy < High
  <2>1. ~tracker'.read_paused /\ tracker'.total_paused = tracker.total_paused
    BY <1>3, <1>8, DelayedQueueAssumption
  <2> QED BY <1>2, <1>4, <1>8, <2>1 DEF PausedStep, Reads!PausedDuration
<1> QED BY <1>5, <1>6, <1>7, <1>8, DelayedQueueAssumption

\* paused_duration: over any step it grows by the time that passed while reads were
\* paused and by nothing else, over any number of pauses.
THEOREM PausedTimeIsMeasured == Spec => PausedTimeIsExact
<1>1. Inv /\ [Next]_vars => [PausedStep]_vars
  <2> SUFFICES ASSUME Inv, Next PROVE PausedStep
    OBVIOUS
  <2>0. size \in Nat /\ now \in Nat
    BY DelayedQueueAssumption DEF Inv, RingTypes
  <2>1. ASSUME NEW n \in 1 .. Capacity, NEW at \in now .. MaxTime,
               NEW data \in [1 .. n -> Bytes], Receive(data, at)
        PROVE  PausedStep
    <3>1. Inv'
      BY <2>1, ReceiveInv
    <3>2. size' \in Nat
      BY <3>1, DelayedQueueAssumption DEF Inv, RingTypes
    <3>3. now' = now /\ Reads!Observe(size')
      BY <2>1 DEF Receive, Delay!OnCommit
    <3> QED BY <3>2, <3>3, ObservePausedStep
  <2>2. ASSUME NEW count \in 1 .. Capacity, Send(count) PROVE PausedStep
    <3>1. Inv'
      BY <2>2, SendInv
    <3>2. size' \in Nat
      BY <3>1, DelayedQueueAssumption DEF Inv, RingTypes
    <3>3. now' = now /\ Reads!Observe(size')
      BY <2>2 DEF Send, Delay!OnConsume
    <3> QED BY <3>2, <3>3, ObservePausedStep
  <2>3. CASE Tick
    <3>1. tracker' = tracker /\ now' = now + 1
      BY <2>3 DEF Tick, Delay!Tick
    <3>2. /\ tracker.read_paused \in BOOLEAN /\ tracker.pause_started_at \in Nat
          /\ tracker.total_paused \in Nat
      BY DEF Inv, TrackerTypes, Trackers
    <3> QED BY <2>0, <3>1, <3>2 DEF PausedStep, Reads!PausedDuration
  <2> QED BY <2>1, <2>2, <2>3, Zenon DEF Next
<1> QED BY <1>1, InvHolds, PTL DEF Spec, PausedTimeIsExact, PausedStep
-----------------------------------------------------------------------------
(* Segments.                                                               *)

Segments == [bytes : Nat \ {0}, eligible_at : Nat]

\* Induction: a set of naturals has a least element.
LEMMA LeastNatural ==
  ASSUME NEW S \in SUBSET Nat, S # {}
  PROVE  \E x \in S : \A y \in S : x <= y
<1>1. PICK x \in S : \A y \in S : ~ (<<y, x>> \in OpToRel(<, Nat))
  BY NatLessThanWellFounded, WFMin
<1>2. \A y \in S : ~(y < x)
  BY <1>1 DEF OpToRel
<1> QED BY <1>2

LEMMA SegmentTypes ==
  ASSUME NEW segs \in Seq(Segments)
  PROVE  /\ Len(segs) \in Nat
         /\ \A k \in 1 .. Len(segs) : /\ segs[k] \in Segments
                                      /\ segs[k].bytes \in Nat \ {0}
                                      /\ segs[k].eligible_at \in Nat
<1>1. Len(segs) \in Nat /\ \A k \in 1 .. Len(segs) : segs[k] \in Segments
  OBVIOUS
<1>2. \A x \in Segments : x.bytes \in Nat \ {0} /\ x.eligible_at \in Nat
  BY DEF Segments
<1> QED BY <1>1, <1>2

SumsUpTo(f, segs, n) ==
  f = [k \in 0 .. n |-> IF k = 0 THEN 0 ELSE f[k - 1] + segs[k].bytes]

LEMMA SumsExist ==
  ASSUME NEW segs \in Seq(Segments)
  PROVE  \E f : SumsUpTo(f, segs, Len(segs))
<1> DEFINE Missing == {n \in 0 .. Len(segs) : ~ \E f : SumsUpTo(f, segs, n)}
<1>1. Len(segs) \in Nat
  OBVIOUS
<1>2. SUFFICES ASSUME Missing # {} PROVE FALSE
  BY <1>1
<1>3. Missing \in SUBSET Nat
  BY <1>1
<1>4. PICK m \in Missing : \A y \in Missing : m <= y
  BY <1>2, <1>3, LeastNatural
<1>5. m # 0
  <2>1. SumsUpTo([k \in 0 .. 0 |-> 0], segs, 0)
    BY DEF SumsUpTo
  <2> QED BY <2>1
<1>6. PICK p \in 0 .. Len(segs) : p = m - 1 /\ p \notin Missing
  BY <1>1, <1>4, <1>5
<1>7. PICK f : SumsUpTo(f, segs, p)
  BY <1>6
<1> DEFINE g == [k \in 0 .. m |-> IF k = m THEN f[p] + segs[m].bytes ELSE f[k]]
<1>8. SumsUpTo(g, segs, m)
  <2>1. ASSUME NEW k \in 0 .. m
        PROVE  g[k] = IF k = 0 THEN 0 ELSE g[k - 1] + segs[k].bytes
    <3>1. CASE k = m
      <4>1. g[k] = f[p] + segs[m].bytes /\ g[k - 1] = f[p]
        BY <1>1, <1>4, <1>5, <1>6, <3>1
      <4> QED BY <1>5, <3>1, <4>1
    <3>2. CASE k # m
      <4>1. k \in 0 .. p
        BY <1>1, <1>4, <1>6, <3>2
      <4>2. f[k] = IF k = 0 THEN 0 ELSE f[k - 1] + segs[k].bytes
        BY <1>7, <4>1 DEF SumsUpTo
      <4>3. g[k] = f[k] /\ (k # 0 => g[k - 1] = f[k - 1])
        BY <1>1, <1>4, <1>6, <3>2, <4>1
      <4> QED BY <4>2, <4>3
    <3> QED BY <3>1, <3>2
  <2> QED BY <2>1 DEF SumsUpTo
<1> QED BY <1>4, <1>8

\* The recursive definition of Ends has a solution, so Ends obeys it.
LEMMA EndsRecursion ==
  ASSUME NEW segs \in Seq(Segments)
  PROVE  /\ Delay!Ends(segs)[0] = 0
         /\ \A k \in 1 .. Len(segs) :
              Delay!Ends(segs)[k] = Delay!Ends(segs)[k - 1] + segs[k].bytes
<1>1. Delay!Ends(segs) = CHOOSE f : SumsUpTo(f, segs, Len(segs))
  BY DEF Delay!Ends, SumsUpTo
<1>2. SumsUpTo(Delay!Ends(segs), segs, Len(segs))
  BY <1>1, SumsExist
<1>3. PICK f : f = Delay!Ends(segs) /\ SumsUpTo(f, segs, Len(segs))
  BY <1>2
<1>4. Len(segs) \in Nat
  OBVIOUS
<1>5. f[0] = 0 /\ \A k \in 1 .. Len(segs) : f[k] = f[k - 1] + segs[k].bytes
  BY <1>3, <1>4 DEF SumsUpTo
<1> QED BY <1>3, <1>5

LEMMA EndsNat ==
  ASSUME NEW segs \in Seq(Segments)
  PROVE  \A k \in 0 .. Len(segs) : Delay!Ends(segs)[k] \in Nat
<1> DEFINE Wrong == {n \in 0 .. Len(segs) : Delay!Ends(segs)[n] \notin Nat}
<1>1. Len(segs) \in Nat /\ \A k \in 1 .. Len(segs) : segs[k].bytes \in Nat \ {0}
  BY SegmentTypes
<1>2. SUFFICES ASSUME Wrong # {} PROVE FALSE
  OBVIOUS
<1>3. Wrong \in SUBSET Nat
  BY <1>1
<1>4. PICK m \in Wrong : \A y \in Wrong : m <= y
  BY <1>2, <1>3, LeastNatural
<1>5. m # 0
  BY EndsRecursion, <1>4
<1>6. PICK p \in 0 .. Len(segs) : p = m - 1 /\ p \notin Wrong
  BY <1>1, <1>4, <1>5
<1>7. Delay!Ends(segs)[m] = Delay!Ends(segs)[p] + segs[m].bytes
  BY <1>1, <1>4, <1>5, <1>6, EndsRecursion
<1> QED BY <1>1, <1>4, <1>5, <1>6, <1>7

LEMMA EndsGrow ==
  ASSUME NEW segs \in Seq(Segments), NEW j \in 0 .. Len(segs), NEW k \in 0 .. Len(segs), j < k
  PROVE  Delay!Ends(segs)[j] < Delay!Ends(segs)[k]
<1> DEFINE Wrong == {n \in 0 .. Len(segs) : n > j /\ ~(Delay!Ends(segs)[j] < Delay!Ends(segs)[n])}
<1>1. /\ Len(segs) \in Nat /\ \A i \in 1 .. Len(segs) : segs[i].bytes \in Nat \ {0}
      /\ \A i \in 0 .. Len(segs) : Delay!Ends(segs)[i] \in Nat
  BY EndsNat, SegmentTypes
<1>2. SUFFICES ASSUME Wrong # {} PROVE FALSE
  OBVIOUS
<1>3. Wrong \in SUBSET Nat
  BY <1>1
<1>4. PICK m \in Wrong : \A y \in Wrong : m <= y
  BY <1>2, <1>3, LeastNatural
<1>5. PICK p \in 0 .. Len(segs) : p = m - 1 /\ p \notin Wrong /\ p >= j
  BY <1>1, <1>4
<1>6. Delay!Ends(segs)[m] = Delay!Ends(segs)[p] + segs[m].bytes /\ m \in 1 .. Len(segs)
  BY <1>1, <1>4, <1>5, EndsRecursion
<1>7. p = j \/ Delay!Ends(segs)[j] < Delay!Ends(segs)[p]
  BY <1>1, <1>5
<1>8. segs[m].bytes \in Nat \ {0} /\ Delay!Ends(segs)[p] \in Nat /\ Delay!Ends(segs)[j] \in Nat
  BY <1>1, <1>5, <1>6
<1>9. Delay!Ends(segs)[j] < Delay!Ends(segs)[m]
  BY <1>6, <1>7, <1>8
<1> QED BY <1>4, <1>9

\* Every byte lies in a segment, and in one only.
LEMMA Located ==
  ASSUME NEW segs \in Seq(Segments), NEW i \in 1 .. Delay!Ends(segs)[Len(segs)]
  PROVE  \E k \in 1 .. Len(segs) : Delay!Ends(segs)[k - 1] < i /\ i <= Delay!Ends(segs)[k]
<1> DEFINE Reach == {n \in 0 .. Len(segs) : i <= Delay!Ends(segs)[n]}
<1>1. /\ Len(segs) \in Nat /\ \A k \in 0 .. Len(segs) : Delay!Ends(segs)[k] \in Nat
      /\ Delay!Ends(segs)[0] = 0
  BY EndsNat, EndsRecursion
<1>2. Len(segs) \in Reach /\ Reach \in SUBSET Nat
  BY <1>1
<1>3. PICK k \in Reach : \A y \in Reach : k <= y
  BY <1>2, LeastNatural
<1>4. k # 0
  BY <1>1, <1>3
<1>5. k \in 1 .. Len(segs) /\ k - 1 \in 0 .. Len(segs) /\ k - 1 \notin Reach
  BY <1>1, <1>3, <1>4
<1> QED BY <1>1, <1>3, <1>5

LEMMA LocatedOnce ==
  ASSUME NEW segs \in Seq(Segments), NEW i \in Nat,
         NEW j \in 1 .. Len(segs), NEW k \in 1 .. Len(segs),
         Delay!Ends(segs)[j - 1] < i, i <= Delay!Ends(segs)[j],
         Delay!Ends(segs)[k - 1] < i, i <= Delay!Ends(segs)[k]
  PROVE  j = k
<1>1. Len(segs) \in Nat /\ \A n \in 0 .. Len(segs) : Delay!Ends(segs)[n] \in Nat
  BY EndsNat
<1>2. ASSUME NEW a \in 1 .. Len(segs), NEW b \in 1 .. Len(segs), a < b,
             i <= Delay!Ends(segs)[a], Delay!Ends(segs)[b - 1] < i
      PROVE  FALSE
  <2>1. PICK c \in 0 .. Len(segs) : c = b - 1 /\ a <= c
    BY <1>1, <1>2
  <2>2. a = c \/ Delay!Ends(segs)[a] < Delay!Ends(segs)[c]
    BY <1>1, <2>1, EndsGrow
  <2> QED BY <1>1, <1>2, <2>1, <2>2
<1> QED BY <1>1, <1>2

\* The times of the bytes as a function of the segments: Delay!Stamps.
Times(segs) ==
  [i \in 1 .. Delay!Ends(segs)[Len(segs)] |->
     segs[CHOOSE k \in 1 .. Len(segs) :
            Delay!Ends(segs)[k - 1] < i /\ i <= Delay!Ends(segs)[k]].eligible_at]

LEMMA TimeAt ==
  ASSUME NEW segs \in Seq(Segments), NEW k \in 1 .. Len(segs), NEW i \in Nat,
         Delay!Ends(segs)[k - 1] < i, i <= Delay!Ends(segs)[k]
  PROVE  i \in 1 .. Delay!Ends(segs)[Len(segs)] /\ Times(segs)[i] = segs[k].eligible_at
<1> DEFINE n == CHOOSE n \in 1 .. Len(segs) :
                  Delay!Ends(segs)[n - 1] < i /\ i <= Delay!Ends(segs)[n]
<1>1. /\ n \in 1 .. Len(segs)
      /\ Delay!Ends(segs)[n - 1] < i /\ i <= Delay!Ends(segs)[n]
  OBVIOUS
<1>2. n = k
  <2> HIDE DEF n
  <2> QED BY <1>1, LocatedOnce
<1>3. Len(segs) \in Nat /\ \A j \in 0 .. Len(segs) : Delay!Ends(segs)[j] \in Nat
  BY EndsNat
<1>4. i >= 1
  <2>1. k - 1 \in 0 .. Len(segs)
    BY <1>3
  <2>2. Delay!Ends(segs)[k - 1] \in Nat
    BY <1>3, <2>1
  <2> QED BY <2>2
<1>5. i <= Delay!Ends(segs)[Len(segs)]
  <2>1. k = Len(segs) \/ Delay!Ends(segs)[k] < Delay!Ends(segs)[Len(segs)]
    <3>1. k \in 0 .. Len(segs) /\ Len(segs) \in 0 .. Len(segs) /\ (k = Len(segs) \/ k < Len(segs))
      BY <1>3
    <3> QED BY <3>1, EndsGrow
  <2>2. Delay!Ends(segs)[k] \in Nat /\ Delay!Ends(segs)[Len(segs)] \in Nat
    BY <1>3
  <2> QED BY <2>1, <2>2
<1>6. i \in 1 .. Delay!Ends(segs)[Len(segs)]
  BY <1>3, <1>4, <1>5
<1>7. Times(segs)[i] = segs[n].eligible_at
  BY <1>6 DEF Times
<1> QED BY <1>2, <1>6, <1>7

LEMMA TimesTyped ==
  ASSUME NEW segs \in Seq(Segments)
  PROVE  /\ Delay!Ends(segs)[Len(segs)] \in Nat
         /\ Times(segs) \in Seq(Nat)
         /\ Len(Times(segs)) = Delay!Ends(segs)[Len(segs)]
<1>1. PICK total \in Nat : total = Delay!Ends(segs)[Len(segs)]
  BY EndsNat
<1>2. ASSUME NEW i \in 1 .. total PROVE Times(segs)[i] \in Nat
  <2>1. PICK k \in 1 .. Len(segs) : Delay!Ends(segs)[k - 1] < i /\ i <= Delay!Ends(segs)[k]
    BY <1>1, Located
  <2>2. Times(segs)[i] = segs[k].eligible_at
    BY <2>1, TimeAt
  <2> QED BY <2>2, SegmentTypes
<1>3. DOMAIN Times(segs) = 1 .. total
  BY <1>1 DEF Times
<1>4. Times(segs) = [i \in 1 .. total |-> Times(segs)[i]]
  BY <1>1 DEF Times
<1>5. Times(segs) \in [1 .. total -> Nat]
  BY <1>2, <1>4
<1>6. Times(segs) \in Seq(Nat) /\ Len(Times(segs)) = total
  BY <1>5
<1> QED BY <1>1, <1>6

\* Segments of the same lengths end at the same places.
LEMMA EndsPrefix ==
  ASSUME NEW segs \in Seq(Segments), NEW others \in Seq(Segments), NEW n \in Nat,
         n <= Len(segs), n <= Len(others),
         \A k \in 1 .. n : segs[k].bytes = others[k].bytes
  PROVE  \A k \in 0 .. n : Delay!Ends(others)[k] = Delay!Ends(segs)[k]
<1> DEFINE Wrong == {k \in 0 .. n : Delay!Ends(others)[k] # Delay!Ends(segs)[k]}
<1>1. SUFFICES ASSUME Wrong # {} PROVE FALSE
  OBVIOUS
<1>2. Wrong \in SUBSET Nat
  OBVIOUS
<1>3. PICK m \in Wrong : \A y \in Wrong : m <= y
  BY <1>1, <1>2, LeastNatural
<1>4. m # 0
  BY EndsRecursion
<1>5. PICK p \in 0 .. n : p = m - 1 /\ p \notin Wrong
  BY <1>3, <1>4
<1>6. m \in 1 .. Len(segs) /\ m \in 1 .. Len(others) /\ m \in 1 .. n
  BY <1>3, <1>4, SegmentTypes
<1>7. /\ Delay!Ends(segs)[m] = Delay!Ends(segs)[p] + segs[m].bytes
      /\ Delay!Ends(others)[m] = Delay!Ends(others)[p] + others[m].bytes
  BY <1>5, <1>6, EndsRecursion
<1> QED BY <1>3, <1>5, <1>6, <1>7

\* The segments after a commit: b more bytes, all of time t, behind the others.
Extended(segs, more, b, t) ==
  /\ more \in Seq(Segments)
  /\ Delay!Ends(more)[Len(more)] = Delay!Ends(segs)[Len(segs)] + b
  /\ \A i \in 1 .. Delay!Ends(segs)[Len(segs)] : Times(more)[i] = Times(segs)[i]
  /\ \A i \in Delay!Ends(segs)[Len(segs)] + 1 .. Delay!Ends(segs)[Len(segs)] + b :
        Times(more)[i] = t

LEMMA PushExtends ==
  ASSUME NEW segs \in Seq(Segments), NEW b \in Nat \ {0}, NEW t \in Nat
  PROVE  Extended(segs, Append(segs, [bytes |-> b, eligible_at |-> t]), b, t)
<1>1. PICK new \in Segments : new = [bytes |-> b, eligible_at |-> t]
  BY DEF Segments
<1>2. PICK more : more = Append(segs, new)
  OBVIOUS
<1>3. PICK n \in Nat : n = Len(segs)
  OBVIOUS
<1>4. /\ more \in Seq(Segments) /\ Len(more) = n + 1 /\ more[n + 1] = new
      /\ \A k \in 1 .. n : more[k] = segs[k]
  BY <1>2, <1>3
<1>5. \A k \in 0 .. n : Delay!Ends(more)[k] = Delay!Ends(segs)[k]
  BY <1>3, <1>4, EndsPrefix
<1>6. PICK total \in Nat : total = Delay!Ends(segs)[n]
  BY <1>3, EndsNat
<1>7. Delay!Ends(more)[n + 1] = total + b
  <2>1. n + 1 \in 1 .. Len(more) /\ (n + 1) - 1 = n /\ n \in 0 .. n
    BY <1>4
  <2>2. Delay!Ends(more)[n + 1] = Delay!Ends(more)[n] + more[n + 1].bytes
    BY <1>4, <2>1, EndsRecursion
  <2>3. more[n + 1].bytes = b
    BY <1>1, <1>4
  <2> QED BY <1>5, <1>6, <2>1, <2>2, <2>3
<1>8. ASSUME NEW i \in 1 .. total PROVE Times(more)[i] = Times(segs)[i]
  <2>1. PICK k \in 1 .. n : Delay!Ends(segs)[k - 1] < i /\ i <= Delay!Ends(segs)[k]
    BY <1>3, <1>6, Located
  <2>2. /\ k \in 1 .. Len(more) /\ k \in 1 .. Len(segs) /\ i \in Nat
        /\ Delay!Ends(more)[k - 1] < i /\ i <= Delay!Ends(more)[k]
    BY <1>3, <1>4, <1>5, <2>1
  <2>3. Times(segs)[i] = segs[k].eligible_at
    BY <2>1, <2>2, TimeAt
  <2>4. Times(more)[i] = more[k].eligible_at
    BY <1>4, <2>2, TimeAt
  <2> QED BY <1>4, <2>1, <2>3, <2>4
<1>9. ASSUME NEW i \in total + 1 .. total + b PROVE Times(more)[i] = t
  <2>1. /\ n + 1 \in 1 .. Len(more) /\ i \in Nat
        /\ Delay!Ends(more)[(n + 1) - 1] < i /\ i <= Delay!Ends(more)[n + 1]
    BY <1>4, <1>5, <1>6, <1>7
  <2>2. Times(more)[i] = more[n + 1].eligible_at
    BY <1>4, <2>1, TimeAt
  <2> QED BY <1>1, <1>4, <2>2
<1> QED BY <1>1, <1>2, <1>3, <1>4, <1>6, <1>7, <1>8, <1>9 DEF Extended

LEMMA MergeExtends ==
  ASSUME NEW segs \in Seq(Segments), NEW b \in Nat \ {0}, NEW t \in Nat,
         segs # <<>>, segs[Len(segs)].eligible_at = t
  PROVE  Extended(segs, [segs EXCEPT ![Len(segs)].bytes = @ + b], b, t)
<1>1. PICK n \in Nat \ {0} : n = Len(segs)
  OBVIOUS
<1>2. PICK last \in Segments : last = segs[n]
  BY <1>1
<1>3. PICK longer \in Segments :
        /\ longer = [last EXCEPT !.bytes = @ + b]
        /\ longer.bytes = last.bytes + b /\ longer.eligible_at = t
  <2>1. last.bytes \in Nat \ {0} /\ last.bytes + b \in Nat \ {0} /\ last.eligible_at = t
    BY <1>1, <1>2 DEF Segments
  <2>2. PICK sum \in Nat \ {0} : sum = last.bytes + b
    BY <2>1
  <2>3. [last EXCEPT !.bytes = sum] \in Segments
    BY DEF Segments
  <2>4. /\ [last EXCEPT !.bytes = sum].bytes = sum
        /\ [last EXCEPT !.bytes = sum].eligible_at = last.eligible_at
    BY DEF Segments
  <2>5. [last EXCEPT !.bytes = sum] = [last EXCEPT !.bytes = @ + b]
    BY <2>2
  <2> QED BY <2>1, <2>2, <2>3, <2>4, <2>5
<1>4. PICK more : more = [segs EXCEPT ![n] = longer]
  OBVIOUS
<1>5. more = [segs EXCEPT ![Len(segs)].bytes = @ + b]
  BY <1>1, <1>2, <1>3, <1>4
<1>6. /\ more \in Seq(Segments) /\ Len(more) = n /\ more[n] = longer
      /\ \A k \in 1 .. n - 1 : more[k] = segs[k]
  BY <1>1, <1>4
<1>7. PICK p \in Nat : p = n - 1
  BY <1>1
<1>8. \A k \in 0 .. p : Delay!Ends(more)[k] = Delay!Ends(segs)[k]
  <2>1. p <= Len(segs) /\ p <= Len(more) /\ \A k \in 1 .. p : segs[k].bytes = more[k].bytes
    BY <1>1, <1>6, <1>7
  <2> QED BY <1>6, <2>1, EndsPrefix
<1>9. /\ \A k \in 0 .. n : Delay!Ends(segs)[k] \in Nat
      /\ \A k \in 0 .. n : Delay!Ends(more)[k] \in Nat
  BY <1>1, <1>6, EndsNat
<1>10. Delay!Ends(more)[n] = Delay!Ends(segs)[n] + b
  <2>1. Delay!Ends(more)[n] = Delay!Ends(more)[p] + longer.bytes
    BY <1>1, <1>6, <1>7, EndsRecursion
  <2>2. Delay!Ends(segs)[n] = Delay!Ends(segs)[p] + last.bytes
    BY <1>1, <1>2, <1>7, EndsRecursion
  <2>3. last.bytes \in Nat /\ Delay!Ends(segs)[p] \in Nat
        /\ Delay!Ends(more)[p] = Delay!Ends(segs)[p]
    BY <1>2, <1>7, <1>8, <1>9 DEF Segments
  <2> QED BY <1>3, <2>1, <2>2, <2>3
<1>11. PICK total \in Nat : total = Delay!Ends(segs)[n]
  BY <1>9
<1>12. ASSUME NEW i \in 1 .. total PROVE Times(more)[i] = Times(segs)[i]
  <2>1. PICK k \in 1 .. n : Delay!Ends(segs)[k - 1] < i /\ i <= Delay!Ends(segs)[k]
    BY <1>1, <1>11, Located
  <2>2. k \in 1 .. Len(more) /\ k \in 1 .. Len(segs) /\ i \in Nat
    BY <1>1, <1>6
  <2>3. Delay!Ends(more)[k - 1] < i
    <3>1. k - 1 \in 0 .. p
      BY <1>1, <1>7, <2>1
    <3> QED BY <1>8, <2>1, <3>1
  <2>4. i <= Delay!Ends(more)[k]
    <3>1. CASE k = n
      BY <1>10, <1>11, <2>1, <3>1
    <3>2. CASE k # n
      <4>1. k \in 0 .. p
        BY <1>1, <1>7, <2>1, <3>2
      <4> QED BY <1>8, <2>1, <4>1
    <3> QED BY <3>1, <3>2
  <2>5. Times(segs)[i] = segs[k].eligible_at
    BY <2>1, <2>2, TimeAt
  <2>6. Times(more)[i] = more[k].eligible_at
    BY <1>6, <2>2, <2>3, <2>4, TimeAt
  <2>7. more[k].eligible_at = segs[k].eligible_at
    <3>1. CASE k = n
      BY <1>1, <1>3, <1>6, <3>1
    <3>2. CASE k # n
      <4>1. k \in 1 .. n - 1
        BY <2>1, <3>2
      <4> QED BY <1>6, <4>1
    <3> QED BY <3>1, <3>2
  <2> QED BY <2>5, <2>6, <2>7
<1>13. ASSUME NEW i \in total + 1 .. total + b PROVE Times(more)[i] = t
  <2>1. n \in 1 .. Len(more) /\ i \in Nat /\ i <= Delay!Ends(more)[n]
    BY <1>6, <1>10, <1>11
  <2>2. Delay!Ends(more)[n - 1] < i
    <3>1. Delay!Ends(segs)[p] < Delay!Ends(segs)[n]
      BY <1>1, <1>7, EndsGrow
    <3>2. p \in 0 .. p /\ p \in 0 .. n
      BY <1>7
    <3>3. Delay!Ends(more)[p] = Delay!Ends(segs)[p] /\ Delay!Ends(segs)[p] \in Nat
      BY <1>8, <1>9, <3>2
    <3> QED BY <1>7, <1>11, <3>1, <3>3
  <2>3. Times(more)[i] = more[n].eligible_at
    BY <1>6, <2>1, <2>2, TimeAt
  <2> QED BY <1>3, <1>6, <2>3
<1>14. Extended(segs, more, b, t)
  BY <1>1, <1>6, <1>10, <1>11, <1>12, <1>13 DEF Extended
<1> QED BY <1>5, <1>14
-----------------------------------------------------------------------------
\* on_consume: g whole segments go, and the front of the next one.
WholeGone(segs, b, g) ==
  /\ Delay!Ends(segs)[g] <= b
  /\ g < Len(segs) => b < Delay!Ends(segs)[g + 1]

Cut(segs, b, g) ==
  LET rest == SubSeq(segs, g + 1, Len(segs))
      cut  == b - Delay!Ends(segs)[g]
  IN  IF cut = 0 THEN rest ELSE [rest EXCEPT ![1].bytes = @ - cut]

LEMMA WholeGoneExists ==
  ASSUME NEW segs \in Seq(Segments), NEW b \in 0 .. Delay!Ends(segs)[Len(segs)]
  PROVE  \E g \in 0 .. Len(segs) : WholeGone(segs, b, g)
<1> DEFINE Beyond == {k \in 0 .. Len(segs) : b < Delay!Ends(segs)[k]}
<1>1. /\ Len(segs) \in Nat /\ \A k \in 0 .. Len(segs) : Delay!Ends(segs)[k] \in Nat
      /\ Delay!Ends(segs)[0] = 0 /\ b \in Nat
  BY EndsNat, EndsRecursion
<1>2. CASE Beyond = {}
  <2>1. Len(segs) \in 0 .. Len(segs) /\ ~(b < Delay!Ends(segs)[Len(segs)])
    BY <1>1, <1>2
  <2> QED BY <1>1, <2>1 DEF WholeGone
<1>3. CASE Beyond # {}
  <2>1. Beyond \in SUBSET Nat
    BY <1>1
  <2>2. PICK k \in Beyond : \A y \in Beyond : k <= y
    BY <1>3, <2>1, LeastNatural
  <2>3. k # 0
    BY <1>1, <2>2
  <2>4. PICK g \in 0 .. Len(segs) : g = k - 1 /\ g \notin Beyond /\ k = g + 1
    BY <1>1, <2>2, <2>3
  <2> QED BY <1>1, <2>2, <2>4 DEF WholeGone
<1> QED BY <1>2, <1>3

\* The segments that stay, one by one.
Stays(segs, less, b, g, n) ==
  /\ less \in Seq(Segments) /\ Len(less) = n
  /\ less[1].bytes = Delay!Ends(segs)[g + 1] - b
  /\ \A j \in 2 .. n : less[j].bytes = segs[g + j].bytes
  /\ \A j \in 1 .. n : less[j].eligible_at = segs[g + j].eligible_at

LEMMA CutShape ==
  ASSUME NEW segs \in Seq(Segments), NEW b \in Nat, NEW g \in Nat, g < Len(segs),
         WholeGone(segs, b, g)
  PROVE  Stays(segs, Cut(segs, b, g), b, g, Len(segs) - g)
<1>0. PICK less : less = Cut(segs, b, g)
  OBVIOUS
<1>1. PICK n \in Nat \ {0} : n = Len(segs) - g
  OBVIOUS
<1>2. PICK rest \in Seq(Segments) :
        /\ rest = SubSeq(segs, g + 1, Len(segs)) /\ Len(rest) = n
        /\ \A j \in 1 .. n : rest[j] = segs[g + j]
  <2>1. \A j \in g + 1 .. Len(segs) : segs[j] \in Segments
    BY SegmentTypes
  <2>2. SubSeq(segs, g + 1, Len(segs)) \in Seq(Segments)
    BY <2>1
  <2>3. Len(SubSeq(segs, g + 1, Len(segs))) = n
    BY <1>1
  <2>4. \A j \in 1 .. n : SubSeq(segs, g + 1, Len(segs))[j] = segs[g + j]
    BY <1>1
  <2> QED BY <2>2, <2>3, <2>4
<1>3. /\ g \in 0 .. Len(segs) /\ g + 1 \in 1 .. Len(segs) /\ g + 1 \in 0 .. Len(segs)
      /\ (g + 1) - 1 = g
  OBVIOUS
<1>4. PICK e \in Nat : e = Delay!Ends(segs)[g]
  BY <1>3, EndsNat
<1>5. PICK first \in Segments : first = segs[g + 1]
  BY <1>3, SegmentTypes
<1>6. first.bytes \in Nat \ {0} /\ first.eligible_at \in Nat
  BY DEF Segments
<1>7. Delay!Ends(segs)[g + 1] = e + first.bytes
  BY <1>3, <1>4, <1>5, EndsRecursion
<1>8. e <= b /\ b < e + first.bytes
  BY <1>4, <1>7 DEF WholeGone
<1>9. rest[1] = first
  BY <1>1, <1>2, <1>5
<1>10. CASE b = e
  <2>1. Cut(segs, b, g) = rest
    <3>1. b - Delay!Ends(segs)[g] = 0
      BY <1>4, <1>10
    <3> QED BY <1>2, <3>1, Zenon DEF Cut
  <2>2. rest[1].bytes = Delay!Ends(segs)[g + 1] - b
    BY <1>6, <1>7, <1>9, <1>10
  <2>3. Stays(segs, rest, b, g, n)
    BY <1>2, <2>2 DEF Stays
  <2> QED BY <1>1, <2>1, <2>3
<1>11. CASE b # e
  <2>1. PICK left \in Nat \ {0} : left = first.bytes - (b - e)
    BY <1>6, <1>8
  <2>2. PICK shorter \in Segments :
          /\ shorter = [first EXCEPT !.bytes = @ - (b - e)]
          /\ shorter.bytes = left /\ shorter.eligible_at = first.eligible_at
    <3>1. [first EXCEPT !.bytes = left] \in Segments
      BY DEF Segments
    <3>2. /\ [first EXCEPT !.bytes = left].bytes = left
          /\ [first EXCEPT !.bytes = left].eligible_at = first.eligible_at
      BY DEF Segments
    <3>3. [first EXCEPT !.bytes = left] = [first EXCEPT !.bytes = @ - (b - e)]
      BY <2>1
    <3> QED BY <3>1, <3>2, <3>3
  <2>3. less = [rest EXCEPT ![1] = shorter]
    <3>1. b - e # 0
      BY <1>11
    <3>2. Cut(segs, b, g) = [rest EXCEPT ![1].bytes = @ - (b - e)]
      BY <1>2, <1>4, <3>1 DEF Cut
    <3> QED BY <1>0, <1>9, <2>2, <3>2
  <2>5. /\ less \in Seq(Segments) /\ Len(less) = n /\ less[1] = shorter
        /\ \A j \in 2 .. n : less[j] = rest[j]
    <3>1. 1 \in 1 .. Len(rest)
      BY <1>2
    <3>2. less \in Seq(Segments) /\ Len(less) = n
      BY <1>2, <2>3, <3>1
    <3>3. less[1] = shorter
      BY <2>3, <3>1
    <3>4. ASSUME NEW j \in 2 .. n PROVE less[j] = rest[j]
      <4>1. j \in 1 .. Len(rest) /\ j # 1
        BY <1>2
      <4> QED BY <2>3, <4>1
    <3> QED BY <3>2, <3>3, <3>4
  <2>6. less[1].bytes = Delay!Ends(segs)[g + 1] - b
    BY <1>6, <1>7, <2>1, <2>2, <2>5
  <2>7. \A j \in 2 .. n : less[j].bytes = segs[g + j].bytes
    BY <1>2, <2>5
  <2>8. ASSUME NEW j \in 1 .. n PROVE less[j].eligible_at = segs[g + j].eligible_at
    <3>1. CASE j = 1
      BY <1>5, <2>2, <2>5, <3>1
    <3>2. CASE j # 1
      <4>1. j \in 2 .. n
        BY <3>2
      <4> QED BY <1>2, <2>5, <4>1
    <3> QED BY <3>1, <3>2
  <2>9. Stays(segs, less, b, g, n)
    BY <2>5, <2>6, <2>7, <2>8 DEF Stays
  <2> QED BY <1>0, <1>1, <2>9
<1> QED BY <1>10, <1>11

\* The segments after a consume: the first b bytes are gone, the others as before.
Shortened(segs, less, b) ==
  /\ less \in Seq(Segments)
  /\ Delay!Ends(less)[Len(less)] = Delay!Ends(segs)[Len(segs)] - b
  /\ \A i \in 1 .. Delay!Ends(segs)[Len(segs)] - b : Times(less)[i] = Times(segs)[i + b]

LEMMA EndsAfterCut ==
  ASSUME NEW segs \in Seq(Segments), NEW b \in Nat, NEW g \in Nat, g < Len(segs),
         WholeGone(segs, b, g), NEW k \in 1 .. Len(segs) - g
  PROVE  Delay!Ends(Cut(segs, b, g))[k] = Delay!Ends(segs)[g + k] - b
<1>1. PICK n \in Nat \ {0} : n = Len(segs) - g
  OBVIOUS
<1>0. PICK less : less = Cut(segs, b, g)
  OBVIOUS
<1>2. /\ less \in Seq(Segments) /\ Len(less) = n
      /\ less[1].bytes = Delay!Ends(segs)[g + 1] - b
      /\ \A j \in 2 .. n : less[j].bytes = segs[g + j].bytes
  <2>1. Stays(segs, less, b, g, n)
    BY <1>0, <1>1, CutShape
  <2> QED BY <2>1 DEF Stays
<1> DEFINE Wrong == {j \in 1 .. n : Delay!Ends(less)[j] # Delay!Ends(segs)[g + j] - b}
<1>3. SUFFICES ASSUME Wrong # {} PROVE FALSE
  BY <1>0, <1>1
<1>4. Wrong \in SUBSET Nat
  OBVIOUS
<1>5. PICK m \in Wrong : \A y \in Wrong : m <= y
  BY <1>3, <1>4, LeastNatural
<1>6. PICK p \in Nat : p = m - 1
  BY <1>5
<1>7. /\ m \in 1 .. Len(less) /\ m - 1 = p
      /\ g + m \in 1 .. Len(segs) /\ (g + m) - 1 = g + p
      /\ g + p \in 0 .. Len(segs) /\ g + 1 \in 0 .. Len(segs)
  BY <1>1, <1>2, <1>5, <1>6
<1>8. Delay!Ends(less)[m] = Delay!Ends(less)[p] + less[m].bytes
  BY <1>2, <1>7, EndsRecursion
<1>9. Delay!Ends(segs)[g + m] = Delay!Ends(segs)[g + p] + segs[g + m].bytes
  BY <1>7, EndsRecursion
<1>10. Delay!Ends(segs)[g + p] \in Nat /\ Delay!Ends(segs)[g + 1] \in Nat
  BY <1>7, EndsNat
<1>11. segs[g + m].bytes \in Nat
  BY <1>7, SegmentTypes
<1>12. CASE p = 0
  <2>1. m = 1 /\ Delay!Ends(less)[p] = 0
    BY <1>2, <1>5, <1>6, <1>12, EndsRecursion
  <2> QED BY <1>2, <1>5, <1>8, <1>10, <2>1
<1>13. CASE p # 0
  <2>1. m \in 2 .. n /\ p \in 1 .. n /\ p \notin Wrong
    BY <1>5, <1>6, <1>13
  <2>2. less[m].bytes = segs[g + m].bytes
    BY <1>2, <2>1
  <2>3. Delay!Ends(less)[p] = Delay!Ends(segs)[g + p] - b
    BY <2>1
  <2> QED BY <1>5, <1>8, <1>9, <1>10, <1>11, <2>2, <2>3
<1> QED BY <1>12, <1>13

LEMMA CutShortens ==
  ASSUME NEW segs \in Seq(Segments), NEW b \in 0 .. Delay!Ends(segs)[Len(segs)],
         NEW g \in 0 .. Len(segs), WholeGone(segs, b, g)
  PROVE  Shortened(segs, Cut(segs, b, g), b)
<1>1. /\ Len(segs) \in Nat /\ \A k \in 0 .. Len(segs) : Delay!Ends(segs)[k] \in Nat
      /\ b \in Nat /\ g \in Nat
  BY EndsNat
<1>2. PICK total \in Nat : total = Delay!Ends(segs)[Len(segs)]
  BY <1>1
<1>3. PICK less : less = Cut(segs, b, g)
  OBVIOUS
<1>4. CASE g = Len(segs)
  <2>1. b = total /\ b - Delay!Ends(segs)[g] = 0
    BY <1>1, <1>2, <1>4 DEF WholeGone
  <2>2. less = SubSeq(segs, g + 1, Len(segs))
    BY <1>3, <2>1, Zenon DEF Cut
  <2>3. less = <<>>
    BY <1>1, <1>4, <2>2
  <2>4. less \in Seq(Segments) /\ Len(less) = 0
    BY <2>3
  <2>5. Delay!Ends(less)[0] = 0
    BY <2>4, EndsRecursion
  <2> QED BY <1>2, <1>3, <2>1, <2>4, <2>5 DEF Shortened
<1>5. CASE g < Len(segs)
  <2>1. PICK n \in Nat \ {0} : n = Len(segs) - g
    BY <1>1, <1>5
  <2>2. /\ less \in Seq(Segments) /\ Len(less) = n
        /\ \A j \in 1 .. n : less[j].eligible_at = segs[g + j].eligible_at
    <3>1. Stays(segs, less, b, g, n)
      BY <1>1, <1>3, <1>5, <2>1, CutShape
    <3> QED BY <3>1 DEF Stays
  <2>3. \A j \in 1 .. n : Delay!Ends(less)[j] = Delay!Ends(segs)[g + j] - b
    BY <1>1, <1>3, <1>5, <2>1, EndsAfterCut
  <2>4. n \in 1 .. n /\ g + n = Len(segs)
    BY <1>1, <2>1
  <2>5. Delay!Ends(less)[n] = total - b
    BY <1>2, <2>3, <2>4
  <2>6. ASSUME NEW i \in 1 .. total - b PROVE Times(less)[i] = Times(segs)[i + b]
    <3>1. PICK k \in 1 .. n : Delay!Ends(less)[k - 1] < i /\ i <= Delay!Ends(less)[k]
      BY <2>2, <2>5, Located
    <3>2. /\ k \in 1 .. Len(less) /\ g + k \in 1 .. Len(segs) /\ i \in Nat /\ i + b \in Nat
          /\ g + k \in 0 .. Len(segs) /\ (g + k) - 1 \in 0 .. Len(segs)
      BY <1>1, <1>2, <2>1, <2>2
    <3>3. /\ Delay!Ends(segs)[g + k] \in Nat /\ Delay!Ends(segs)[(g + k) - 1] \in Nat
          /\ Delay!Ends(segs)[g] \in Nat
      BY <1>1, <3>2
    <3>4. Delay!Ends(less)[k] = Delay!Ends(segs)[g + k] - b
      BY <2>3
    <3>5. i + b <= Delay!Ends(segs)[g + k]
      BY <1>1, <3>1, <3>2, <3>3, <3>4
    <3>6. Delay!Ends(segs)[(g + k) - 1] < i + b
      <4>1. CASE k = 1
        <5>1. (g + k) - 1 = g
          BY <1>1, <4>1
        <5> QED BY <1>1, <3>2, <3>3, <5>1 DEF WholeGone
      <4>2. CASE k # 1
        <5>1. PICK p \in 1 .. n : p = k - 1
          BY <4>2
        <5>2. (g + k) - 1 = g + p
          BY <1>1, <5>1
        <5>3. Delay!Ends(less)[p] = Delay!Ends(segs)[g + p] - b
          BY <2>3
        <5> QED BY <1>1, <3>1, <3>2, <3>3, <5>1, <5>2, <5>3
      <4> QED BY <4>1, <4>2
    <3>7. Times(segs)[i + b] = segs[g + k].eligible_at
      BY <3>2, <3>5, <3>6, TimeAt
    <3>8. Times(less)[i] = less[k].eligible_at
      BY <2>2, <3>1, <3>2, TimeAt
    <3> QED BY <2>2, <3>7, <3>8
  <2> QED BY <1>2, <1>3, <2>2, <2>5, <2>6 DEF Shortened
<1> QED BY <1>1, <1>4, <1>5
-----------------------------------------------------------------------------
LEMMA StampsAreTimes == Delay!Stamps = Times(segments)
BY DEF Delay!Stamps, Times

\* on_commit and on_consume in terms of the bytes' times.
LEMMA CommitExtends ==
  ASSUME segments \in Seq(Segments), NEW b \in Nat \ {0}, NEW t \in Nat
  PROVE  Extended(segments, Delay!AppendSegment(b, t), b, t)
<1>1. CASE segments # <<>> /\ segments[Len(segments)].eligible_at = t
  <2>1. Delay!AppendSegment(b, t) = [segments EXCEPT ![Len(segments)].bytes = @ + b]
    BY <1>1 DEF Delay!AppendSegment, Delay!Last
  <2> QED BY <1>1, <2>1, MergeExtends
<1>2. CASE ~(segments # <<>> /\ segments[Len(segments)].eligible_at = t)
  <2>1. Delay!AppendSegment(b, t) = Append(segments, [bytes |-> b, eligible_at |-> t])
    BY <1>2 DEF Delay!AppendSegment, Delay!Last
  <2> QED BY <2>1, PushExtends
<1> QED BY <1>1, <1>2

LEMMA ConsumeShortens ==
  ASSUME segments \in Seq(Segments), NEW b \in 0 .. Delay!Ends(segments)[Len(segments)]
  PROVE  Shortened(segments, Delay!WithoutFront(b), b)
<1> DEFINE g == CHOOSE k \in 0 .. Len(segments) :
                  /\ Delay!Ends(segments)[k] <= b
                  /\ k < Len(segments) => b < Delay!Ends(segments)[k + 1]
<1>1. g \in 0 .. Len(segments) /\ WholeGone(segments, b, g)
  BY WholeGoneExists DEF WholeGone
<1>2. Delay!WithoutFront(b) = Cut(segments, b, g)
  BY DEF Delay!WithoutFront, Cut
<1> HIDE DEF g
<1> QED BY <1>1, <1>2, CutShortens

\* releasable and next_eligible: what may go is a front of the bytes, and the wake time is
\* that of the byte behind it.
LEMMA ReleaseSplits ==
  ASSUME segments \in Seq(Segments), now \in Nat
  PROVE  /\ Delay!Releasable \in 0 .. Delay!Ends(segments)[Len(segments)]
         /\ \A i \in 1 .. Delay!Releasable : Times(segments)[i] <= now
         /\ \/ /\ Delay!Releasable = Delay!Ends(segments)[Len(segments)]
               /\ Delay!NextEligible = {}
            \/ /\ Delay!Releasable < Delay!Ends(segments)[Len(segments)]
               /\ Delay!NextEligible = {Times(segments)[Delay!Releasable + 1]}
               /\ Times(segments)[Delay!Releasable + 1] > now
<1> DEFINE Waits(k) == /\ \A j \in 1 .. k - 1 : segments[j].eligible_at <= now
                       /\ k <= Len(segments) => segments[k].eligible_at > now
           Stops == {k \in 1 .. Len(segments) + 1 :
                       k <= Len(segments) => segments[k].eligible_at > now}
<1>1. /\ Len(segments) \in Nat
      /\ \A k \in 1 .. Len(segments) : segments[k].eligible_at \in Nat
      /\ \A k \in 0 .. Len(segments) : Delay!Ends(segments)[k] \in Nat
      /\ Delay!Ends(segments)[0] = 0
  BY SegmentTypes, EndsNat, EndsRecursion
<1>2. \E k \in 1 .. Len(segments) + 1 : Waits(k)
  <2>1. Len(segments) + 1 \in Stops /\ Stops \in SUBSET Nat
    BY <1>1
  <2>2. PICK k \in Stops : \A y \in Stops : k <= y
    BY <2>1, LeastNatural
  <2>3. ASSUME NEW j \in 1 .. k - 1 PROVE segments[j].eligible_at <= now
    <3>1. j \in 1 .. Len(segments) /\ j \notin Stops
      BY <1>1, <2>2
    <3> QED BY <1>1, <3>1
  <2> QED BY <2>2, <2>3
<1>3. PICK k \in 1 .. Len(segments) + 1 : Waits(k) /\ k = Delay!FirstWaiting
  BY <1>2 DEF Delay!FirstWaiting
<1>4. PICK p \in 0 .. Len(segments) : p = k - 1
  BY <1>1, <1>3
<1>5. PICK r \in Nat : r = Delay!Ends(segments)[p]
  BY <1>1, <1>4
<1>6. Delay!Releasable = r
  BY <1>3, <1>4, <1>5 DEF Delay!Releasable
<1>7. PICK total \in Nat : total = Delay!Ends(segments)[Len(segments)]
  BY <1>1
<1>8. ASSUME NEW i \in 1 .. r PROVE Times(segments)[i] <= now
  <2>1. r <= total
    <3>1. p = Len(segments) \/ Delay!Ends(segments)[p] < Delay!Ends(segments)[Len(segments)]
      BY <1>1, <1>4, EndsGrow
    <3> QED BY <1>5, <1>7, <3>1
  <2>2. i \in 1 .. total
    BY <2>1
  <2>3. PICK j \in 1 .. Len(segments) :
          Delay!Ends(segments)[j - 1] < i /\ i <= Delay!Ends(segments)[j]
    BY <1>7, <2>2, Located
  <2>4. Times(segments)[i] = segments[j].eligible_at
    BY <2>3, TimeAt
  <2>5. j <= p
    <3>1. SUFFICES ASSUME p < j PROVE FALSE
      BY <1>4, <2>3
    <3>2. PICK q \in 0 .. Len(segments) : q = j - 1 /\ (p = q \/ p < q)
      BY <1>1, <1>4, <3>1
    <3>3. Delay!Ends(segments)[p] = Delay!Ends(segments)[q]
          \/ Delay!Ends(segments)[p] < Delay!Ends(segments)[q]
      BY <1>4, <3>2, EndsGrow
    <3>4. Delay!Ends(segments)[q] \in Nat /\ Delay!Ends(segments)[q] < i
      BY <1>1, <2>3, <3>2
    <3> QED BY <1>5, <3>3, <3>4
  <2>6. j \in 1 .. k - 1
    BY <1>4, <2>3, <2>5
  <2> QED BY <1>3, <2>4, <2>6
<1>9. CASE k = Len(segments) + 1
  <2>1. r = total /\ Delay!NextEligible = {}
    BY <1>1, <1>3, <1>4, <1>5, <1>7, <1>9 DEF Delay!NextEligible
  <2> QED BY <1>6, <1>7, <1>8, <2>1
<1>10. CASE k # Len(segments) + 1
  <2>1. k \in 1 .. Len(segments) /\ p < Len(segments) /\ p < k
    BY <1>1, <1>4, <1>10
  <2>2. r < total
    BY <1>1, <1>4, <1>5, <1>7, <2>1, EndsGrow
  <2>3. PICK e \in Nat : e = Delay!Ends(segments)[k] /\ r < e
    BY <1>1, <1>4, <1>5, <2>1, EndsGrow
  <2>4. Delay!Ends(segments)[k - 1] < r + 1 /\ r + 1 <= Delay!Ends(segments)[k] /\ r + 1 \in Nat
    BY <1>4, <1>5, <2>3
  <2>5. Times(segments)[r + 1] = segments[k].eligible_at
    BY <2>1, <2>4, TimeAt
  <2>6. Delay!NextEligible = {segments[k].eligible_at}
    BY <1>1, <1>3, <2>1 DEF Delay!NextEligible
  <2>7. segments[k].eligible_at > now
    BY <1>3, <2>1
  <2> QED BY <1>6, <1>7, <1>8, <2>2, <2>5, <2>6, <2>7
<1> QED BY <1>9, <1>10
-----------------------------------------------------------------------------
\* The segments cover the ring's bytes, and their times never decrease.
LineInv ==
  /\ segments \in Seq(Segments) /\ last_eligible \in Nat
  /\ pending = size /\ Delay!Ends(segments)[Len(segments)] = size
  /\ \A i \in 1 .. size : Times(segments)[i] <= last_eligible
  /\ \A i, j \in 1 .. size : i <= j => Times(segments)[i] <= Times(segments)[j]

LEMMA InitLine == Init => LineInv
<1> SUFFICES ASSUME Init PROVE LineInv
  OBVIOUS
<1>1. segments = <<>> /\ pending = 0 /\ size = 0 /\ last_eligible = 0
  BY DEF Init, Queue!Init, Delay!Init
<1>2. segments \in Seq(Segments) /\ Len(segments) = 0
  BY <1>1
<1>3. Delay!Ends(segments)[0] = 0
  BY <1>2, EndsRecursion
<1> QED BY <1>1, <1>2, <1>3 DEF LineInv

LEMMA ReceiveLine ==
  ASSUME Inv, LineInv, NEW n \in 1 .. Capacity, NEW at \in now .. MaxTime,
         NEW data \in [1 .. n -> Bytes], Receive(data, at)
  PROVE  LineInv' /\ Extended(segments, segments', Len(data), last_eligible')
<1>1. size \in Nat /\ now \in Nat /\ at \in Nat /\ n \in Nat \ {0} /\ Len(data) = n
  BY DelayedQueueAssumption DEF Inv, RingTypes
<1>2. PICK t \in Nat : t = IF at < last_eligible THEN last_eligible ELSE at
  BY <1>1 DEF LineInv
<1>3. /\ segments' = Delay!AppendSegment(n, t) /\ last_eligible' = t
      /\ pending' = pending + n /\ size' = size + n
  BY <1>1, <1>2 DEF Receive, Delay!OnCommit, Queue!CommitWrite
<1>4. PICK more : more = segments'
  OBVIOUS
<1>5. Extended(segments, more, n, t)
  BY <1>1, <1>3, <1>4, CommitExtends DEF LineInv
<1>6. /\ segments \in Seq(Segments) /\ last_eligible \in Nat /\ last_eligible <= t
      /\ Delay!Ends(segments)[Len(segments)] = size /\ pending = size
  BY <1>1, <1>2 DEF LineInv
<1>7. /\ more \in Seq(Segments) /\ Delay!Ends(more)[Len(more)] = size + n
      /\ \A i \in 1 .. size : Times(more)[i] = Times(segments)[i]
      /\ \A i \in size + 1 .. size + n : Times(more)[i] = t
  BY <1>5, <1>6 DEF Extended
<1>8. \A i \in 1 .. size : Times(segments)[i] \in Nat
  BY <1>6, TimesTyped
<1>9. ASSUME NEW i \in 1 .. size + n PROVE Times(more)[i] <= t /\ Times(more)[i] \in Nat
  <2>1. CASE i \in 1 .. size
    <3>1. Times(segments)[i] <= last_eligible /\ Times(segments)[i] \in Nat
      BY <1>8, <2>1 DEF LineInv
    <3> QED BY <1>6, <1>7, <2>1, <3>1
  <2>2. CASE i \in size + 1 .. size + n
    BY <1>7, <2>2
  <2> QED BY <1>1, <2>1, <2>2
<1>10. ASSUME NEW i \in 1 .. size + n, NEW j \in 1 .. size + n, i <= j
       PROVE  Times(more)[i] <= Times(more)[j]
  <2>1. CASE j \in 1 .. size
    <3>1. i \in 1 .. size
      BY <1>1, <1>10, <2>1
    <3>2. Times(segments)[i] <= Times(segments)[j]
      BY <1>10, <2>1, <3>1 DEF LineInv
    <3> QED BY <1>7, <2>1, <3>1, <3>2
  <2>2. CASE j \in size + 1 .. size + n
    BY <1>7, <1>9, <2>2
  <2> QED BY <1>1, <2>1, <2>2
<1>11. LineInv'
  <2>1. Delay!Ends(segments')[Len(segments')] = size + n
    BY <1>4, <1>7
  <2> QED BY <1>3, <1>4, <1>6, <1>7, <1>9, <1>10, <2>1 DEF LineInv
<1> QED BY <1>1, <1>3, <1>4, <1>5, <1>11

LEMMA SendLine ==
  ASSUME Inv, LineInv, NEW count \in 1 .. Capacity, Send(count)
  PROVE  /\ LineInv' /\ Shortened(segments, segments', count)
         /\ \A i \in 1 .. count : Times(segments)[i] <= now
<1>1. size \in Nat /\ now \in Nat /\ count \in Nat \ {0}
  BY DelayedQueueAssumption DEF Inv, RingTypes
<1>2. /\ segments' = Delay!WithoutFront(count) /\ last_eligible' = last_eligible
      /\ pending' = pending - count /\ size' = size - count /\ count <= Delay!Releasable
  BY DEF Send, Delay!OnConsume, Queue!Consume
<1>3. /\ segments \in Seq(Segments) /\ last_eligible \in Nat
      /\ Delay!Ends(segments)[Len(segments)] = size /\ pending = size
  BY DEF LineInv
<1>4. /\ Delay!Releasable \in 0 .. size
      /\ \A i \in 1 .. Delay!Releasable : Times(segments)[i] <= now
  BY <1>1, <1>3, ReleaseSplits
<1>5. count \in 0 .. size /\ \A i \in 1 .. count : i \in 1 .. Delay!Releasable
  BY <1>1, <1>2, <1>4
<1>6. PICK less : less = segments'
  OBVIOUS
<1>7. Shortened(segments, less, count)
  BY <1>2, <1>3, <1>5, <1>6, ConsumeShortens
<1>8. /\ less \in Seq(Segments) /\ Delay!Ends(less)[Len(less)] = size - count
      /\ \A i \in 1 .. size - count : Times(less)[i] = Times(segments)[i + count]
  BY <1>3, <1>7 DEF Shortened
<1>9. \A i \in 1 .. size - count : i + count \in 1 .. size
  BY <1>1
<1>10. ASSUME NEW i \in 1 .. size - count PROVE Times(less)[i] <= last_eligible
  BY <1>8, <1>9 DEF LineInv
<1>11. ASSUME NEW i \in 1 .. size - count, NEW j \in 1 .. size - count, i <= j
       PROVE  Times(less)[i] <= Times(less)[j]
  <2>1. i + count <= j + count
    BY <1>1, <1>11
  <2>2. Times(segments)[i + count] <= Times(segments)[j + count]
    BY <1>9, <2>1 DEF LineInv
  <2> QED BY <1>8, <2>2
<1>12. LineInv'
  <2>1. Delay!Ends(segments')[Len(segments')] = size - count
    BY <1>6, <1>8
  <2> QED BY <1>2, <1>3, <1>6, <1>8, <1>10, <1>11, <2>1 DEF LineInv
<1> QED BY <1>4, <1>5, <1>6, <1>7, <1>12

LEMMA NextLine == Inv /\ LineInv /\ [Next]_vars => LineInv'
<1> SUFFICES ASSUME Inv, LineInv, [Next]_vars PROVE LineInv'
  OBVIOUS
<1>1. ASSUME NEW n \in 1 .. Capacity, NEW at \in now .. MaxTime,
             NEW data \in [1 .. n -> Bytes], Receive(data, at)
      PROVE  LineInv'
  BY <1>1, ReceiveLine
<1>2. ASSUME NEW count \in 1 .. Capacity, Send(count) PROVE LineInv'
  BY <1>2, SendLine
<1>3. ASSUME UNCHANGED <<segments, pending, last_eligible, size>> PROVE LineInv'
  BY <1>3 DEF LineInv
<1>4. CASE Tick
  BY <1>3, <1>4 DEF Tick, Delay!Tick, queueVars
<1>5. CASE UNCHANGED vars
  BY <1>3, <1>5 DEF vars, queueVars
<1> QED BY <1>1, <1>2, <1>4, <1>5, Zenon DEF Next

LEMMA LineHolds == Spec => []LineInv
<1>1. Inv /\ LineInv /\ [Next]_vars => LineInv'
  BY NextLine
<1> QED BY <1>1, InitLine, InvHolds, PTL DEF Spec
-----------------------------------------------------------------------------
LEMMA IntervalCardinality ==
  ASSUME NEW n \in Nat
  PROVE  IsFiniteSet(1 .. n) /\ Cardinality(1 .. n) = n
<1>1. IsFiniteSet(1 .. n) /\ Cardinality(1 .. n) = IF 1 > n THEN 0 ELSE n - 1 + 1
  BY FS_Interval
<1> QED BY <1>1

LEMMA SameCardinality == \A S : Delay!Cardinality(S) = Cardinality(S)
BY Zenon DEF Delay!Cardinality, Cardinality

LEMMA WakeIsRight ==
  ASSUME LineInv, now \in Nat, size \in Nat
  PROVE  WakeReleases
<1> DEFINE Ready(t) == {i \in 1 .. size : Times(segments)[i] <= t}
<1>1. /\ segments \in Seq(Segments) /\ pending = size
      /\ Delay!Ends(segments)[Len(segments)] = size
  BY DEF LineInv
<1>2. Len(Delay!Stamps) = size /\ Delay!Stamps = Times(segments)
  BY <1>1, StampsAreTimes, TimesTyped
<1>3. \A i \in 1 .. size : Times(segments)[i] \in Nat
  BY <1>1, TimesTyped
<1>4. PICK r \in 0 .. size : r = Delay!Releasable
  BY <1>1, ReleaseSplits
<1>5. \A i \in 1 .. r : Times(segments)[i] <= now
  BY <1>1, <1>4, ReleaseSplits
<1>6. CASE r = size /\ Delay!NextEligible = {}
  BY <1>1, <1>4, <1>6 DEF WakeReleases, Delay!WakeReleases
<1>7. CASE /\ r < size /\ Delay!NextEligible = {Times(segments)[r + 1]}
           /\ Times(segments)[r + 1] > now
  <2>1. PICK w \in Nat : w = Times(segments)[r + 1] /\ w > now
    BY <1>3, <1>7
  <2>2. Ready(w - 1) = 1 .. r
    <3>1. ASSUME NEW i \in 1 .. size, i <= r PROVE Times(segments)[i] <= w - 1
      <4>1. Times(segments)[i] <= now /\ Times(segments)[i] \in Nat
        BY <1>3, <1>5, <3>1
      <4> QED BY <2>1, <4>1
    <3>2. ASSUME NEW i \in 1 .. size, i > r PROVE ~(Times(segments)[i] <= w - 1)
      <4>1. r + 1 \in 1 .. size /\ r + 1 <= i
        BY <1>7, <3>2
      <4>2. w <= Times(segments)[i] /\ Times(segments)[i] \in Nat
        BY <1>3, <2>1, <4>1 DEF LineInv
      <4> QED BY <4>2
    <3> QED BY <3>1, <3>2
  <2>3. 1 .. r + 1 \subseteq Ready(w)
    <3>1. ASSUME NEW i \in 1 .. r + 1 PROVE i \in 1 .. size /\ Times(segments)[i] <= w
      <4>1. i \in 1 .. size /\ r + 1 \in 1 .. size /\ i <= r + 1
        BY <1>7
      <4> QED BY <2>1, <4>1 DEF LineInv
    <3> QED BY <3>1
  <2>4. Cardinality(Ready(w - 1)) = r
    <3>1. Cardinality(1 .. r) = r
      BY IntervalCardinality
    <3> QED BY <2>2, <3>1, Zenon
  <2>5. IsFiniteSet(Ready(w))
    <3>1. Ready(w) \subseteq 1 .. size /\ IsFiniteSet(1 .. size)
      BY IntervalCardinality
    <3> QED BY <3>1, FS_Subset
  <2>6. Cardinality(Ready(w)) > r
    <3>1. Cardinality(1 .. r + 1) = r + 1
      BY IntervalCardinality
    <3>2. Cardinality(1 .. r + 1) <= Cardinality(Ready(w))
      BY <2>3, <2>5, FS_Subset
    <3>3. Cardinality(Ready(w)) \in Nat
      BY <2>5, FS_CardinalityType
    <3> QED BY <3>1, <3>2, <3>3
  <2>7. w \in Delay!NextEligible
    BY <1>7, <2>1
  <2>8. \A t : {i \in 1 .. Len(Delay!Stamps) : Delay!Stamps[i] <= t} = Ready(t)
    BY <1>2, Zenon
  <2> HIDE DEF Ready
  <2>9. \E x \in Delay!NextEligible :
          x > now /\ Cardinality(Ready(x)) > r /\ Cardinality(Ready(x - 1)) = r
    BY <2>1, <2>4, <2>6, <2>7, Zenon
  <2> QED BY <1>4, <2>8, <2>9, SameCardinality, Zenon DEF WakeReleases, Delay!WakeReleases
<1> QED BY <1>1, <1>4, <1>6, <1>7, ReleaseSplits

\* next_eligible: the wake it asks for releases at least one more byte and no earlier one
\* would, and it asks for none only when every byte may go; for every queue and any delays.
THEOREM WakeTimesAreExact == Spec => []WakeReleases
<1>1. Inv /\ LineInv => WakeReleases
  BY WakeIsRight, DelayedQueueAssumption DEF Inv, RingTypes
<1> QED BY <1>1, InvHolds, LineHolds, PTL
-----------------------------------------------------------------------------
(* The ring.                                                               *)

LEMMA Wrap ==
  ASSUME NEW a \in Nat
  PROVE  /\ a < Capacity => a % Capacity = a
         /\ Capacity <= a /\ a < 2 * Capacity => a % Capacity = a - Capacity
BY DelayedQueueAssumption

Cell(i) == (head + i - 1) % Capacity

CellTypes == storage \in [0 .. Capacity - 1 -> Bytes]

\* Writing behind the queued bytes, wherever the writable span lies, leaves them in place.
LEMMA CommitCells ==
  ASSUME RingTypes, CellTypes, NEW n \in 1 .. Capacity, NEW data \in [1 .. n -> Bytes],
         Queue!CommitWrite(data)
  PROVE  /\ CellTypes' /\ size' = size + n /\ head' = head /\ taken' = <<>>
         /\ \A i \in 1 .. size : storage'[Cell(i)] = storage[Cell(i)]
         /\ \A i \in 1 .. n : storage'[Cell(size + i)] = data[i]
<1>1. /\ Capacity \in Nat \ {0} /\ head \in Nat /\ head < Capacity
      /\ size \in Nat /\ size <= Capacity /\ n \in Nat \ {0} /\ Len(data) = n
  BY DelayedQueueAssumption DEF RingTypes
<1>2. /\ size' = size + n /\ head' = head /\ taken' = <<>>
      /\ n <= Queue!WritableSpan.length
  BY <1>1 DEF Queue!CommitWrite
<1>3. size # Capacity
  BY <1>1, <1>2 DEF Queue!WritableSpan
<1>4. PICK tail \in 0 .. Capacity - 1 : tail = (head + size) % Capacity
  <2>1. PICK a \in Nat : a = head + size
    BY <1>1
  <2> QED BY <2>1, Remainder
<1>5. /\ Queue!WritableSpan.first = tail
      /\ Queue!WritableSpan.length = Queue!Smaller(Capacity - size, Capacity - tail)
  BY <1>3, <1>4 DEF Queue!WritableSpan
<1>6. n <= Capacity - size /\ n <= Capacity - tail
  BY <1>1, <1>2, <1>5 DEF Queue!Smaller
<1>7. storage' = [i \in 0 .. Capacity - 1 |->
                    IF i \in tail .. tail + n - 1 THEN data[i - tail + 1] ELSE storage[i]]
  BY <1>1, <1>5 DEF Queue!CommitWrite
<1>8. \A i \in tail .. tail + n - 1 : i - tail + 1 \in 1 .. n
  BY <1>1
<1>9. CellTypes'
  BY <1>7, <1>8 DEF CellTypes
<1>10. \/ head + size < Capacity /\ tail = head + size
       \/ Capacity <= head + size /\ tail = head + size - Capacity
  <2>1. PICK a \in Nat : a = head + size /\ a < 2 * Capacity /\ a % Capacity = tail
    BY <1>1, <1>4
  <2> QED BY <1>1, <2>1, Wrap
<1>11. ASSUME NEW i \in 1 .. size PROVE storage'[Cell(i)] = storage[Cell(i)]
  <2>0. PICK a \in Nat : a = head + i - 1 /\ a < 2 * Capacity
    BY <1>1
  <2>1. PICK c \in 0 .. Capacity - 1 : c = a % Capacity /\ c = Cell(i)
    BY <2>0, Remainder DEF Cell
  <2>2. \/ a < Capacity /\ c = a
        \/ Capacity <= a /\ c = a - Capacity
    <3>1. /\ a < Capacity => a % Capacity = a
          /\ Capacity <= a => a % Capacity = a - Capacity
      BY <2>0, Wrap
    <3>2. a < Capacity \/ Capacity <= a
      BY <1>1
    <3> QED BY <2>1, <3>1, <3>2, Zenon
  <2>3. c \notin tail .. tail + n - 1
    BY <1>1, <1>6, <1>10, <2>0, <2>2
  <2> QED BY <1>7, <2>1, <2>3
<1>12. ASSUME NEW i \in 1 .. n PROVE storage'[Cell(size + i)] = data[i]
  <2>1. PICK a \in Nat : a = head + (size + i) - 1
    BY <1>1
  <2>2. Cell(size + i) = a % Capacity
    BY <2>1 DEF Cell
  <2>3. a % Capacity = tail + i - 1
    <3>1. CASE head + size < Capacity /\ tail = head + size
      BY <1>1, <1>6, <2>1, <3>1, Wrap
    <3>2. CASE Capacity <= head + size /\ tail = head + size - Capacity
      BY <1>1, <1>6, <2>1, <3>2, Wrap
    <3> QED BY <1>10, <3>1, <3>2
  <2>4. PICK c \in 0 .. Capacity - 1 : c = tail + i - 1
    BY <1>1, <1>6
  <2>5. c \in tail .. tail + n - 1 /\ c - tail + 1 = i
    BY <2>4
  <2> QED BY <1>7, <2>2, <2>3, <2>4, <2>5
<1> QED BY <1>2, <1>9, <1>11, <1>12

\* Reading at the front hands out the first bytes and moves the others up.
LEMMA ConsumeCells ==
  ASSUME RingTypes, CellTypes, NEW count \in 1 .. Capacity, Queue!Consume(count)
  PROVE  /\ CellTypes' /\ size' = size - count /\ count <= size
         /\ taken' = [i \in 1 .. count |-> storage[Cell(i)]]
         /\ \A i \in 1 .. size - count : storage'[Cell(i)'] = storage[Cell(count + i)]
<1>1. /\ Capacity \in Nat \ {0} /\ head \in Nat /\ head < Capacity
      /\ size \in Nat /\ size <= Capacity /\ count \in Nat \ {0}
  BY DelayedQueueAssumption DEF RingTypes
<1>2. /\ size' = size - count /\ storage' = storage
      /\ head' = IF size' = 0 THEN 0 ELSE (head + count) % Capacity
      /\ taken' = [i \in 1 .. count |-> storage[Queue!ReadableSpan.first + i - 1]]
      /\ count <= Queue!ReadableSpan.length
  BY DEF Queue!Consume
<1>3. CellTypes'
  BY <1>2 DEF CellTypes
<1>4. size # 0
  BY <1>1, <1>2 DEF Queue!ReadableSpan
<1>5. /\ Queue!ReadableSpan.first = head
      /\ Queue!ReadableSpan.length = Queue!Smaller(size, Capacity - head)
  BY <1>4 DEF Queue!ReadableSpan
<1>6. count <= size /\ count <= Capacity - head
  BY <1>1, <1>2, <1>5 DEF Queue!Smaller
<1>7. ASSUME NEW i \in 1 .. count PROVE head + i - 1 = Cell(i)
  BY <1>1, <1>6, Wrap DEF Cell
<1>8. taken' = [i \in 1 .. count |-> storage[Cell(i)]]
  BY <1>2, <1>5, <1>7
<1>9. ASSUME NEW i \in 1 .. size - count
      PROVE  storage'[Cell(i)'] = storage[Cell(count + i)]
  <2>1. size' # 0
    BY <1>1, <1>2, <1>9
  <2>2. PICK front \in 0 .. Capacity - 1 : front = head' /\ front = (head + count) % Capacity
    <3>1. PICK a \in Nat : a = head + count
      BY <1>1
    <3>2. head' = a % Capacity
      BY <1>2, <2>1, <3>1
    <3> QED BY <3>1, <3>2, Remainder
  <2>3. PICK a \in Nat : a = head + (count + i) - 1
    BY <1>1
  <2>4. PICK b \in Nat : b = front + i - 1
    BY <1>1, <2>2
  <2>5. Cell(i)' = b % Capacity /\ Cell(count + i) = a % Capacity
    BY <2>2, <2>3, <2>4 DEF Cell
  <2>6. \/ head + count < Capacity /\ front = head + count
        \/ head + count = Capacity /\ front = 0
    BY <1>1, <1>6, <2>2, Wrap
  <2>7. a % Capacity = b % Capacity
    <3>1. CASE head + count < Capacity /\ front = head + count
      <4>1. a = b
        BY <1>1, <2>3, <2>4, <3>1
      <4> QED BY <4>1
    <3>2. CASE head + count = Capacity /\ front = 0
      <4>1. b < Capacity /\ Capacity <= a /\ a < 2 * Capacity /\ a - Capacity = b
        BY <1>1, <2>3, <2>4, <3>2
      <4> QED BY <4>1, Wrap
    <3> QED BY <2>6, <3>1, <3>2
  <2> QED BY <1>2, <2>5, <2>7
<1> QED BY <1>2, <1>3, <1>6, <1>8, <1>9
-----------------------------------------------------------------------------
(* Sequences by their elements.                                            *)

LEMMA ConcatenationIs ==
  ASSUME NEW S, NEW s \in Seq(S), NEW t \in Seq(S), NEW u \in Seq(S),
         Len(u) = Len(s) + Len(t),
         \A i \in 1 .. Len(s) : u[i] = s[i],
         \A i \in 1 .. Len(t) : u[Len(s) + i] = t[i]
  PROVE  u = s \o t
<1>1. s \o t \in Seq(S) /\ Len(s \o t) = Len(u)
  OBVIOUS
<1>2. ASSUME NEW i \in 1 .. Len(u) PROVE u[i] = (s \o t)[i]
  <2>1. CASE i <= Len(s)
    BY <2>1
  <2>2. CASE i > Len(s)
    <3>1. PICK j \in 1 .. Len(t) : i = Len(s) + j
      <4>1. i - Len(s) \in 1 .. Len(t) /\ i = Len(s) + (i - Len(s))
        BY <2>2
      <4> QED BY <4>1
    <3> QED BY <2>2, <3>1
  <2> QED BY <2>1, <2>2
<1> QED BY <1>1, <1>2, SeqEqual

LEMMA SuffixIs ==
  ASSUME NEW S, NEW s \in Seq(S), NEW u \in Seq(S), NEW c \in 0 .. Len(s),
         Len(u) = Len(s) - c,
         \A i \in 1 .. Len(s) - c : u[i] = s[c + i]
  PROVE  u = SubSeq(s, c + 1, Len(s))
<1>1. /\ SubSeq(s, c + 1, Len(s)) \in Seq(S)
      /\ Len(SubSeq(s, c + 1, Len(s))) = Len(u)
      /\ \A i \in 1 .. Len(s) - c : SubSeq(s, c + 1, Len(s))[i] = s[c + i]
  OBVIOUS
<1> QED BY <1>1, SeqEqual
-----------------------------------------------------------------------------
(* The refinement.                                                         *)

Entries == [byte : Bytes, time : Nat]

StampedIs ==
  /\ Stamped \in Seq(Entries) /\ Len(Stamped) = size
  /\ \A i \in 1 .. size :
       Stamped[i] = [byte |-> storage[Cell(i)], time |-> Times(segments)[i]]

LEMMA StampedElements == RingTypes /\ CellTypes /\ LineInv => StampedIs
<1> SUFFICES ASSUME RingTypes, CellTypes, LineInv PROVE StampedIs
  OBVIOUS
<1>1. /\ Capacity \in Nat \ {0} /\ head \in Nat /\ size \in Nat
  BY DelayedQueueAssumption DEF RingTypes
<1>2. ASSUME NEW i \in 1 .. size
      PROVE  /\ Stamped[i] = [byte |-> storage[Cell(i)], time |-> Times(segments)[i]]
             /\ Stamped[i] \in Entries
  <2>1. Stamped[i] = [byte |-> Queue!Queued[i], time |-> Delay!Stamps[i]]
    BY DEF Stamped
  <2>2. Queue!Queued[i] = storage[Cell(i)]
    BY DEF Queue!Queued, Cell
  <2>3. Cell(i) \in 0 .. Capacity - 1
    <3>1. PICK a \in Nat : a = head + i - 1
      BY <1>1
    <3> QED BY <3>1, Remainder DEF Cell
  <2>4. storage[Cell(i)] \in Bytes
    BY <2>3 DEF CellTypes
  <2>5. Times(segments)[i] \in Nat
    BY TimesTyped DEF LineInv
  <2>6. Delay!Stamps[i] = Times(segments)[i]
    BY StampsAreTimes
  <2> QED BY <2>1, <2>2, <2>4, <2>5, <2>6 DEF Entries
<1>3. Stamped = [i \in 1 .. size |-> Stamped[i]]
  BY DEF Stamped
<1>4. Stamped \in [1 .. size -> Entries]
  BY <1>2, <1>3
<1>5. Stamped \in Seq(Entries) /\ Len(Stamped) = size
  BY <1>1, <1>4
<1> QED BY <1>2, <1>5 DEF StampedIs

LEMMA InitRefines == Init => CellTypes /\ Abstract!Init
<1> SUFFICES ASSUME Init PROVE CellTypes /\ Abstract!Init
  OBVIOUS
<1>1. /\ storage = [i \in 0 .. Capacity - 1 |-> 0] /\ size = 0 /\ taken = <<>>
      /\ last_eligible = 0 /\ now = 0
  BY DEF Init, Queue!Init, Delay!Init
<1>2. CellTypes
  BY <1>1, DelayedQueueAssumption DEF CellTypes
<1>3. RingTypes /\ LineInv
  BY InitInv, InitLine DEF Inv
<1>4. Stamped \in Seq(Entries) /\ Len(Stamped) = 0
  BY <1>1, <1>2, <1>3, StampedElements DEF StampedIs
<1>5. Stamped = <<>>
  BY <1>4
<1> QED BY <1>1, <1>2, <1>5 DEF Abstract!Init

LEMMA ReceiveRefines ==
  ASSUME Inv, LineInv, CellTypes, NEW n \in 1 .. Capacity, NEW at \in now .. MaxTime,
         NEW data \in [1 .. n -> Bytes], Receive(data, at)
  PROVE  CellTypes' /\ Abstract!Put(data, at)
<1>1. /\ RingTypes /\ size \in Nat /\ now \in Nat /\ at \in Nat /\ n \in Nat /\ Len(data) = n
      /\ High <= Capacity /\ High \in Nat /\ Capacity \in Nat
  BY DelayedQueueAssumption DEF Inv, RingTypes
<1>2. /\ CellTypes' /\ size' = size + n /\ head' = head /\ taken' = <<>>
      /\ \A i \in 1 .. size : storage'[Cell(i)] = storage[Cell(i)]
      /\ \A i \in 1 .. n : storage'[Cell(size + i)] = data[i]
  BY <1>1, CommitCells DEF Receive
<1>3. PICK t \in Nat : t = last_eligible'
  BY ReceiveLine DEF LineInv
<1>4. /\ last_eligible' = IF at < last_eligible THEN last_eligible ELSE at
      /\ now' = now /\ size + n <= High
  BY <1>1 DEF Receive, MayRead, Delay!OnCommit
<1>5. /\ \A i \in 1 .. size : Times(segments)'[i] = Times(segments)[i]
      /\ \A i \in size + 1 .. size + n : Times(segments)'[i] = t
  <2>1. Extended(segments, segments', n, t)
    BY <1>1, <1>3, ReceiveLine
  <2>2. PICK more : more = segments'
    OBVIOUS
  <2>3. /\ \A i \in 1 .. size : Times(more)[i] = Times(segments)[i]
        /\ \A i \in size + 1 .. size + n : Times(more)[i] = t
    BY <2>1, <2>2 DEF Extended, LineInv
  <2>4. Times(segments)' = Times(more)
    BY <2>2 DEF Times, Delay!Ends
  <2> QED BY <2>3, <2>4
<1>6. StampedIs
  BY <1>1, StampedElements
<1>7. StampedIs'
  <2>1. (RingTypes /\ CellTypes /\ LineInv => StampedIs)'
    BY StampedElements, PTL
  <2>2. RingTypes' /\ LineInv'
    BY ReceiveInv, ReceiveLine DEF Inv
  <2> QED BY <1>2, <2>1, <2>2
<1>8. PICK added : added = [i \in 1 .. n |-> [byte |-> data[i], time |-> t]]
  OBVIOUS
<1>9. added \in Seq(Entries) /\ Len(added) = n
  <2>1. added \in [1 .. n -> Entries]
    BY <1>8 DEF Entries
  <2> QED BY <1>1, <2>1
<1>10. PICK longer \in Seq(Entries) : longer = Stamped' /\ Len(longer) = size + n
  BY <1>2, <1>7 DEF StampedIs
<1>11. ASSUME NEW i \in 1 .. size + n
       PROVE  longer[i] = [byte |-> storage'[Cell(i)], time |-> Times(segments)'[i]]
  BY <1>2, <1>7, <1>10 DEF StampedIs, Cell
<1>12. ASSUME NEW i \in 1 .. size PROVE longer[i] = Stamped[i]
  <2>1. i \in 1 .. size + n
    BY <1>1
  <2> QED BY <1>2, <1>5, <1>6, <1>11, <2>1 DEF StampedIs
<1>13. ASSUME NEW i \in 1 .. n PROVE longer[size + i] = added[i]
  <2>1. size + i \in 1 .. size + n /\ size + i \in size + 1 .. size + n
    BY <1>1
  <2>2. longer[size + i] = [byte |-> data[i], time |-> t]
    BY <1>2, <1>5, <1>11, <2>1
  <2> QED BY <1>8, <2>2
<1>14. longer = Stamped \o added
  BY <1>6, <1>9, <1>10, <1>12, <1>13, ConcatenationIs DEF StampedIs
<1>15. Len(Stamped) + Len(data) <= Capacity
  BY <1>1, <1>4, <1>6 DEF StampedIs
<1> QED BY <1>1, <1>2, <1>3, <1>4, <1>8, <1>10, <1>14, <1>15 DEF Abstract!Put

LEMMA SendRefines ==
  ASSUME Inv, LineInv, CellTypes, NEW count \in 1 .. Capacity, Send(count)
  PROVE  CellTypes' /\ Abstract!Get(count)
<1>1. RingTypes /\ size \in Nat /\ now \in Nat /\ count \in Nat
  BY DelayedQueueAssumption DEF Inv, RingTypes
<1>2. /\ CellTypes' /\ size' = size - count /\ count <= size
      /\ taken' = [i \in 1 .. count |-> storage[Cell(i)]]
      /\ \A i \in 1 .. size - count : storage'[Cell(i)'] = storage[Cell(count + i)]
  BY <1>1, ConsumeCells DEF Send
<1>3. last_eligible' = last_eligible /\ now' = now
  BY DEF Send, Delay!OnConsume
<1>4. \A i \in 1 .. size - count : Times(segments)'[i] = Times(segments)[i + count]
  <2>1. Shortened(segments, segments', count)
    BY SendLine
  <2>2. PICK less : less = segments'
    OBVIOUS
  <2>3. \A i \in 1 .. size - count : Times(less)[i] = Times(segments)[i + count]
    BY <2>1, <2>2 DEF Shortened, LineInv
  <2>4. Times(segments)' = Times(less)
    BY <2>2 DEF Times, Delay!Ends
  <2> QED BY <2>3, <2>4
<1>5. StampedIs
  BY <1>1, StampedElements
<1>6. StampedIs'
  <2>1. (RingTypes /\ CellTypes /\ LineInv => StampedIs)'
    BY StampedElements, PTL
  <2>2. RingTypes' /\ LineInv'
    BY SendInv, SendLine DEF Inv
  <2> QED BY <1>2, <2>1, <2>2
<1>7. PICK shorter \in Seq(Entries) : shorter = Stamped' /\ Len(shorter) = size - count
  BY <1>2, <1>6 DEF StampedIs
<1>8. ASSUME NEW i \in 1 .. size - count PROVE shorter[i] = Stamped[count + i]
  <2>1. count + i \in 1 .. size /\ i + count = count + i
    BY <1>1
  <2>2. shorter[i] = [byte |-> storage'[Cell(i)'], time |-> Times(segments)'[i]]
    BY <1>2, <1>6, <1>7 DEF StampedIs
  <2>3. Stamped[count + i] = [byte |-> storage[Cell(count + i)],
                              time |-> Times(segments)[count + i]]
    BY <1>5, <2>1 DEF StampedIs
  <2> QED BY <1>2, <1>4, <2>1, <2>2, <2>3
<1>9. Stamped \in Seq(Entries) /\ Len(Stamped) = size /\ count \in 0 .. size
  BY <1>1, <1>2, <1>5 DEF StampedIs
<1>10. shorter = SubSeq(Stamped, count + 1, Len(Stamped))
  BY <1>7, <1>8, <1>9, SuffixIs
<1>11. ASSUME NEW i \in 1 .. count
       PROVE  Stamped[i].time <= now /\ Stamped[i].byte = storage[Cell(i)]
  <2>1. i \in 1 .. size
    BY <1>1, <1>2
  <2>2. Stamped[i] = [byte |-> storage[Cell(i)], time |-> Times(segments)[i]]
    BY <1>5, <2>1 DEF StampedIs
  <2>3. Times(segments)[i] <= now
    BY SendLine
  <2> QED BY <2>2, <2>3
<1>12. taken' = [i \in 1 .. count |-> Stamped[i].byte]
  BY <1>2, <1>11
<1> QED BY <1>2, <1>3, <1>7, <1>9, <1>10, <1>11, <1>12 DEF Abstract!Get

LEMMA NextRefines ==
  Inv /\ LineInv /\ CellTypes /\ [Next]_vars
    => CellTypes' /\ [Abstract!Next]_<<Stamped, last_eligible, taken, now>>
<1> SUFFICES ASSUME Inv, LineInv, CellTypes, [Next]_vars
             PROVE  CellTypes' /\ [Abstract!Next]_<<Stamped, last_eligible, taken, now>>
  OBVIOUS
<1>1. ASSUME NEW n \in 1 .. Capacity, NEW at \in now .. MaxTime,
             NEW data \in [1 .. n -> Bytes], Receive(data, at)
      PROVE  CellTypes' /\ Abstract!Next
  <2>1. CellTypes' /\ Abstract!Put(data, at)
    BY <1>1, ReceiveRefines
  <2>2. at \in 0 .. MaxTime
    BY DelayedQueueAssumption DEF Inv, RingTypes
  <2> QED BY <2>1, <2>2 DEF Abstract!Next
<1>2. ASSUME NEW count \in 1 .. Capacity, Send(count) PROVE CellTypes' /\ Abstract!Next
  <2>1. CellTypes' /\ Abstract!Get(count)
    BY <1>2, SendRefines
  <2> QED BY <2>1 DEF Abstract!Next
<1>3. ASSUME UNCHANGED <<storage, head, size, segments>> PROVE UNCHANGED Stamped /\ CellTypes'
  <2>1. UNCHANGED Queue!Queued
    BY <1>3 DEF Queue!Queued
  <2>2. UNCHANGED Delay!Stamps
    BY <1>3 DEF Delay!Stamps, Delay!Ends
  <2> QED BY <1>3, <2>1, <2>2 DEF Stamped, CellTypes
<1>4. CASE Tick
  <2>1. UNCHANGED <<storage, head, size, segments>>
    BY <1>4 DEF Tick, Delay!Tick, queueVars
  <2>2. UNCHANGED Stamped /\ CellTypes'
    BY <1>3, <2>1
  <2>3. now' = now + 1 /\ UNCHANGED <<last_eligible, taken>>
    BY <1>4 DEF Tick, Delay!Tick, queueVars
  <2>4. Abstract!Tick
    BY <2>2, <2>3 DEF Abstract!Tick
  <2> QED BY <2>2, <2>4 DEF Abstract!Next
<1>5. CASE UNCHANGED vars
  <2>1. UNCHANGED <<storage, head, size, segments, last_eligible, taken, now>>
    BY <1>5 DEF vars, queueVars
  <2>2. UNCHANGED Stamped /\ CellTypes'
    BY <1>3, <2>1
  <2> QED BY <2>1, <2>2
<1> QED BY <1>1, <1>2, <1>4, <1>5, Zenon DEF Next

\* handle_readable and flush over ByteQueue and DelayLine: ring and segments are one FIFO of
\* timed bytes, for every capacity, every stream and any delays; wrapping, partial writes,
\* coalescing and cutting never reorder, lose or repeat a byte, nor change its time.
THEOREM QueueIsDelayedFifo == Spec => ImplementsDelayedFifo
<1>1. Init => CellTypes /\ Abstract!Init
  BY InitRefines
<1>2. Inv /\ LineInv /\ CellTypes /\ [Next]_vars
        => CellTypes' /\ [Abstract!Next]_<<Stamped, last_eligible, taken, now>>
  BY NextRefines
<1> QED BY <1>1, <1>2, InvHolds, LineHolds, PTL DEF Spec, ImplementsDelayedFifo, Abstract!Spec
=============================================================================
