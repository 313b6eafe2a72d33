------------------------------ MODULE DelayLine ------------------------------
(***************************************************************************)
(* netfault::DelayLine (delay_line.hpp): eligibility times kept as         *)
(* segments of equal time, coalesced on commit, cut on consume.            *)
(* DelayedQueue drives it together with the byte queue.                    *)
(***************************************************************************)
EXTENDS Integers, Sequences, SequencesExt

CONSTANT MaxTime   \* bound: the clock and the eligibility times

VARIABLES
  segments,       \* segments_: a sequence of [bytes, eligible_at]
  pending, last_eligible,
  now             \* the clock the caller passes in

vars == <<segments, pending, last_eligible, now>>

Init == segments = <<>> /\ pending = 0 /\ last_eligible = 0 /\ now = 0

\* Where segments end: Ends(segs)[k] bytes lie in front of the end of the k-th.
Ends(segs) ==
  LET end[k \in 0 .. Len(segs)] == IF k = 0 THEN 0 ELSE end[k - 1] + segs[k].bytes
  IN  end

\* A segment with the time of the last one is merged into it.
AppendSegment(bytes, eligible) ==
  IF segments # <<>> /\ Last(segments).eligible_at = eligible
  THEN [segments EXCEPT ![Len(segments)].bytes = @ + bytes]
  ELSE Append(segments, [bytes |-> bytes, eligible_at |-> eligible])

OnCommit(bytes, at) ==
  LET eligible == IF at < last_eligible THEN last_eligible ELSE at
  IN  /\ segments' = AppendSegment(bytes, eligible)
      /\ last_eligible' = eligible
      /\ pending' = pending + bytes
      /\ UNCHANGED now

\* The loops of releasable and next_eligible stop at the first segment that must
\* still wait, or behind the last.
FirstWaiting ==
  CHOOSE k \in 1 .. Len(segments) + 1 :
    /\ \A j \in 1 .. k - 1 : segments[j].eligible_at <= now
    /\ k <= Len(segments) => segments[k].eligible_at > now

Releasable == Ends(segments)[FirstWaiting - 1]

\* The loop of on_consume: whole segments go, the next one is cut.
WithoutFront(bytes) ==
  LET end  == Ends(segments)
      gone == CHOOSE k \in 0 .. Len(segments) :
                end[k] <= bytes /\ (k < Len(segments) => bytes < end[k + 1])
      rest == SubSeq(segments, gone + 1, Len(segments))
      cut  == bytes - end[gone]
  IN  IF cut = 0 THEN rest ELSE [rest EXCEPT ![1].bytes = @ - cut]

OnConsume(bytes) ==
  /\ bytes <= Releasable
  /\ segments' = WithoutFront(bytes)
  /\ pending' = pending - bytes
  /\ UNCHANGED <<last_eligible, now>>

\* Mutant: the last segment's time, as if all had to wait for it.
NextEligibleLast ==
  IF segments = <<>> \/ Last(segments).eligible_at <= now THEN {}
  ELSE {Last(segments).eligible_at}

\* next_eligible: when the first segment that waits may go.
NextEligible ==
  IF FirstWaiting > Len(segments) THEN {} ELSE {segments[FirstWaiting].eligible_at}

Tick == now < MaxTime /\ now' = now + 1 /\ UNCHANGED <<segments, pending, last_eligible>>
-----------------------------------------------------------------------------
\* The time of each byte: that of the segment it lies in.
Stamps ==
  LET end == Ends(segments)
      segmentOf(i) == CHOOSE k \in 1 .. Len(segments) : end[k - 1] < i /\ i <= end[k]
  IN  [i \in 1 .. end[Len(segments)] |-> segments[segmentOf(i)].eligible_at]

\* The wake time handed to the scheduler is the first byte's that is held back:
\* one tick earlier nothing more is releasable, at that time more is.
WakeReleases ==
  LET releasable(t) == Cardinality({i \in 1 .. Len(Stamps) : Stamps[i] <= t})
  IN  \/ NextEligible = {} /\ Releasable = pending
      \/ \E w \in NextEligible : /\ w > now /\ releasable(w) > Releasable
                                 /\ releasable(w - 1) = Releasable
=============================================================================
