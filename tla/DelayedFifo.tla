----------------------------- MODULE DelayedFifo -----------------------------
(***************************************************************************)
(* What one direction of a connection promises its bytes: they leave in    *)
(* the order they came, none dropped or invented, at most Capacity held,   *)
(* and none before its time.  A byte's time is the one asked for when it   *)
(* came, or the time of the byte in front of it if that is later.  `taken` *)
(* is what the last operation handed out.                                  *)
(***************************************************************************)
EXTENDS Integers, Sequences

CONSTANTS Capacity, Bytes, MaxTime

VARIABLES
  queue,  \* the bytes held, each with its time: [byte, time]
  latest, \* the time of the byte that came last
  taken, now

Init == queue = <<>> /\ latest = 0 /\ taken = <<>> /\ now = 0

Put(data, at) ==
  LET time == IF at < latest THEN latest ELSE at
  IN  /\ Len(queue) + Len(data) <= Capacity
      /\ queue' = queue \o [i \in 1 .. Len(data) |-> [byte |-> data[i], time |-> time]]
      /\ latest' = time
      /\ taken' = <<>>
      /\ UNCHANGED now

Get(count) ==
  /\ count <= Len(queue)
  /\ \A i \in 1 .. count : queue[i].time <= now
  /\ taken' = [i \in 1 .. count |-> queue[i].byte]
  /\ queue' = SubSeq(queue, count + 1, Len(queue))
  /\ UNCHANGED <<latest, now>>

Tick == now' = now + 1 /\ UNCHANGED <<queue, latest, taken>>

Next ==
  \/ \E n \in 1 .. Capacity, at \in 0 .. MaxTime :
        \E data \in [1 .. n -> Bytes] : Put(data, at)
  \/ \E count \in 1 .. Capacity : Get(count)
  \/ Tick

Spec == Init /\ [][Next]_<<queue, latest, taken, now>>
=============================================================================
