------------------------------ MODULE ByteQueue ------------------------------
(***************************************************************************)
(* netfault::ByteQueue (byte_queue.hpp): the ring buffer of one direction, *)
(* used as Relay::handle_readable and Relay::flush use it: bytes are       *)
(* received into the writable span and committed, or sent from the         *)
(* readable span and consumed.  Cell 0 .. Capacity - 1 is storage_'s index.*)
(* DelayedQueue drives it together with the delay line.                    *)
(***************************************************************************)
EXTENDS Integers, Sequences

CONSTANTS
  Capacity,  \* capacity_, not 0: the constructor rejects it
  Bytes      \* the values of a byte, 0 among them

VARIABLES
  storage, head, size, high_water_mark,
  taken      \* history: the bytes the last operation sent

vars == <<storage, head, size, high_water_mark, taken>>

Init ==
  /\ storage = [i \in 0 .. Capacity - 1 |-> 0]
  /\ head = 0 /\ size = 0 /\ high_water_mark = 0
  /\ taken = <<>>

Smaller(a, b) == IF a <= b THEN a ELSE b

\* Mutant: the tail is taken as if the queued bytes began at cell 0.
WritableSpanFromZero ==
  IF size = Capacity THEN [first |-> 0, length |-> 0]
  ELSE [first |-> size, length |-> Capacity - size]

\* writable_span: the free cells from the tail up to the end of the storage.
WritableSpan ==
  IF size = Capacity THEN [first |-> 0, length |-> 0]
  ELSE LET tail == (head + size) % Capacity
       IN  [first |-> tail, length |-> Smaller(Capacity - size, Capacity - tail)]

\* Mutant: the readable span stops one cell before the end of the storage.
ReadableSpanShort == [first |-> head, length |-> Smaller(size, Capacity - head - 1)]

\* readable_span: the queued cells up to the end of the storage.
ReadableSpan ==
  IF size = 0 THEN [first |-> 0, length |-> 0]
  ELSE [first |-> head, length |-> Smaller(size, Capacity - head)]

\* recv() fills the front of the writable span, commit_write accounts for it.
CommitWrite(data) ==
  LET span  == WritableSpan
      count == Len(data)
  IN  /\ count <= span.length
      /\ storage' = [i \in 0 .. Capacity - 1 |->
                       IF i \in span.first .. span.first + count - 1
                       THEN data[i - span.first + 1] ELSE storage[i]]
      /\ size' = size + count
      /\ high_water_mark' = IF size' > high_water_mark THEN size' ELSE high_water_mark
      /\ taken' = <<>>
      /\ UNCHANGED head

\* send() takes the front of the readable span, consume releases it.
Consume(count) ==
  /\ count <= ReadableSpan.length
  /\ taken' = [i \in 1 .. count |-> storage[ReadableSpan.first + i - 1]]
  /\ size' = size - count
  /\ head' = IF size' = 0 THEN 0 ELSE (head + count) % Capacity
  /\ UNCHANGED <<storage, high_water_mark>>
-----------------------------------------------------------------------------
\* A queue that is not full can always be written and one that is not empty can
\* always be read, wherever the ring wraps: no empty span but at the limits.
SpansMakeProgress ==
  /\ WritableSpan.length > 0 <=> size < Capacity
  /\ ReadableSpan.length > 0 <=> size > 0

\* The queued bytes, in stream order.
Queued == [i \in 1 .. size |-> storage[(head + i - 1) % Capacity]]
=============================================================================
