-------------------------------- MODULE Relay --------------------------------
(***************************************************************************)
(* One proxied connection: the forwarding engine netfault::Relay           *)
(* (relay.hpp, relay.cpp) with the part of ProxyRuntime that drives it     *)
(* (proxy.cpp: socket_ready, pump_connection, refresh_or_close,            *)
(* schedule_relay_wake, process_due_timers, the closing loop of run()),    *)
(* between two kernel sockets whose peers act at any time.                 *)
(*                                                                         *)
(* A direction is named by its source: queue "Client" is                   *)
(* client_to_upstream_, queue "Upstream" is upstream_to_client_.  Bytes    *)
(* are counted, not carried (ByteQueue shows that content keeps its        *)
(* order); the delay line keeps one eligibility time per queued byte.      *)
(*                                                                         *)
(* A handler runs in steps, one per system call, so that the peers and the *)
(* kernel interleave with it; the event loop itself is sequential.  Each   *)
(* handler reads the clock once, on entry, so time passes between handlers.*)
(***************************************************************************)
EXTENDS Integers, Sequences, FiniteSets, Bags, TokenBucketOps

CONSTANTS
  Capacity,        \* buffer_bytes_per_direction
  Low, High,       \* low_water_bytes, high_water_bytes
  PreferredRelease,\* kPreferredReleaseBytes
  Latency, Jitter, \* FaultPlan::latency, jitter (0: disabled)
  FaultSources,    \* the directions FaultPlan::directions selects, by source
  ResetAfter,      \* reset_after_bytes (0: disabled)
  HalfCloseAfter,  \* half_close_after_bytes (0: disabled)
  SocketBuffer,    \* external: bytes a kernel socket buffer holds
  ClientBytes,     \* bound: bytes the client ever sends
  UpstreamBytes,   \* bound: bytes the upstream server ever sends
  ResetSources,    \* the peers that may reset their connection
  Interruptions,   \* the closes from outside the relay that may happen
  MaxTime          \* bound: the clock stops here

Sides == {"Client", "Upstream"}
Other(s) == IF s = "Client" THEN "Upstream" ELSE "Client"
PeerBytes(s) == IF s = "Client" THEN ClientBytes ELSE UpstreamBytes

\* The Relay and BackpressureTracker constructors, the Proxy constructor and
\* FaultPlan::validate reject anything else, with one exception: nothing bounds
\* the burst so that the bucket's products fit a word.  That is assumed.
ASSUME ConfigAssumption ==
  /\ Capacity \in Nat \ {0}
  /\ Low \in Nat /\ High \in Nat /\ Low < High /\ High <= Capacity
  /\ PreferredRelease \in Nat \ {0}
  /\ Latency \in Nat /\ Jitter \in Nat
  /\ Rate \in Nat /\ Burst \in Nat \ {0}
  /\ NanosPerSecond \in Nat \ {0} /\ Rate <= NanosPerSecond
  /\ WordSize \in Nat /\ Burst * NanosPerSecond + Rate + 2 * NanosPerSecond <= WordSize
  /\ FaultSources \subseteq Sides
  /\ ResetAfter \in Nat /\ HalfCloseAfter \in Nat
  /\ SocketBuffer \in Nat \ {0}
  /\ ClientBytes \in Nat /\ UpstreamBytes \in Nat
  /\ ResetSources \subseteq Sides
  /\ Interruptions \subseteq {"connect_timeout", "idle_timeout", "proxy_shutdown"}
  /\ MaxTime \in Nat

VARIABLES
  \* the relay
  upstream_connecting, read_open, write_open, half_close_injected,
  head, size,        \* per source: ByteQueue's head_ and size_
  read_paused,       \* per source: BackpressureTracker's read_paused_
  stamps,            \* per source: DelayLine, the eligibility of each queued byte
  last_eligible,     \* per source: DelayLine's last_eligible_
  bucket,            \* per source: TokenBucket
  bytes_read,        \* per source:      metrics_.client/upstream_bytes_read
  bytes_written,     \* per destination: metrics_.client/upstream_bytes_written
  \* the runtime's view of the connection
  interest,          \* per side: the mask last given to epoll_ctl
  scheduled_wake,    \* an optional time: a set with at most one element
  pump_timers,       \* the Pump entries of the timer heap: a bag of deadlines
  outcome,           \* "open", or the final state given to close_connection; the
                     \* reason "proxy_shutdown" for the fully_closed of a shutdown
  \* the event loop
  pc,                \* where the loop stands
  source, hint,      \* what is being handled: socket_ready's side and hint
  batch,             \* events returned by epoll_wait and not yet handled
  now,               \* the clock
  \* the kernel: what arrived from a peer, what it has yet to read
  link,              \* the upstream connect(): "pending", "up" or "refused"
  rcv, fin, err,     \* per side: unread bytes, FIN received, pending SO_ERROR
  sndq               \* per side: bytes sent that the peer has not read

queueVars  == <<head, size, read_paused, stamps, last_eligible, bucket>>
countVars  == <<bytes_read, bytes_written>>
flagVars   == <<upstream_connecting, read_open, write_open, half_close_injected>>
relayVars  == <<queueVars, countVars, flagVars>>
wakeVars   == <<interest, scheduled_wake, pump_timers>>
loopVars   == <<pc, source, hint, batch>>
kernelVars == <<link, rcv, fin, err, sndq>>
vars == <<relayVars, wakeVars, outcome, loopVars, now, kernelVars>>

Init ==
  /\ upstream_connecting \in BOOLEAN     \* connect() may succeed at once
  /\ link = IF upstream_connecting THEN "pending" ELSE "up"
  /\ read_open = [s \in Sides |-> TRUE]
  /\ write_open = [s \in Sides |-> TRUE]
  /\ half_close_injected = FALSE
  /\ head = [s \in Sides |-> 0]
  /\ size = [s \in Sides |-> 0]
  /\ read_paused = [s \in Sides |-> FALSE]
  /\ stamps = [s \in Sides |-> <<>>]
  /\ last_eligible = [s \in Sides |-> 0]
  /\ bucket = [s \in Sides |-> FullBucket(0)]
  /\ bytes_read = [s \in Sides |-> 0]
  /\ bytes_written = [s \in Sides |-> 0]
  /\ interest = [s \in Sides |-> IF s = "Upstream" /\ upstream_connecting
                                  THEN [read |-> FALSE, write |-> TRUE]
                                  ELSE [read |-> TRUE, write |-> FALSE]]
  /\ scheduled_wake = {}
  /\ pump_timers = EmptyBag
  /\ outcome = "open"
  /\ pc = "loop" /\ source = "none" /\ hint = FALSE /\ batch = {}
  /\ now = 0
  /\ rcv = [s \in Sides |-> 0]
  /\ fin = [s \in Sides |-> FALSE]
  /\ err = [s \in Sides |-> "none"]
  /\ sndq = [s \in Sides |-> 0]
-----------------------------------------------------------------------------
(* Fault channels: which ones the constructor creates, what they allow.    *)

HasDelay(s)  == s \in FaultSources /\ (Latency > 0 \/ Jitter > 0)
HasBucket(s) == s \in FaultSources /\ Rate > 0

\* DelayLine::releasable: queued bytes at the front that are eligible.
Releasable(s) ==
  IF HasDelay(s)
  THEN Cardinality({i \in 1 .. Len(stamps[s]) : \A j \in 1 .. i : stamps[s][j] <= now})
  ELSE size[s]

\* release_quantum
ReleaseQuantum(bytes) == Lesser(Lesser(bytes, Burst), PreferredRelease)

\* Relay::fault_sendable: how many of the first `limit` bytes may go now.
FaultSendable(s, limit) ==
  LET eligible  == Lesser(limit, Releasable(s))
      available == Refill(bucket[s], now).tokens
  IN  IF ~HasBucket(s) THEN eligible
      ELSE IF available < ReleaseQuantum(eligible) THEN 0
      ELSE Lesser(eligible, available)

\* The refill that fault_sendable and next_wake perform on the way.
Refilled(s) == IF HasBucket(s) THEN Refill(bucket[s], now) ELSE bucket[s]

\* The destination takes bytes at all: the guard of flush and of next_wake.
Writable(d) == write_open[d] /\ ~(d = "Upstream" /\ upstream_connecting)

\* Mutant: next_wake does not ask whether the bytes can go already.
NextWakeUnchecked(d) ==
  IF ~Writable(d) \/ size[Other(d)] = 0 \/ ~HasBucket(Other(d)) THEN {}
  ELSE IF Releasable(Other(d)) = 0 THEN {stamps[Other(d)][1]}
  ELSE {EligibleAt(bucket[Other(d)], ReleaseQuantum(Releasable(Other(d))), now)}

\* Relay::next_wake: when a destination blocked on time could progress.
NextWake(d) ==
  LET s == Other(d)
  IN  IF \/ ~Writable(d) \/ size[s] = 0
         \/ FaultSendable(s, size[s]) > 0
      THEN {}
      ELSE IF Releasable(s) = 0 THEN {stamps[s][1]}
      ELSE {EligibleAt(bucket[s], ReleaseQuantum(Releasable(s)), now)}

\* Relay::desired_interest
DesiredInterest(s) ==
  IF s = "Upstream" /\ upstream_connecting THEN [read |-> FALSE, write |-> TRUE]
  ELSE [read  |-> read_open[s] /\ ~read_paused[s],
        write |-> /\ write_open[s] /\ size[Other(s)] > 0
                  /\ FaultSendable(Other(s), size[Other(s)]) > 0]

\* Mutant: an ended client counts as both ended.
ConnectionStateClientOnly ==
  IF upstream_connecting THEN "connecting_upstream"
  ELSE IF ~read_open["Client"] THEN "draining"
  ELSE IF ~read_open["Upstream"] THEN "upstream_read_closed" ELSE "active"

\* derive_connection_state: every change of the flags is followed by
\* refresh_state, so state_ is a function of them.
ConnectionState ==
  CASE upstream_connecting                                -> "connecting_upstream"
    [] ~upstream_connecting /\ \A s \in Sides : read_open[s]  -> "active"
    [] ~upstream_connecting /\ \A s \in Sides : ~read_open[s] -> "draining"
    [] OTHER -> IF read_open["Client"] THEN "upstream_read_closed" ELSE "client_read_closed"

\* Mutant: both sources ended counts as drained, whatever is queued.
FullyDrainedEarly == \A s \in Sides : ~read_open[s]

\* Relay::fully_drained
FullyDrained ==
  \A s \in Sides : ~read_open[s] /\ (size[s] = 0 \/ ~write_open[Other(s)])

\* ByteQueue::writable_span, cut at the high-water mark by handle_readable.
WritableSpan(s) ==
  LET tail == (head[s] + size[s]) % Capacity
  IN  Lesser(Lesser(Capacity - size[s], Capacity - tail), High - size[s])

\* ByteQueue::readable_span
ReadableSpan(s) == Lesser(size[s], Capacity - head[s])

\* Mutant: the ring's head is not wrapped.
AdvanceUnwrapped(h, bytes, left) == IF left = 0 THEN 0 ELSE h + bytes

\* ByteQueue::consume: the head moves on; an empty queue starts over at 0.
Advance(h, bytes, left) == IF left = 0 THEN 0 ELSE (h + bytes) % Capacity

\* Mutant: reads, once paused, never resume.
ObserveForever(paused, occupancy) == paused \/ occupancy >= High

\* Mutant: reads pause only above the high-water mark.
ObserveLate(paused, occupancy) ==
  IF paused THEN occupancy > Low ELSE occupancy > High

\* BackpressureTracker::observe, the part that decides read_paused_.
Observe(paused, occupancy) ==
  IF paused THEN occupancy > Low ELSE occupancy >= High
-----------------------------------------------------------------------------
(* The kernel and the peers: external, they act whenever they can.         *)

Established(s) == s = "Client" \/ link = "up"
PeerActive(s)  == outcome = "open" /\ Established(s) /\ err[s] = "none"

PeerSend(s) ==
  /\ PeerActive(s) /\ ~fin[s]
  /\ rcv[s] < SocketBuffer /\ bytes_read[s] + rcv[s] < PeerBytes(s)
  /\ rcv' = [rcv EXCEPT ![s] = @ + 1]
  /\ UNCHANGED <<relayVars, wakeVars, outcome, loopVars, now, link, fin, err, sndq>>

PeerShutdown(s) ==
  /\ PeerActive(s) /\ ~fin[s]
  /\ fin' = [fin EXCEPT ![s] = TRUE]
  /\ UNCHANGED <<relayVars, wakeVars, outcome, loopVars, now, link, rcv, err, sndq>>

PeerRead(s) ==
  /\ PeerActive(s) /\ sndq[s] > 0
  /\ sndq' = [sndq EXCEPT ![s] = @ - 1]
  /\ UNCHANGED <<relayVars, wakeVars, outcome, loopVars, now, link, rcv, fin, err>>

\* An RST: SO_ERROR becomes EPIPE in CLOSE_WAIT, else ECONNRESET; a socket
\* closed in both directions no longer notices.
PeerReset(s) ==
  /\ s \in ResetSources /\ PeerActive(s) /\ (write_open[s] \/ ~fin[s])
  /\ err' = [err EXCEPT ![s] = IF fin[s] THEN "EPIPE" ELSE "ECONNRESET"]
  /\ UNCHANGED <<relayVars, wakeVars, outcome, loopVars, now, link, rcv, fin, sndq>>

ConnectCompletes ==
  /\ outcome = "open" /\ link = "pending"
  /\ link' \in {"up", "refused"}
  /\ UNCHANGED <<relayVars, wakeVars, outcome, loopVars, now, rcv, fin, err, sndq>>

Tick ==
  /\ pc = "loop" /\ now < MaxTime
  /\ now' = now + 1
  /\ UNCHANGED <<relayVars, wakeVars, outcome, loopVars, kernelVars>>

\* The level-triggered conditions poll reports for a socket.
Dead(s) == err[s] # "none" \/ (s = "Upstream" /\ link = "refused")
Conditions(s) ==
  IF ~Established(s) /\ ~Dead(s) THEN {}
  ELSE (IF Dead(s) THEN {"ERR"} ELSE {})
       \cup (IF Dead(s) \/ (fin[s] /\ ~write_open[s]) THEN {"HUP"} ELSE {})
       \cup (IF Dead(s) \/ fin[s] THEN {"RDHUP"} ELSE {})
       \cup (IF Dead(s) \/ fin[s] \/ rcv[s] > 0 THEN {"IN"} ELSE {})
       \cup (IF Dead(s) \/ ~write_open[s] \/ sndq[s] < SocketBuffer THEN {"OUT"} ELSE {})

\* Mutant: RDHUP stays requested while reads are paused.
MaskAlwaysRdhup(s) ==
  {"ERR", "HUP", "RDHUP"} \cup (IF interest[s].read THEN {"IN"} ELSE {})
                          \cup (IF interest[s].write THEN {"OUT"} ELSE {})

\* to_epoll_mask: ERR and HUP are reported whether or not they are asked for.
Mask(s) ==
  {"ERR", "HUP"} \cup (IF interest[s].read THEN {"IN", "RDHUP"} ELSE {})
                 \cup (IF interest[s].write THEN {"OUT"} ELSE {})

Reported(s) == Conditions(s) \cap Mask(s)

\* The timerfd is armed for the earliest entry of the heap.
TimerDue == \E d \in BagToSet(pump_timers) : d <= now

ReadyEvents ==
  {[source |-> s, events |-> Reported(s)] : s \in {r \in Sides : Reported(r) # {}}}
    \cup (IF TimerDue THEN {[source |-> "Timer", events |-> {"IN"}]} ELSE {})
-----------------------------------------------------------------------------
(* ProxyRuntime::run: wait for events, handle each of the batch.           *)

EpollWait ==
  /\ pc = "loop" /\ outcome = "open" /\ batch = {}
  /\ ReadyEvents # {}
  /\ batch' = ReadyEvents
  /\ UNCHANGED <<relayVars, wakeVars, outcome, pc, source, hint, now, kernelVars>>

\* close_connection: nothing of this connection is handled any more.
Close(final) ==
  /\ outcome' = final
  /\ pc' = "closed" /\ source' = "none" /\ hint' = FALSE /\ batch' = {}

\* pump_connection skips the flushes of a connection still connecting.
EnterPump(connecting) == pc' = IF connecting THEN "finish" ELSE "flush_upstream"

\* socket_ready up to handle_readable, for one event of the batch.
ConnectEnds(e) == e.source = "Upstream" /\ upstream_connecting /\ "OUT" \in e.events

ConnectFailed(e) ==
  /\ ConnectEnds(e) /\ Dead("Upstream")
  /\ Close("failed")
  /\ UNCHANGED <<relayVars, wakeVars, now, kernelVars>>

SocketFailed(e) ==
  /\ "ERR" \in e.events /\ err[e.source] # "none"
  /\ ~upstream_connecting
  /\ Close(IF err[e.source] = "ECONNRESET" THEN "reset" ELSE "failed")
  /\ UNCHANGED <<relayVars, wakeVars, now, kernelVars>>

SocketUsable(e) ==
  LET connecting == upstream_connecting /\ ~ConnectEnds(e)
      readable == /\ e.events \cap {"IN", "RDHUP", "HUP"} # {}
                  /\ ~(e.source = "Upstream" /\ connecting)
  IN  /\ ~(ConnectEnds(e) /\ Dead("Upstream"))
      /\ ~("ERR" \in e.events /\ err[e.source] # "none" /\ ~connecting)
      /\ upstream_connecting' = connecting
      /\ IF readable
         THEN /\ pc' = "read" /\ source' = e.source
              /\ hint' = (e.events \cap {"RDHUP", "HUP"} # {})
         ELSE EnterPump(connecting) /\ UNCHANGED <<source, hint>>
      /\ batch' = batch \ {e}
      /\ UNCHANGED <<queueVars, countVars, read_open, write_open, half_close_injected,
                     wakeVars, outcome, now, kernelVars>>

SocketReady(e) ==
  /\ pc = "loop" /\ e \in batch /\ e.source \in Sides
  /\ ConnectFailed(e) \/ SocketFailed(e) \/ SocketUsable(e)
-----------------------------------------------------------------------------
(* Relay::handle_readable: one step per recv().                            *)

Reading == pc = "read" /\ read_open[source] /\ ~read_paused[source]

LeaveReading ==
  /\ EnterPump(upstream_connecting)
  /\ source' = "none" /\ hint' = FALSE

\* Mutant: jitter may make a segment eligible before its predecessor.
EligibleUnclamped(s, jitter) == now + (IF Latency + jitter < 0 THEN 0 ELSE Latency + jitter)

\* stamp_ingress and DelayLine::on_commit, for a sampled jitter: delays are
\* never negative, and eligibility never decreases along the stream.
Eligible(s, jitter) ==
  LET delay == IF Latency + jitter < 0 THEN 0 ELSE Latency + jitter
  IN  IF now + delay < last_eligible[s] THEN last_eligible[s] ELSE now + delay

StampIngress(s, bytes) ==
  IF HasDelay(s)
  THEN \E jitter \in -Jitter .. Jitter :
          /\ last_eligible' = [last_eligible EXCEPT ![s] = Eligible(s, jitter)]
          /\ stamps' = [stamps EXCEPT ![s] =
                          @ \o [i \in 1 .. bytes |-> Eligible(s, jitter)]]
  ELSE UNCHANGED <<last_eligible, stamps>>

\* SystemSocketIo::receive: what recv() into the writable span comes to.  An
\* empty span reads as an end of stream.
Receive(s) ==
  CASE WritableSpan(s) = 0                           -> "PeerClosed"
    [] WritableSpan(s) > 0 /\ rcv[s] > 0             -> "Transferred"
    [] WritableSpan(s) > 0 /\ rcv[s] = 0 /\ fin[s]   -> "PeerClosed"
    [] OTHER -> IF err[s] = "none" THEN "WouldBlock" ELSE "Error"

ReceiveBytes(bytes) ==
  /\ Reading /\ Receive(source) = "Transferred"
  /\ bytes <= WritableSpan(source) /\ bytes <= rcv[source]
  /\ rcv' = [rcv EXCEPT ![source] = @ - bytes]
  /\ size' = [size EXCEPT ![source] = @ + bytes]
  /\ StampIngress(source, bytes)
  /\ bytes_read' = [bytes_read EXCEPT ![source] = @ + bytes]
  /\ read_paused' = [read_paused EXCEPT ![source] = Observe(@, size'[source])]
  /\ UNCHANGED <<head, bucket, bytes_written, flagVars, wakeVars, outcome, loopVars,
                 now, link, fin, err, sndq>>

NoteHalfClosed == read_open' = [read_open EXCEPT ![source] = FALSE]

ReceiveEof ==
  /\ Reading /\ Receive(source) = "PeerClosed"
  /\ NoteHalfClosed
  /\ LeaveReading
  /\ UNCHANGED <<queueVars, countVars, upstream_connecting, write_open,
                 half_close_injected, wakeVars, outcome, batch, now, kernelVars>>

ReceiveWouldBlock ==
  /\ Reading /\ Receive(source) = "WouldBlock"
  /\ IF hint THEN NoteHalfClosed ELSE UNCHANGED read_open
  /\ LeaveReading
  /\ UNCHANGED <<queueVars, countVars, upstream_connecting, write_open,
                 half_close_injected, wakeVars, outcome, batch, now, kernelVars>>

\* close_for_error: ECONNRESET and EPIPE both count as a reset.
ReceiveError ==
  /\ Reading /\ Receive(source) = "Error"
  /\ Close("reset")
  /\ UNCHANGED <<relayVars, wakeVars, now, kernelVars>>

\* Reads are paused or the source has ended: nothing is received.
StopReading ==
  /\ pc = "read" /\ ~Reading
  /\ LeaveReading
  /\ UNCHANGED <<relayVars, wakeVars, outcome, batch, now, kernelVars>>
-----------------------------------------------------------------------------
(* Relay::flush: one step per send(), then check_lifecycle_faults.         *)

Destination == IF pc = "flush_upstream" THEN "Upstream" ELSE "Client"
Flushing == pc \in {"flush_upstream", "flush_client"}
Budget(s) == IF size[s] = 0 THEN 0 ELSE FaultSendable(s, ReadableSpan(s))
LeaveFlush == pc' = IF pc = "flush_upstream" THEN "flush_client" ELSE "finish"

\* Mutant: only a complete write is charged to the bucket.
ChargedWhenComplete(s, bytes) ==
  IF HasBucket(s) /\ bytes = Budget(s) THEN Take(Refilled(s), bytes) ELSE Refilled(s)

\* The bucket after fault_sendable and, for the bytes sent, consume.
Charged(s, bytes) == IF HasBucket(s) THEN Take(Refilled(s), bytes) ELSE bucket[s]

\* Mutant: the bytes offered to send() are counted, not the bytes it took.
CountWrittenBudget(d, bytes) ==
  bytes_written' = [bytes_written EXCEPT ![d] = @ + Budget(Other(d))]

CountWritten(d, bytes) == bytes_written' = [bytes_written EXCEPT ![d] = @ + bytes]

\* SystemSocketIo::send: what send() comes to when there is something to send.
Send(d) ==
  IF err[d] # "none" THEN "Error"
  ELSE IF sndq[d] < SocketBuffer THEN "Transferred" ELSE "WouldBlock"

SendBytes(bytes) ==
  LET d == Destination
      s == Other(d)
  IN  /\ Flushing /\ Writable(d)
      /\ Send(d) = "Transferred"
      /\ bytes <= Budget(s) /\ bytes <= SocketBuffer - sndq[d]
      /\ sndq' = [sndq EXCEPT ![d] = @ + bytes]
      /\ size' = [size EXCEPT ![s] = @ - bytes]
      /\ head' = [head EXCEPT ![s] = Advance(@, bytes, size'[s])]
      /\ stamps' = [stamps EXCEPT ![s] =
                      IF HasDelay(s) THEN SubSeq(@, bytes + 1, Len(@)) ELSE @]
      /\ bucket' = [bucket EXCEPT ![s] = Charged(s, bytes)]
      /\ CountWritten(d, bytes)
      /\ read_paused' = [read_paused EXCEPT ![s] = Observe(@, size'[s])]
      /\ UNCHANGED <<last_eligible, bytes_read, flagVars, wakeVars, outcome, loopVars, now,
                     link, rcv, fin, err>>

SendError ==
  /\ Flushing /\ Writable(Destination)
  /\ Budget(Other(Destination)) > 0 /\ Send(Destination) = "Error"
  /\ Close("reset")
  /\ UNCHANGED <<relayVars, wakeVars, now, kernelVars>>

\* The destination cannot be written: flush returns before the fault check.
SkipFlush ==
  /\ Flushing /\ ~Writable(Destination)
  /\ LeaveFlush
  /\ UNCHANGED <<relayVars, wakeVars, outcome, source, hint, batch, now, kernelVars>>

InjectsHalfClose ==
  /\ HalfCloseAfter > 0 /\ ~half_close_injected /\ write_open["Client"]
  /\ bytes_written["Client"] >= HalfCloseAfter

\* Mutant: the reset budget counts the bytes of one direction only.
InjectsResetOneWay == ResetAfter > 0 /\ bytes_written["Client"] >= ResetAfter

InjectsReset ==
  ResetAfter > 0 /\ bytes_written["Client"] + bytes_written["Upstream"] >= ResetAfter

\* The queue is empty, the fault budget is spent or send() would block.
EndFlush ==
  LET d == Destination
      s == Other(d)
  IN  /\ Flushing /\ Writable(d)
      /\ Budget(s) = 0 \/ Send(d) = "WouldBlock"
      /\ bucket' = [bucket EXCEPT ![s] = IF size[s] > 0 THEN Refilled(s) ELSE @]
      /\ half_close_injected' = (half_close_injected \/ InjectsHalfClose)
      /\ write_open' = [write_open EXCEPT !["Client"] = @ /\ ~InjectsHalfClose]
      /\ IF InjectsReset THEN Close("reset")
         ELSE LeaveFlush /\ UNCHANGED <<outcome, source, hint, batch>>
      /\ UNCHANGED <<head, size, read_paused, stamps, last_eligible, countVars,
                     upstream_connecting, read_open, wakeVars, now, kernelVars>>
-----------------------------------------------------------------------------
(* The end of pump_connection, and the timers.                             *)

\* Mutant: a half-close overtakes the bytes queued before it.
PropagateHalfClosesEarly ==
  write_open' = [d \in Sides |-> write_open[d] /\ ~(Writable(d) /\ ~read_open[Other(d)])]

\* Relay::propagate_half_closes
PropagateHalfCloses ==
  write_open' = [d \in Sides |->
    write_open[d] /\ ~(Writable(d) /\ ~read_open[Other(d)] /\ size[Other(d)] = 0)]

\* schedule_relay_wake: only a wake earlier than the scheduled one is added.
ScheduleRelayWake ==
  LET wakes == NextWake("Upstream")' \cup NextWake("Client")'
      wake  == CHOOSE w \in wakes : \A v \in wakes : w <= v
  IN  IF wakes # {} /\ \A w \in scheduled_wake : wake < w
      THEN /\ pump_timers' = pump_timers (+) SetToBag({wake})
           /\ scheduled_wake' = {wake}
      ELSE UNCHANGED <<pump_timers, scheduled_wake>>

\* desired_interest and next_wake refill the bucket of every queue they ask.
FinishPump ==
  /\ pc = "finish"
  /\ PropagateHalfCloses
  /\ UNCHANGED <<head, size, read_paused, stamps, last_eligible, countVars,
                 upstream_connecting, read_open, half_close_injected, now, kernelVars>>
  /\ \/ /\ FullyDrained'
        /\ Close("fully_closed")
        /\ UNCHANGED <<bucket, wakeVars>>
     \/ /\ ~FullyDrained'
        /\ bucket' = [s \in Sides |-> IF Writable(Other(s))' /\ size[s] > 0
                                      THEN Refilled(s) ELSE bucket[s]]
        /\ interest' = [s \in Sides |-> DesiredInterest(s)']
        /\ ScheduleRelayWake
        /\ pc' = IF source = "Timer" THEN "timers" ELSE "loop"
        /\ UNCHANGED <<outcome, source, hint, batch>>

\* process_due_timers: pop what is due, pumping the connection for each entry.
TimerFired(e) ==
  /\ pc = "loop" /\ e \in batch /\ e.source = "Timer"
  /\ pc' = "timers" /\ source' = "Timer"
  /\ batch' = batch \ {e}
  /\ UNCHANGED <<relayVars, wakeVars, outcome, hint, now, kernelVars>>

\* Mutant: the consumed wake stays recorded as scheduled.
PopDueKeepsWake ==
  /\ pc = "timers"
  /\ \E d \in BagToSet(pump_timers) :
        /\ d <= now /\ \A other \in BagToSet(pump_timers) : d <= other
        /\ pump_timers' = pump_timers (-) SetToBag({d})
  /\ EnterPump(upstream_connecting)
  /\ UNCHANGED <<relayVars, interest, scheduled_wake, outcome, source, hint, batch, now,
                 kernelVars>>

\* pop_due and the Pump case for the popped entry.
PopDue ==
  /\ pc = "timers"
  /\ \E d \in BagToSet(pump_timers) :
        /\ d <= now /\ \A other \in BagToSet(pump_timers) : d <= other
        /\ pump_timers' = pump_timers (-) SetToBag({d})
  /\ scheduled_wake' = {w \in scheduled_wake : w > now}
  /\ EnterPump(upstream_connecting)
  /\ UNCHANGED <<relayVars, interest, outcome, source, hint, batch, now, kernelVars>>

TimersDone ==
  /\ pc = "timers" /\ ~TimerDue
  /\ pc' = "loop" /\ source' = "none"
  /\ UNCHANGED <<relayVars, wakeVars, outcome, hint, batch, now, kernelVars>>
-----------------------------------------------------------------------------
(* The closes that do not come from the relay.  When a timeout is due and  *)
(* when the proxy stops is ProxyRuntime's matter: here, at any time.       *)

\* process_due_timers, the ConnectTimeout and IdleTimeout cases that close.
TimedOut ==
  /\ pc \in {"loop", "timers"} /\ outcome = "open"
  /\ \/ "connect_timeout" \in Interruptions /\ upstream_connecting
     \/ "idle_timeout" \in Interruptions
  /\ Close("timed_out")
  /\ UNCHANGED <<relayVars, wakeVars, now, kernelVars>>

\* run, after its loop: what is still connected is closed as it stands.
ProxyShutdown ==
  /\ pc = "loop" /\ outcome = "open" /\ "proxy_shutdown" \in Interruptions
  /\ Close("proxy_shutdown")
  /\ UNCHANGED <<relayVars, wakeVars, now, kernelVars>>

Interrupt == TimedOut \/ ProxyShutdown
-----------------------------------------------------------------------------
Peers ==
  \/ \E s \in Sides : PeerSend(s) \/ PeerShutdown(s) \/ PeerRead(s) \/ PeerReset(s)
  \/ ConnectCompletes

Loop ==
  \/ EpollWait
  \/ \E e \in batch : SocketReady(e) \/ TimerFired(e)
  \/ \E bytes \in 1 .. Capacity : ReceiveBytes(bytes) \/ SendBytes(bytes)
  \/ ReceiveEof \/ ReceiveWouldBlock \/ ReceiveError \/ StopReading
  \/ SendError \/ SkipFlush \/ EndFlush
  \/ FinishPump \/ PopDue \/ TimersDone

Next == Peers \/ Loop \/ Interrupt \/ Tick

Spec == Init /\ [][Next]_vars

\* The process keeps running, the clock advances, a connect() ends and the
\* peers read what reaches them; nobody is obliged to send, to shut down or to
\* interrupt the connection.
Fairness ==
  /\ WF_vars(Loop) /\ WF_vars(Tick) /\ WF_vars(ConnectCompletes)
  /\ \A s \in Sides : WF_vars(PeerRead(s))

FairSpec == Spec /\ Fairness
-----------------------------------------------------------------------------
Outcomes == {"open", "fully_closed", "reset", "failed", "timed_out", "proxy_shutdown"}
Steps == {"loop", "read", "flush_upstream", "flush_client", "finish", "timers", "closed"}
Flags == {"IN", "OUT", "ERR", "HUP", "RDHUP"}

\* The types; the queue's indices are those of ByteQueue.
TypeOK ==
  /\ upstream_connecting \in BOOLEAN /\ half_close_injected \in BOOLEAN
  /\ read_open \in [Sides -> BOOLEAN] /\ write_open \in [Sides -> BOOLEAN]
  /\ head \in [Sides -> 0 .. Capacity - 1] /\ size \in [Sides -> 0 .. Capacity]
  /\ read_paused \in [Sides -> BOOLEAN]
  /\ stamps \in [Sides -> Seq(Nat)] /\ last_eligible \in [Sides -> Nat]
  /\ bucket \in [Sides -> [tokens : 0 .. Burst, carry : 0 .. NanosPerSecond - 1, last : Nat]]
  /\ bytes_read \in [Sides -> Nat] /\ bytes_written \in [Sides -> Nat]
  /\ interest \in [Sides -> [read : BOOLEAN, write : BOOLEAN]]
  /\ outcome \in Outcomes /\ pc \in Steps /\ source \in Sides \cup {"Timer", "none"}
  /\ (pc = "read" => source \in Sides)
  /\ hint \in BOOLEAN /\ now \in Nat
  /\ \A e \in batch : e.source \in Sides \cup {"Timer"} /\ e.events \subseteq Flags
  /\ link \in {"pending", "up", "refused"}
  /\ rcv \in [Sides -> 0 .. SocketBuffer] /\ sndq \in [Sides -> 0 .. SocketBuffer]
  /\ fin \in [Sides -> BOOLEAN] /\ err \in [Sides -> {"none", "ECONNRESET", "EPIPE"}]

\* Reads are paused exactly between the watermarks' crossings, so a read always
\* has room: recv() is never given an empty buffer, whose 0 would pass for EOF.
Watermarks ==
  \A s \in Sides : IF read_paused[s] THEN size[s] > Low /\ size[s] <= High
                                     ELSE size[s] < High

\* No byte is lost or duplicated between the two sockets: what was read and not
\* written is in the queue.
Accounting ==
  \A s \in Sides : bytes_read[s] = bytes_written[Other(s)] + size[s]

\* A destination is shut down only when its source has ended and every byte the
\* source ever sent was written to it, or when the half-close fault says so.
EofIsFaithful ==
  \A d \in Sides :
     ~write_open[d] /\ ~(d = "Client" /\ half_close_injected)
       => fin[Other(d)] /\ rcv[Other(d)] = 0 /\ bytes_written[d] = bytes_read[Other(d)]

\* An orderly close leaves nothing behind: both peers ended, everything they
\* sent was read and, unless the half-close fault cut it off, written.
OrderlyCloseIsComplete ==
  outcome = "fully_closed" =>
    \A s \in Sides :
       /\ fin[s] /\ rcv[s] = 0
       /\ \/ bytes_written[Other(s)] = bytes_read[s]
          \/ s = "Upstream" /\ half_close_injected

Waiting == pc = "loop" /\ batch = {}

\* When epoll_wait has nothing to report, every source that may be read is
\* watched, and every byte held back has something that will wake the loop for
\* it: writability of its socket, or a timer.  A byte the fault channel already
\* allows waits for no timer further away than it takes to earn one byte.
NoLostWakeup ==
  Waiting /\ outcome = "open" /\ ReadyEvents = {} =>
    /\ \A s \in Sides :
          read_open[s] /\ ~read_paused[s] /\ ~(s = "Upstream" /\ upstream_connecting)
            => interest[s].read
    /\ \A d \in Sides :
          Writable(d) /\ size[Other(d)] > 0 =>
            \/ interest[d].write /\ sndq[d] = SocketBuffer
            \/ \E w \in BagToSet(pump_timers) :
                  FaultSendable(Other(d), size[Other(d)]) > 0 => w <= now + EarnTime(1)

\* Handling what epoll reports for a socket changes something: it completes the
\* connect, closes the connection, receives, sends or corrects a stale mask.
Acts(s) ==
  LET e == Reported(s)
      connecting == s = "Upstream" /\ upstream_connecting
  IN  \/ connecting /\ "OUT" \in e
      \/ "ERR" \in e /\ err[s] # "none" /\ ~upstream_connecting
      \/ /\ e \cap {"IN", "RDHUP", "HUP"} # {}
         /\ ~connecting /\ read_open[s] /\ ~read_paused[s]
      \/ "OUT" \in e /\ Writable(s) /\ Budget(Other(s)) > 0
      \/ DesiredInterest(s) # interest[s]

\* The events the proxy asks for (IN, RDHUP, OUT) never wake it in vain.
RequestedReadinessActs ==
  Waiting /\ outcome = "open" =>
    \A s \in Sides : Reported(s) \cap {"IN", "RDHUP", "OUT"} # {} => Acts(s)

\* tests/integration/milestone5_spin.py:2, "the event loop must idle, not spin":
\* no level-triggered event is reported over and over without being acted on.
NeverSpins ==
  Waiting /\ outcome = "open" => \A s \in Sides : Reported(s) # {} => Acts(s)

\* The delay line and the queue hold the same bytes; eligibility never decreases
\* along the stream, and no byte is held beyond the latency and the jitter.
DelayLineInStep ==
  \A s \in Sides : HasDelay(s) =>
    /\ Len(stamps[s]) = size[s]
    /\ \A i, j \in 1 .. Len(stamps[s]) : i <= j => stamps[s][i] <= stamps[s][j]
    /\ \A i \in 1 .. Len(stamps[s]) : /\ stamps[s][i] <= last_eligible[s]
                                      /\ stamps[s][i] <= now + Latency + Jitter

\* However reads, partial writes and wakes fall, a throttled destination never
\* gets more than one burst and what the rate earned since the start.
RateRespected ==
  \A d \in Sides : HasBucket(Other(d)) =>
    bytes_written[d] * NanosPerSecond <= Burst * NanosPerSecond + Rate * now

\* The byte budgets of the lifecycle faults never pass unnoticed: the loop does
\* not wait with a budget exceeded and the fault not injected.
BudgetsTrigger ==
  pc = "loop" =>
    /\ ResetAfter > 0 => bytes_written["Client"] + bytes_written["Upstream"] < ResetAfter
    /\ HalfCloseAfter > 0 /\ bytes_written["Client"] >= HalfCloseAfter
         => ~write_open["Client"]

\* The state reported for the connection: Relay::state() while it is open, then
\* the final state given to close_connection.
ReportedState ==
  CASE outcome = "open" -> ConnectionState
    [] outcome = "proxy_shutdown" -> "fully_closed"
    [] OTHER -> outcome

\* Where an open connection may go while it stays open.  A client that ends
\* while the upstream connects skips "active".
OpenSuccessors(state) ==
  CASE state = "connecting_upstream" -> {"active", "client_read_closed"}
    [] state = "active" -> {"client_read_closed", "upstream_read_closed"}
    [] state \in {"client_read_closed", "upstream_read_closed"} -> {"draining"}
    [] OTHER -> {}

\* The state reported for a connection only moves forward, whichever socket,
\* timer or fault moves it: nothing is reported after a close, an open state is
\* never revisited, and the relay's own orderly close comes from "draining".  A
\* reset, a failure, a timeout or a shutdown may end it in any state, which is
\* more than the arrows of docs/milestone-0-design.md:70-86 allow.
LifecycleAdvances ==
  [][ReportedState' # ReportedState =>
       /\ outcome = "open"
       /\ outcome' = "open" => ReportedState' \in OpenSuccessors(ReportedState)
       /\ outcome' = "fully_closed" => ReportedState = "draining"]_vars

\* How often a deadline is in the heap.
Entries(w, timers) == IF BagIn(w, timers) THEN timers[w] ELSE 0

\* process_due_timers ends: a wake scheduled by a pump is always in the future,
\* so popping what is due at one instant does not feed itself.
WakesAreAhead ==
  [][\A w \in BagToSet(pump_timers') :
        Entries(w, pump_timers') > Entries(w, pump_timers) => w > now]_vars

\* docs/milestone-3-report.md:32, a Pump entry is "deduplicated per connection
\* so repeated pumps cannot flood the heap": no deadline is entered twice.
WakesAreDeduplicated ==
  \A w \in BagToSet(pump_timers) : Entries(w, pump_timers) = 1

BothEnded == \A s \in Sides : fin[s]

\* Reads from upstream paused by a queue the injected half-close will not drain.
Wedged == half_close_injected /\ read_paused["Upstream"]

\* Once both peers have ended and keep reading, the connection closes, whatever
\* faults are injected: InjectedHalfCloseDrains fails for one reason only.
DrainsToClose == BothEnded ~> outcome # "open" \/ Wedged

\* docs/milestone-3-report.md:52, after an injected half-close the "connection
\* still drains to an orderly close" once both peers have ended.
InjectedHalfCloseDrains == half_close_injected /\ BothEnded ~> outcome # "open"
=============================================================================
