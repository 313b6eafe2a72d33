----------------------------- MODULE RelayProofs -----------------------------
(***************************************************************************)
(* One connection, for every buffer size, watermark, fault plan and        *)
(* behaviour of the peers: the queue is bounded and hysteretic, no byte is *)
(* lost, and an end of stream is forwarded only after all of its bytes.    *)
(* Then the connection's lifecycle and the lifecycle faults.               *)
(***************************************************************************)
EXTENDS Relay, TokenBucketLemmas, FiniteSetTheorems, SequenceTheorems, TLAPS

\* The parts of TypeOK, by who owns the state.
QueueTypes ==
  /\ head \in [Sides -> 0 .. Capacity - 1] /\ size \in [Sides -> 0 .. Capacity]
  /\ read_paused \in [Sides -> BOOLEAN]
  /\ stamps \in [Sides -> Seq(Nat)] /\ last_eligible \in [Sides -> Nat]
  /\ bytes_read \in [Sides -> Nat] /\ bytes_written \in [Sides -> Nat]

FlagTypes ==
  /\ upstream_connecting \in BOOLEAN /\ half_close_injected \in BOOLEAN
  /\ read_open \in [Sides -> BOOLEAN] /\ write_open \in [Sides -> BOOLEAN]
  /\ interest \in [Sides -> [read : BOOLEAN, write : BOOLEAN]]
  /\ now \in Nat

KernelTypes ==
  /\ link \in {"pending", "up", "refused"}
  /\ rcv \in [Sides -> 0 .. SocketBuffer] /\ sndq \in [Sides -> 0 .. SocketBuffer]
  /\ fin \in [Sides -> BOOLEAN] /\ err \in [Sides -> {"none", "ECONNRESET", "EPIPE"}]

LoopTypes ==
  /\ outcome \in Outcomes /\ pc \in Steps /\ source \in Sides \cup {"Timer", "none"}
  /\ (pc = "read" => source \in Sides)
  /\ hint \in BOOLEAN
  /\ \A e \in batch : e.source \in Sides \cup {"Timer"} /\ e.events \subseteq Flags

BucketsLegal ==
  /\ bucket \in [Sides -> [tokens : 0 .. Burst, carry : 0 .. NanosPerSecond - 1, last : Nat]]
  /\ \A s \in Sides : IsBucket(bucket[s])

\* The relay counts as connected only when the kernel does; a socket that is
\* still connecting has no error.
Links ==
  /\ ~upstream_connecting => link = "up"
  /\ link = "pending" => err["Upstream"] = "none"

\* A source counts as ended only when its FIN was received and nothing of it is
\* left unread.
Ends == \A s \in Sides : ~read_open[s] => fin[s] /\ rcv[s] = 0

\* What the loop remembers of an event stays true until it is used: a socket
\* with an event is no longer connecting, and a hang-up hint is never wrong.
EventsHold ==
  /\ \A e \in batch : e.source = "Upstream" => link # "pending"
  /\ \A e \in batch : e.source \in Sides /\ e.events \cap {"RDHUP", "HUP"} # {}
                        => fin[e.source] \/ Dead(e.source)
  /\ pc = "read" => /\ hint => fin[source] \/ Dead(source)
                    /\ source = "Upstream" => ~upstream_connecting

RelayInv ==
  /\ QueueTypes /\ FlagTypes /\ KernelTypes /\ BucketsLegal
  /\ Watermarks /\ Accounting /\ EofIsFaithful /\ Links /\ Ends

Inv == RelayInv /\ LoopTypes /\ EventsHold

\* The inductive invariant implies the type invariant.
LEMMA InvTyped == Inv => TypeOK
  BY DEF Inv, RelayInv, QueueTypes, FlagTypes, KernelTypes, LoopTypes, BucketsLegal, TypeOK
-----------------------------------------------------------------------------
LEMMA OtherSide ==
  \A s \in Sides : Other(s) \in Sides /\ Other(s) # s /\ Other(Other(s)) = s
  BY DEF Sides, Other

\* A refill keeps a legal bucket legal, whether or not it is due.
LEMMA RefilledLegal ==
  ASSUME Inv, NEW s \in Sides
  PROVE  IsBucket(Refilled(s)) /\ (HasBucket(s) => IsBucket(Refill(bucket[s], now)))
<1>1. IsBucket(bucket[s]) /\ now \in Nat
  BY DEF Inv, RelayInv, BucketsLegal, FlagTypes
<1>2. CASE HasBucket(s)
  <2>1. Parameters
    BY <1>2, ConfigAssumption DEF HasBucket, Parameters
  <2>2. CASE now <= bucket[s].last
    BY <1>1, <1>2, <2>2 DEF Refilled, Refill
  <2>3. CASE now > bucket[s].last
    BY <1>1, <1>2, <2>1, <2>3, RefillIsFluid DEF Refilled
  <2> QED BY <1>1, <2>2, <2>3 DEF IsBucket
<1>3. CASE ~HasBucket(s)
  BY <1>1, <1>3 DEF Refilled
<1> QED BY <1>2, <1>3

LEMMA ReleasableNat ==
  ASSUME Inv, NEW s \in Sides
  PROVE  Releasable(s) \in Nat
<1> DEFINE R == {i \in 1 .. Len(stamps[s]) : \A j \in 1 .. i : stamps[s][j] <= now}
<1>1. stamps[s] \in Seq(Nat) /\ size[s] \in Nat
  BY ConfigAssumption DEF Inv, RelayInv, QueueTypes
<1>0. Len(stamps[s]) \in Nat
  BY <1>1, LenProperties
<1>2. IsFiniteSet(1 .. Len(stamps[s])) /\ R \in SUBSET (1 .. Len(stamps[s]))
  BY <1>0, FS_Interval
<1>3. IsFiniteSet(R)
  BY <1>2, FS_Subset
<1>4. Cardinality(R) \in Nat
  BY <1>3, FS_CardinalityType
<1> QED BY <1>1, <1>4 DEF Releasable

\* fault_sendable grants no more than was asked for, nor than the tokens.
LEMMA FaultSendableBounds ==
  ASSUME Inv, NEW s \in Sides, NEW limit \in Nat
  PROVE  /\ FaultSendable(s, limit) \in 0 .. limit
         /\ HasBucket(s) => FaultSendable(s, limit) <= Refill(bucket[s], now).tokens
<1>1. Releasable(s) \in Nat
  BY ReleasableNat
<1>2. HasBucket(s) => Refill(bucket[s], now).tokens \in Nat
  BY RefilledLegal, ConfigAssumption DEF IsBucket
<1> QED BY <1>1, <1>2 DEF FaultSendable, Lesser

\* A flush offers send() no more than is queued.
LEMMA BudgetBounds ==
  ASSUME Inv, NEW s \in Sides
  PROVE  /\ Budget(s) \in 0 .. size[s]
         /\ HasBucket(s) => Budget(s) <= Refill(bucket[s], now).tokens
<1>1. /\ size[s] \in 0 .. Capacity /\ head[s] \in 0 .. Capacity - 1 /\ Capacity \in Nat
  BY ConfigAssumption DEF Inv, RelayInv, QueueTypes
<1>2. ReadableSpan(s) \in Nat /\ ReadableSpan(s) <= size[s]
  BY <1>1 DEF ReadableSpan, Lesser
<1>3. HasBucket(s) => Refill(bucket[s], now).tokens \in Nat
  BY RefilledLegal, ConfigAssumption DEF IsBucket
<1> QED BY <1>1, <1>2, <1>3, FaultSendableBounds DEF Budget

\* After an observation, reads are paused only above Low and open only below High.
LEMMA ObserveHysteresis ==
  ASSUME NEW paused \in BOOLEAN, NEW occupancy \in Nat, occupancy <= High
  PROVE  /\ Observe(paused, occupancy) \in BOOLEAN
         /\ Observe(paused, occupancy) => occupancy > Low
         /\ ~Observe(paused, occupancy) => occupancy < High
<1>1. CASE paused
  BY <1>1, ConfigAssumption DEF Observe
<1>2. CASE ~paused
  BY <1>2, ConfigAssumption DEF Observe
<1> QED BY <1>1, <1>2

\* The read offers recv() room up to the high-water mark, and never none.
LEMMA SpanBounds ==
  ASSUME Inv, NEW s \in Sides, ~read_paused[s]
  PROVE  WritableSpan(s) \in 1 .. High - size[s]
<1>1. /\ size[s] \in Nat /\ size[s] < High /\ head[s] \in Nat
      /\ High \in Nat /\ Capacity \in Nat \ {0} /\ High <= Capacity
  BY ConfigAssumption DEF Inv, RelayInv, QueueTypes, Watermarks
<1> DEFINE tail == (head[s] + size[s]) % Capacity
<1>2. head[s] + size[s] \in Nat
  BY <1>1
<1>3. tail \in 0 .. Capacity - 1
  BY <1>1, <1>2, DivMod
<1>4. WritableSpan(s) = Lesser(Lesser(Capacity - size[s], Capacity - tail), High - size[s])
  BY DEF WritableSpan
<1> HIDE DEF tail
<1> QED BY <1>1, <1>3, <1>4 DEF Lesser
-----------------------------------------------------------------------------
LEMMA InitInv == Init => Inv
<1> SUFFICES ASSUME Init PROVE Inv
  OBVIOUS
<1> USE ConfigAssumption
<1>1. QueueTypes
  <2>1. /\ head \in [Sides -> 0 .. Capacity - 1] /\ size \in [Sides -> 0 .. Capacity]
        /\ last_eligible \in [Sides -> Nat]
        /\ bytes_read \in [Sides -> Nat] /\ bytes_written \in [Sides -> Nat]
    BY DEF Init
  <2>2. read_paused \in [Sides -> BOOLEAN]
    BY Zenon DEF Init
  <2>3. stamps \in [Sides -> Seq(Nat)]
    <3>1. <<>> \in Seq(Nat)
      OBVIOUS
    <3>2. stamps = [s \in Sides |-> <<>>]
      BY DEF Init
    <3> QED BY <3>1, <3>2, Zenon
  <2> QED BY <2>1, <2>2, <2>3 DEF QueueTypes
<1>2. FlagTypes
  <2>1. /\ upstream_connecting \in BOOLEAN /\ half_close_injected \in BOOLEAN
        /\ read_open \in [Sides -> BOOLEAN] /\ write_open \in [Sides -> BOOLEAN]
    BY Zenon DEF Init
  <2>2. interest \in [Sides -> [read : BOOLEAN, write : BOOLEAN]] /\ now \in Nat
    BY DEF Init
  <2> QED BY <2>1, <2>2 DEF FlagTypes
<1>3. KernelTypes
  <2>1. fin \in [Sides -> BOOLEAN]
    BY Zenon DEF Init
  <2>2. /\ link \in {"pending", "up", "refused"}
        /\ rcv \in [Sides -> 0 .. SocketBuffer] /\ sndq \in [Sides -> 0 .. SocketBuffer]
        /\ err \in [Sides -> {"none", "ECONNRESET", "EPIPE"}]
    BY DEF Init
  <2> QED BY <2>1, <2>2 DEF KernelTypes
<1>4. BucketsLegal
  BY DEF Init, BucketsLegal, FullBucket, IsBucket
<1>5. LoopTypes
  BY DEF Init, LoopTypes, Outcomes, Steps
<1>6. Watermarks /\ Accounting /\ EofIsFaithful
  BY OtherSide DEF Init, Watermarks, Accounting, EofIsFaithful
<1>7. Links /\ Ends /\ EventsHold
  BY DEF Init, Links, Ends, EventsHold, Sides
<1> QED BY <1>1, <1>2, <1>3, <1>4, <1>5, <1>6, <1>7 DEF Inv, RelayInv
-----------------------------------------------------------------------------
(* Steps that leave a part of the state alone.                             *)

LEMMA RelayKept ==
  ASSUME RelayInv, UNCHANGED <<relayVars, interest, now, kernelVars>>
  PROVE  RelayInv'
<1> USE DEF relayVars, queueVars, countVars, flagVars, kernelVars
<1>1. QueueTypes' /\ FlagTypes' /\ KernelTypes' /\ BucketsLegal'
  BY DEF RelayInv, QueueTypes, FlagTypes, KernelTypes, BucketsLegal
<1>2. Watermarks' /\ Accounting' /\ EofIsFaithful' /\ Links' /\ Ends'
  BY DEF RelayInv, Watermarks, Accounting, EofIsFaithful, Links, Ends
<1> QED BY <1>1, <1>2 DEF RelayInv

\* The kernel's conditions only grow, so what the loop remembers stays true.
LEMMA LoopKept ==
  ASSUME LoopTypes, EventsHold, UNCHANGED <<outcome, loopVars>>,
         \A s \in Sides : (fin[s] => fin'[s]) /\ (Dead(s) => Dead(s)'),
         link # "pending" => link' # "pending",
         upstream_connecting' => upstream_connecting
  PROVE  LoopTypes' /\ EventsHold'
<1> USE DEF loopVars
<1>1. LoopTypes'
  BY DEF LoopTypes
<1>2. EventsHold'
  BY DEF EventsHold, LoopTypes
<1> QED BY <1>1, <1>2

LEMMA CloseLoop ==
  ASSUME Inv, NEW final \in Outcomes, Close(final)
  PROVE  LoopTypes' /\ EventsHold'
  BY DEF Close, LoopTypes, EventsHold, Steps

\* A step of the loop to a handler that does not read keeps the batch's facts.
LEMMA LoopMoves ==
  ASSUME Inv, UNCHANGED <<outcome, upstream_connecting, kernelVars>>, batch' \subseteq batch,
         pc' \in Steps \ {"read"}, source' \in Sides \cup {"Timer", "none"}, hint' \in BOOLEAN
  PROVE  LoopTypes' /\ EventsHold'
<1> USE DEF kernelVars, Inv
<1>1. LoopTypes'
  BY DEF LoopTypes
<1>2. EventsHold'
  BY DEF EventsHold, LoopTypes, Dead
<1> QED BY <1>1, <1>2
-----------------------------------------------------------------------------
(* The peers and the clock.                                                *)

LEMMA PeersKeepInv ==
  ASSUME Inv, Peers
  PROVE  Inv'
<1> USE OtherSide, ConfigAssumption DEF Inv
<1>1. ASSUME NEW s \in Sides, PeerSend(s) PROVE Inv'
  <2> USE <1>1 DEF PeerSend, relayVars, queueVars, countVars, flagVars, wakeVars
  <2>1. QueueTypes' /\ FlagTypes' /\ BucketsLegal' /\ Watermarks' /\ Accounting'
    BY DEF RelayInv, QueueTypes, FlagTypes, BucketsLegal, Watermarks, Accounting
  <2>2. KernelTypes'
    BY DEF RelayInv, KernelTypes
  <2>3. EofIsFaithful' /\ Ends' /\ Links'
    BY DEF RelayInv, KernelTypes, EofIsFaithful, Ends, Links
  <2>4. LoopTypes' /\ EventsHold'
    BY LoopKept DEF Dead
  <2> QED BY <2>1, <2>2, <2>3, <2>4 DEF RelayInv
<1>2. ASSUME NEW s \in Sides, PeerShutdown(s) PROVE Inv'
  <2> USE <1>2 DEF PeerShutdown, relayVars, queueVars, countVars, flagVars, wakeVars
  <2>1. QueueTypes' /\ FlagTypes' /\ BucketsLegal' /\ Watermarks' /\ Accounting'
    BY DEF RelayInv, QueueTypes, FlagTypes, BucketsLegal, Watermarks, Accounting
  <2>2. KernelTypes' /\ \A r \in Sides : fin[r] => fin'[r]
    BY DEF RelayInv, KernelTypes
  <2>3. EofIsFaithful' /\ Ends' /\ Links'
    BY <2>2 DEF RelayInv, EofIsFaithful, Ends, Links
  <2>4. LoopTypes' /\ EventsHold'
    BY <2>2, LoopKept DEF Dead
  <2> QED BY <2>1, <2>2, <2>3, <2>4 DEF RelayInv
<1>3. ASSUME NEW s \in Sides, PeerRead(s) PROVE Inv'
  <2> USE <1>3 DEF PeerRead, relayVars, queueVars, countVars, flagVars, wakeVars
  <2>1. QueueTypes' /\ FlagTypes' /\ BucketsLegal' /\ Watermarks' /\ Accounting'
    BY DEF RelayInv, QueueTypes, FlagTypes, BucketsLegal, Watermarks, Accounting
  <2>2. KernelTypes'
    BY DEF RelayInv, KernelTypes
  <2>3. EofIsFaithful' /\ Ends' /\ Links'
    BY DEF RelayInv, EofIsFaithful, Ends, Links
  <2>4. LoopTypes' /\ EventsHold'
    BY LoopKept DEF Dead
  <2> QED BY <2>1, <2>2, <2>3, <2>4 DEF RelayInv
<1>4. ASSUME NEW s \in Sides, PeerReset(s) PROVE Inv'
  <2> USE <1>4 DEF PeerReset, relayVars, queueVars, countVars, flagVars, wakeVars
  <2>1. QueueTypes' /\ FlagTypes' /\ BucketsLegal' /\ Watermarks' /\ Accounting'
    BY DEF RelayInv, QueueTypes, FlagTypes, BucketsLegal, Watermarks, Accounting
  <2>2. KernelTypes'
    BY DEF RelayInv, KernelTypes
  <2>3. EofIsFaithful' /\ Ends'
    BY DEF RelayInv, EofIsFaithful, Ends
  <2>4. Links'
    BY DEF RelayInv, KernelTypes, Links, PeerActive, Established
  <2>5. \A r \in Sides : Dead(r) => Dead(r)'
    BY DEF RelayInv, KernelTypes, Dead, PeerActive
  <2>6. LoopTypes' /\ EventsHold'
    BY <2>5, LoopKept
  <2> QED BY <2>1, <2>2, <2>3, <2>4, <2>6 DEF RelayInv
<1>5. ASSUME ConnectCompletes PROVE Inv'
  <2> USE <1>5 DEF ConnectCompletes, relayVars, queueVars, countVars, flagVars, wakeVars
  <2>1. QueueTypes' /\ FlagTypes' /\ BucketsLegal' /\ Watermarks' /\ Accounting'
    BY DEF RelayInv, QueueTypes, FlagTypes, BucketsLegal, Watermarks, Accounting
  <2>2. KernelTypes'
    BY DEF RelayInv, KernelTypes
  <2>3. EofIsFaithful' /\ Ends' /\ Links'
    BY DEF RelayInv, EofIsFaithful, Ends, Links
  <2>4. LoopTypes' /\ EventsHold'
    BY LoopKept DEF Dead
  <2> QED BY <2>1, <2>2, <2>3, <2>4 DEF RelayInv
<1> QED BY <1>1, <1>2, <1>3, <1>4, <1>5 DEF Peers

LEMMA TickKeepsInv ==
  ASSUME Inv, Tick
  PROVE  Inv'
<1> USE DEF Tick, Inv, relayVars, queueVars, countVars, flagVars, wakeVars, kernelVars
<1>1. QueueTypes' /\ BucketsLegal' /\ KernelTypes' /\ Watermarks' /\ Accounting'
  BY DEF RelayInv, QueueTypes, KernelTypes, BucketsLegal, Watermarks, Accounting
<1>2. FlagTypes'
  BY DEF RelayInv, FlagTypes
<1>3. EofIsFaithful' /\ Ends' /\ Links'
  BY DEF RelayInv, EofIsFaithful, Ends, Links
<1>4. LoopTypes' /\ EventsHold'
  BY LoopKept DEF Dead
<1> QED BY <1>1, <1>2, <1>3, <1>4 DEF RelayInv
-----------------------------------------------------------------------------
(* The event loop up to handle_readable.                                   *)

LEMMA EpollWaitKeepsInv ==
  ASSUME Inv, EpollWait
  PROVE  Inv'
<1> USE DEF Inv, EpollWait, wakeVars
<1>1. RelayInv'
  BY RelayKept
<1>2. ASSUME NEW e \in ReadyEvents
      PROVE  \/ e.source = "Timer" /\ e.events = {"IN"}
             \/ /\ e.source \in Sides /\ e.events = Reported(e.source)
                /\ Reported(e.source) # {}
  BY <1>2 DEF ReadyEvents
<1>3. ASSUME NEW s \in Sides
      PROVE  /\ Reported(s) \subseteq Flags
             /\ Reported(s) # {} /\ s = "Upstream" => link # "pending"
             /\ Reported(s) \cap {"RDHUP", "HUP"} # {} => fin[s] \/ Dead(s)
  BY DEF Reported, Conditions, Flags, Established, Dead, RelayInv, Links
<1>4. LoopTypes'
  <2>1. {"IN"} \subseteq Flags
    BY DEF Flags
  <2> QED BY <1>2, <1>3, <2>1 DEF LoopTypes
<1>5. EventsHold'
  BY <1>2, <1>3 DEF EventsHold, Sides, Dead, kernelVars
<1> QED BY <1>1, <1>4, <1>5

LEMMA SocketReadyKeepsInv ==
  ASSUME Inv, NEW e \in batch, SocketReady(e)
  PROVE  Inv'
<1> USE DEF SocketReady
<1>1. CASE ConnectFailed(e) \/ SocketFailed(e)
  <2>1. RelayInv'
    BY <1>1, RelayKept DEF ConnectFailed, SocketFailed, Inv, wakeVars
  <2>2. LoopTypes' /\ EventsHold'
    BY <1>1, CloseLoop DEF ConnectFailed, SocketFailed, Outcomes
  <2> QED BY <2>1, <2>2 DEF Inv
<1>2. CASE SocketUsable(e)
  <2> USE <1>2 DEF SocketUsable, queueVars, countVars, wakeVars, kernelVars, Inv
  <2>1. QueueTypes' /\ BucketsLegal' /\ KernelTypes' /\ Watermarks' /\ Accounting'
    BY DEF RelayInv, QueueTypes, KernelTypes, BucketsLegal, Watermarks, Accounting
  <2>2. FlagTypes'
    BY DEF RelayInv, FlagTypes
  <2>3. EofIsFaithful' /\ Ends'
    BY DEF RelayInv, EofIsFaithful, Ends
  <2>4. Links'
    BY DEF RelayInv, KernelTypes, Links, ConnectEnds, Dead, EventsHold
  <2>5. LoopTypes'
    BY DEF LoopTypes, Steps, EnterPump
  <2>6. EventsHold'
    <3>1. \A f \in batch' : f \in batch
      OBVIOUS
    <3>2. pc' = "read" => /\ hint' => fin[source'] \/ Dead(source')
                          /\ source' = "Upstream" => ~upstream_connecting'
      BY DEF EventsHold, EnterPump
    <3> QED BY <3>1, <3>2 DEF EventsHold, Dead
  <2> QED BY <2>1, <2>2, <2>3, <2>4, <2>5, <2>6 DEF RelayInv
<1> QED BY <1>1, <1>2

LEMMA EnteredPump ==
  ASSUME NEW connecting \in BOOLEAN, EnterPump(connecting)
  PROVE  pc' \in Steps \ {"read"}
  BY DEF EnterPump, Steps
-----------------------------------------------------------------------------
(* Relay::handle_readable.                                                 *)

LEMMA ReceiveBytesKeepsInv ==
  ASSUME Inv, NEW bytes \in 1 .. Capacity, ReceiveBytes(bytes)
  PROVE  Inv'
<1> DEFINE s == source
<1> USE DEF ReceiveBytes, flagVars, wakeVars
<1>0. /\ s \in Sides /\ ~read_paused[s] /\ pc = "read" /\ read_open[s]
      /\ High \in Nat /\ Capacity \in Nat /\ High <= Capacity /\ Low \in Nat /\ Low < High
      /\ bytes \in Nat /\ bytes > 0
  BY ConfigAssumption DEF Reading, Inv, LoopTypes
<1>1. WritableSpan(s) \in 1 .. High - size[s] /\ bytes <= WritableSpan(s)
  BY <1>0, SpanBounds
<1>2. size[s] \in Nat /\ size'[s] = size[s] + bytes /\ size'[s] <= High
  BY <1>0, <1>1 DEF Inv, RelayInv, QueueTypes
<1>3. QueueTypes'
  <2>1. /\ head' \in [Sides -> 0 .. Capacity - 1] /\ size' \in [Sides -> 0 .. Capacity]
        /\ bytes_read' \in [Sides -> Nat] /\ bytes_written' \in [Sides -> Nat]
    BY <1>0, <1>2 DEF Inv, RelayInv, QueueTypes
  <2>2. read_paused' \in [Sides -> BOOLEAN]
    BY <1>0, <1>2, ObserveHysteresis DEF Inv, RelayInv, QueueTypes
  <2>3. stamps' \in [Sides -> Seq(Nat)] /\ last_eligible' \in [Sides -> Nat]
    <3>1. CASE HasDelay(s)
      <4>1. PICK jitter \in -Jitter .. Jitter :
              /\ last_eligible' = [last_eligible EXCEPT ![s] = Eligible(s, jitter)]
              /\ stamps' = [stamps EXCEPT ![s] = @ \o [i \in 1 .. bytes |-> Eligible(s, jitter)]]
        BY <3>1 DEF StampIngress
      <4>2. Eligible(s, jitter) \in Nat
        BY <1>0, ConfigAssumption DEF Eligible, Inv, RelayInv, QueueTypes, FlagTypes
      <4> DEFINE copies == [i \in 1 .. bytes |-> Eligible(s, jitter)]
      <4>3. copies \in Seq(Nat)
        BY <1>0, <4>2, IsASeq
      <4>4. stamps[s] \in Seq(Nat)
        BY <1>0 DEF Inv, RelayInv, QueueTypes
      <4> HIDE DEF copies
      <4>5. stamps[s] \o copies \in Seq(Nat)
        BY <4>3, <4>4, ConcatProperties
      <4> QED BY <1>0, <4>1, <4>2, <4>5 DEF Inv, RelayInv, QueueTypes, copies
    <3>2. CASE ~HasDelay(s)
      BY <3>2 DEF StampIngress, Inv, RelayInv, QueueTypes
    <3> QED BY <3>1, <3>2
  <2> QED BY <2>1, <2>2, <2>3 DEF QueueTypes
<1>4. FlagTypes' /\ BucketsLegal' /\ Links'
  BY DEF Inv, RelayInv, FlagTypes, BucketsLegal, Links
<1>5. KernelTypes'
  BY <1>0, ConfigAssumption DEF Inv, RelayInv, KernelTypes
<1>a. /\ read_paused'[s] = Observe(read_paused[s], size'[s]) /\ read_paused[s] \in BOOLEAN
      /\ bytes_read'[s] = bytes_read[s] + bytes /\ bytes_read[s] \in Nat
      /\ \A r \in Sides : r # s => /\ size'[r] = size[r] /\ read_paused'[r] = read_paused[r]
                                   /\ bytes_read'[r] = bytes_read[r] /\ rcv'[r] = rcv[r]
      /\ bytes_written' = bytes_written /\ bytes_written \in [Sides -> Nat]
  BY <1>0 DEF Inv, RelayInv, QueueTypes, KernelTypes
<1>6. Watermarks'
  <2>1. /\ read_paused'[s] => size'[s] > Low
        /\ ~read_paused'[s] => size'[s] < High
    BY <1>0, <1>2, <1>a, ObserveHysteresis
  <2>2. \A r \in Sides : r # s => IF read_paused'[r] THEN size'[r] > Low /\ size'[r] <= High
                                                     ELSE size'[r] < High
    BY <1>a DEF Inv, RelayInv, Watermarks
  <2> QED BY <1>2, <2>1, <2>2 DEF Watermarks
<1>7. Accounting'
  <2>1. bytes_read[s] = bytes_written[Other(s)] + size[s] /\ bytes_written[Other(s)] \in Nat
    BY <1>0, <1>a, OtherSide DEF Inv, RelayInv, Accounting
  <2>2. bytes_read'[s] = bytes_written'[Other(s)] + size'[s]
    BY <1>0, <1>2, <1>a, <2>1
  <2>3. \A r \in Sides : r # s => bytes_read'[r] = bytes_written'[Other(r)] + size'[r]
    BY <1>a DEF Inv, RelayInv, Accounting
  <2> QED BY <2>2, <2>3 DEF Accounting
<1>8. rcv[s] > 0
  BY <1>0, ConfigAssumption DEF Inv, RelayInv, KernelTypes
<1>9. EofIsFaithful'
  <2> SUFFICES ASSUME NEW d \in Sides, ~write_open[d], ~(d = "Client" /\ half_close_injected)
               PROVE  fin[Other(d)] /\ rcv'[Other(d)] = 0 /\ bytes_written[d] = bytes_read'[Other(d)]
    BY DEF EofIsFaithful
  <2>1. fin[Other(d)] /\ rcv[Other(d)] = 0 /\ bytes_written[d] = bytes_read[Other(d)]
    BY DEF Inv, RelayInv, EofIsFaithful
  <2>2. Other(d) # s
    BY <1>8, <2>1
  <2> QED BY <1>a, <2>1, <2>2, OtherSide
<1>10. Ends'
  BY <1>0, <1>8 DEF Inv, RelayInv, KernelTypes, Ends
<1>11. LoopTypes' /\ EventsHold'
  BY LoopKept DEF Inv, Dead
<1> QED BY <1>3, <1>4, <1>5, <1>6, <1>7, <1>9, <1>10, <1>11 DEF Inv, RelayInv

\* With room in the buffer, recv() says what the kernel holds: 0 means that
\* everything up to the FIN was read, EAGAIN that there is neither FIN nor error.
LEMMA ReceiveMeans ==
  ASSUME Inv, NEW s \in Sides, WritableSpan(s) > 0
  PROVE  /\ Receive(s) = "PeerClosed" => fin[s] /\ rcv[s] = 0
         /\ Receive(s) = "WouldBlock" => ~fin[s] /\ err[s] = "none"
<1>1. rcv[s] \in Nat /\ fin[s] \in BOOLEAN /\ SocketBuffer \in Nat
  BY ConfigAssumption DEF Inv, RelayInv, KernelTypes
<1>2. WritableSpan(s) # 0
  OBVIOUS
<1>3. CASE rcv[s] > 0
  <2>1. Receive(s) = "Transferred"
    BY <1>2, <1>3 DEF Receive
  <2> QED BY <2>1
<1>4. CASE rcv[s] = 0 /\ fin[s]
  <2>1. Receive(s) = "PeerClosed"
    BY <1>2, <1>4 DEF Receive
  <2> QED BY <1>4, <2>1
<1>5. CASE rcv[s] = 0 /\ ~fin[s]
  <2>1. Receive(s) = IF err[s] = "none" THEN "WouldBlock" ELSE "Error"
    BY <1>2, <1>5 DEF Receive
  <2> QED BY <1>5, <2>1
<1> QED BY <1>1, <1>3, <1>4, <1>5

\* Every way to stop reading; a source that counts as ended has ended.
LEMMA ReceiveEndsKeepInv ==
  ASSUME Inv, ReceiveEof \/ ReceiveWouldBlock \/ ReceiveError \/ StopReading
  PROVE  Inv'
<1>1. CASE ReceiveError
  <2>1. RelayInv'
    BY <1>1, RelayKept DEF ReceiveError, Inv, wakeVars
  <2> QED BY <1>1, <2>1, CloseLoop DEF ReceiveError, Outcomes, Inv
<1>2. CASE StopReading
  <2>1. RelayInv'
    BY <1>2, RelayKept DEF StopReading, Inv, wakeVars
  <2>2. pc' \in Steps \ {"read"}
    BY <1>2, EnteredPump DEF StopReading, LeaveReading, Inv, RelayInv, FlagTypes
  <2> QED BY <1>2, <2>1, <2>2, LoopMoves DEF StopReading, LeaveReading, Inv, relayVars, flagVars
<1>3. CASE ReceiveEof \/ ReceiveWouldBlock
  <2> USE <1>3 DEF queueVars, countVars, wakeVars, kernelVars, ReceiveEof, ReceiveWouldBlock
  <2>1. source \in Sides /\ ~read_paused[source] /\ pc = "read"
    BY DEF Reading, Inv, LoopTypes
  <2>2. WritableSpan(source) > 0
    BY <2>1, SpanBounds, ConfigAssumption DEF Inv, RelayInv, QueueTypes
  <2>3. ReceiveWouldBlock => ~hint
    BY <2>1, <2>2, ReceiveMeans DEF Inv, EventsHold, RelayInv, Links, Dead
  <2>4. \/ UNCHANGED read_open
        \/ NoteHalfClosed /\ fin[source] /\ rcv[source] = 0
    BY <2>1, <2>2, <2>3, ReceiveMeans
  <2>5. QueueTypes' /\ KernelTypes' /\ BucketsLegal' /\ Watermarks' /\ Accounting'
    BY DEF Inv, RelayInv, QueueTypes, KernelTypes, BucketsLegal, Watermarks, Accounting
  <2>6. FlagTypes'
    BY <2>1, <2>4 DEF Inv, RelayInv, FlagTypes, NoteHalfClosed
  <2>7. EofIsFaithful' /\ Links'
    BY DEF Inv, RelayInv, EofIsFaithful, Links
  <2>8. Ends'
    BY <2>1, <2>4 DEF Inv, RelayInv, FlagTypes, Ends, NoteHalfClosed
  <2>9. pc' \in Steps \ {"read"}
    BY EnteredPump DEF LeaveReading, Inv, RelayInv, FlagTypes
  <2>10. LoopTypes' /\ EventsHold'
    BY <2>9, LoopMoves DEF LeaveReading
  <2> QED BY <2>5, <2>6, <2>7, <2>8, <2>10 DEF Inv, RelayInv
<1> QED BY <1>1, <1>2, <1>3
-----------------------------------------------------------------------------
(* Relay::flush.                                                           *)

\* A bucket charged for what its tokens allowed stays legal.
LEMMA ChargedLegal ==
  ASSUME Inv, NEW s \in Sides, NEW bytes \in Nat, bytes > 0, bytes <= Budget(s)
  PROVE  IsBucket(Charged(s, bytes))
<1>1. CASE HasBucket(s)
  <2> DEFINE b == Refilled(s)
  <2>1. b = Refill(bucket[s], now)
    BY <1>1 DEF Refilled
  <2>2. IsBucket(b)
    BY RefilledLegal
  <2>3. Budget(s) \in Nat /\ Budget(s) <= b.tokens
    BY <1>1, <2>1, BudgetBounds, ConfigAssumption DEF Inv, RelayInv, QueueTypes
  <2>4. Charged(s, bytes) = [b EXCEPT !.tokens = @ - bytes]
    BY <1>1 DEF Charged, Take
  <2> HIDE DEF b
  <2>5. bytes <= b.tokens /\ b.tokens \in 0 .. Burst
    BY <2>2, <2>3, ConfigAssumption DEF IsBucket
  <2> QED BY <2>2, <2>4, <2>5, ConfigAssumption DEF IsBucket
<1>2. CASE ~HasBucket(s)
  BY <1>2 DEF Charged, Inv, RelayInv, BucketsLegal
<1> QED BY <1>1, <1>2

\* What is left of a sequence when its front is consumed.
LEMMA RestOfSeq ==
  ASSUME NEW q \in Seq(Nat), NEW k \in Nat
  PROVE  SubSeq(q, k + 1, Len(q)) \in Seq(Nat)
<1>1. Len(q) \in Nat
  BY LenProperties
<1>2. ASSUME NEW i \in k + 1 .. Len(q) PROVE q[i] \in Nat
  <2>1. i \in 1 .. Len(q)
    BY <1>1
  <2> QED BY <2>1, ElementOfSeq
<1> QED BY <1>1, <1>2, SubSeqProperties

LEMMA SendBytesKeepsInv ==
  ASSUME Inv, NEW bytes \in 1 .. Capacity, SendBytes(bytes)
  PROVE  Inv'
<1> DEFINE d == Destination
           s == Other(d)
<1> USE DEF SendBytes, flagVars, wakeVars
<1>0. /\ d \in Sides /\ s \in Sides /\ d = Other(s) /\ s # d
      /\ bytes \in Nat /\ bytes > 0
      /\ Capacity \in Nat \ {0} /\ High \in Nat /\ Low \in Nat
  BY OtherSide, ConfigAssumption DEF Destination, Sides
<1>1. bytes <= size[s] /\ bytes <= Budget(s) /\ write_open[d]
  <2>1. Budget(s) \in 0 .. size[s] /\ bytes <= Budget(s)
    BY <1>0, BudgetBounds
  <2>2. size[s] \in Nat
    BY <1>0 DEF Inv, RelayInv, QueueTypes
  <2> QED BY <1>0, <2>1, <2>2 DEF Writable
<1> HIDE DEF Destination
<1>2. /\ size[s] \in Nat /\ size[s] <= High /\ size[s] <= Capacity /\ head[s] \in 0 .. Capacity - 1
      /\ stamps[s] \in Seq(Nat) /\ read_paused[s] \in BOOLEAN /\ bytes_written[d] \in Nat
  BY <1>0 DEF Inv, RelayInv, QueueTypes, Watermarks
<1>11. /\ size'[s] = size[s] - bytes
       /\ head'[s] = Advance(head[s], bytes, size'[s])
       /\ read_paused'[s] = Observe(read_paused[s], size'[s])
       /\ bytes_written'[d] = bytes_written[d] + bytes
       /\ \A r \in Sides : r # s => size'[r] = size[r] /\ read_paused'[r] = read_paused[r]
       /\ \A r \in Sides : r # d => bytes_written'[r] = bytes_written[r]
  BY <1>0 DEF Inv, RelayInv, QueueTypes, CountWritten
<1>12. size'[s] \in Nat /\ size'[s] <= High
  BY <1>0, <1>1, <1>2, <1>11
<1>3. QueueTypes'
  <2>1. /\ size' \in [Sides -> 0 .. Capacity] /\ bytes_written' \in [Sides -> Nat]
        /\ last_eligible' \in [Sides -> Nat] /\ bytes_read' \in [Sides -> Nat]
    <3>1. size[s] - bytes \in 0 .. Capacity /\ bytes_written[d] + bytes \in Nat
      BY <1>0, <1>1, <1>2
    <3> HIDE DEF s, d
    <3> QED BY <1>0, <3>1 DEF Inv, RelayInv, QueueTypes, CountWritten, s, d
  <2>2. head' \in [Sides -> 0 .. Capacity - 1]
    <3>1. head[s] + bytes \in Nat
      BY <1>0, <1>2
    <3>2. (head[s] + bytes) % Capacity \in 0 .. Capacity - 1
      BY <1>0, <3>1, DivMod
    <3>3. Advance(head[s], bytes, size'[s]) \in 0 .. Capacity - 1
      BY <1>0, <3>2 DEF Advance
    <3> QED BY <1>0, <3>3 DEF Inv, RelayInv, QueueTypes
  <2>3. read_paused' \in [Sides -> BOOLEAN]
    <3>1. Observe(read_paused[s], size'[s]) \in BOOLEAN
      BY <1>0, <1>2, <1>11, <1>12, ObserveHysteresis
    <3> QED BY <1>0, <3>1 DEF Inv, RelayInv, QueueTypes
  <2>4. stamps' \in [Sides -> Seq(Nat)]
    <3>1. SubSeq(stamps[s], bytes + 1, Len(stamps[s])) \in Seq(Nat)
      BY <1>0, <1>2, RestOfSeq
    <3> QED BY <1>0, <1>2, <3>1 DEF Inv, RelayInv, QueueTypes
  <2> QED BY <2>1, <2>2, <2>3, <2>4 DEF QueueTypes
<1>4. FlagTypes' /\ Links' /\ Ends'
  BY DEF Inv, RelayInv, FlagTypes, Links, Ends
<1>5. KernelTypes'
  BY <1>0, ConfigAssumption DEF Inv, RelayInv, KernelTypes
<1>6. BucketsLegal'
  <2>1. IsBucket(Charged(s, bytes))
    BY <1>0, <1>1, ChargedLegal
  <2> QED BY <1>0, <2>1 DEF Inv, RelayInv, BucketsLegal, IsBucket
<1>7. Watermarks'
  <2>1. /\ read_paused'[s] => size'[s] > Low
        /\ ~read_paused'[s] => size'[s] < High
        /\ size'[s] <= High
    BY <1>0, <1>2, <1>11, <1>12, ObserveHysteresis
  <2>2. \A r \in Sides : r # s => IF read_paused'[r] THEN size'[r] > Low /\ size'[r] <= High
                                                     ELSE size'[r] < High
    BY <1>11 DEF Inv, RelayInv, Watermarks
  <2> QED BY <2>1, <2>2 DEF Watermarks
<1>8. Accounting'
  <2>1. bytes_read[s] = bytes_written[d] + size[s]
    BY <1>0 DEF Inv, RelayInv, Accounting
  <2>2. bytes_read[s] = bytes_written'[d] + size'[s]
    BY <1>0, <1>2, <1>11, <2>1
  <2>3. \A r \in Sides : r # s => bytes_read[r] = bytes_written'[Other(r)] + size'[r]
    BY <1>0, <1>11, OtherSide DEF Inv, RelayInv, Accounting
  <2> QED BY <1>0, <2>2, <2>3 DEF Accounting
<1>9. EofIsFaithful'
  BY <1>0, <1>1, <1>11, OtherSide DEF Inv, RelayInv, EofIsFaithful
<1>10. LoopTypes' /\ EventsHold'
  BY LoopKept DEF Inv, Dead
<1> QED BY <1>3, <1>4, <1>5, <1>6, <1>7, <1>8, <1>9, <1>10 DEF Inv, RelayInv

\* An injected half-close is recorded; the queue and the counters are kept.
LEMMA EndFlushKeepsInv ==
  ASSUME Inv, EndFlush
  PROVE  Inv'
<1> USE DEF EndFlush, countVars, wakeVars, kernelVars
<1>0. Destination \in Sides /\ Other(Destination) \in Sides
  BY DEF Destination, Sides, Other
<1>1. QueueTypes' /\ KernelTypes' /\ Watermarks' /\ Accounting' /\ Ends' /\ Links'
  BY DEF Inv, RelayInv, QueueTypes, KernelTypes, Watermarks, Accounting, Ends, Links
<1>2. FlagTypes'
  <2>1. half_close_injected' \in BOOLEAN
    BY DEF Inv, RelayInv, FlagTypes
  <2>2. write_open' \in [Sides -> BOOLEAN]
    BY DEF Inv, RelayInv, FlagTypes
  <2> QED BY <2>1, <2>2 DEF Inv, RelayInv, FlagTypes
<1>3. BucketsLegal'
  <2>1. IsBucket(Refilled(Other(Destination)))
    BY <1>0, RefilledLegal
  <2> HIDE DEF Destination
  <2> QED BY <1>0, <2>1 DEF Inv, RelayInv, BucketsLegal, IsBucket
<1>4. EofIsFaithful'
  <2>1. ASSUME NEW d \in Sides, ~write_open'[d], ~(d = "Client" /\ half_close_injected')
        PROVE  ~write_open[d] /\ ~(d = "Client" /\ half_close_injected)
    BY <2>1 DEF Inv, RelayInv, FlagTypes
  <2> QED BY <2>1 DEF Inv, RelayInv, EofIsFaithful
<1>5. LoopTypes' /\ EventsHold'
  <2>1. CASE InjectsReset
    BY <2>1, CloseLoop DEF Outcomes
  <2>2. CASE ~InjectsReset
    <3>1. pc' \in Steps \ {"read"}
      BY <2>2 DEF LeaveFlush, Steps
    <3> QED BY <2>2, <3>1, LoopMoves DEF Inv, LoopTypes
  <2> QED BY <2>1, <2>2
<1> QED BY <1>1, <1>2, <1>3, <1>4, <1>5 DEF Inv, RelayInv

LEMMA FlushEndsKeepInv ==
  ASSUME Inv, SendError \/ SkipFlush
  PROVE  Inv'
<1>1. RelayInv'
  BY RelayKept DEF SendError, SkipFlush, Inv, wakeVars
<1>2. CASE SendError
  BY <1>1, <1>2, CloseLoop DEF SendError, Outcomes, Inv
<1>3. CASE SkipFlush
  <2>1. pc' \in Steps \ {"read"}
    BY <1>3 DEF SkipFlush, LeaveFlush, Steps
  <2> QED BY <1>1, <1>3, <2>1, LoopMoves DEF SkipFlush, Inv, LoopTypes, relayVars, flagVars
<1> QED BY <1>2, <1>3
-----------------------------------------------------------------------------
(* The end of a pump, and the timers.                                      *)

LEMMA FinishPumpKeepsInv ==
  ASSUME Inv, FinishPump
  PROVE  Inv'
<1> USE DEF FinishPump, countVars, kernelVars
<1>1. QueueTypes' /\ KernelTypes' /\ Watermarks' /\ Accounting' /\ Ends' /\ Links'
  BY DEF Inv, RelayInv, QueueTypes, KernelTypes, Watermarks, Accounting, Ends, Links
<1>2. FlagTypes'
  <2>1. write_open' \in [Sides -> BOOLEAN]
    BY DEF PropagateHalfCloses, Inv, RelayInv, FlagTypes
  <2>2. interest' \in [Sides -> [read : BOOLEAN, write : BOOLEAN]]
    <3>1. CASE UNCHANGED interest
      BY <3>1 DEF Inv, RelayInv, FlagTypes
    <3>2. CASE interest' = [s \in Sides |-> DesiredInterest(s)']
      <4>1. ASSUME NEW s \in Sides
            PROVE  DesiredInterest(s)' \in [read : BOOLEAN, write : BOOLEAN]
        BY DEF DesiredInterest
      <4> QED BY <3>2, <4>1
    <3> QED BY <3>1, <3>2 DEF wakeVars
  <2> QED BY <2>1, <2>2 DEF Inv, RelayInv, FlagTypes
<1>3. BucketsLegal'
  <2>1. ASSUME NEW s \in Sides PROVE IsBucket(Refilled(s)) /\ IsBucket(bucket[s])
    BY RefilledLegal DEF Inv, RelayInv, BucketsLegal
  <2>2. CASE UNCHANGED bucket
    BY <2>2 DEF Inv, RelayInv, BucketsLegal
  <2>3. CASE bucket' = [s \in Sides |-> IF Writable(Other(s))' /\ size[s] > 0
                                        THEN Refilled(s) ELSE bucket[s]]
    BY <2>1, <2>3 DEF BucketsLegal, IsBucket
  <2> QED BY <2>2, <2>3
<1>4. EofIsFaithful'
  <2> SUFFICES ASSUME NEW d \in Sides, ~write_open'[d], ~(d = "Client" /\ half_close_injected)
               PROVE  /\ fin[Other(d)] /\ rcv[Other(d)] = 0
                      /\ bytes_written[d] = bytes_read[Other(d)]
    BY DEF EofIsFaithful
  <2>1. CASE ~write_open[d]
    BY <2>1 DEF Inv, RelayInv, EofIsFaithful
  <2>2. CASE write_open[d]
    <3>1. ~read_open[Other(d)] /\ size[Other(d)] = 0
      BY <2>2 DEF PropagateHalfCloses
    <3>2. bytes_read[Other(d)] = bytes_written[d] + size[Other(d)] /\ bytes_written[d] \in Nat
      BY OtherSide DEF Inv, RelayInv, Accounting, QueueTypes
    <3> QED BY <3>1, <3>2, OtherSide DEF Inv, RelayInv, Ends
  <2> QED BY <2>1, <2>2
<1>5. LoopTypes' /\ EventsHold'
  <2>1. CASE Close("fully_closed")
    BY <2>1, CloseLoop DEF Outcomes
  <2>2. CASE ~Close("fully_closed")
    <3>1. pc' \in Steps \ {"read"} /\ UNCHANGED <<outcome, source, hint, batch>>
      BY <2>2 DEF Steps
    <3> QED BY <3>1, LoopMoves DEF Inv, LoopTypes
  <2> QED BY <2>1, <2>2
<1> QED BY <1>1, <1>2, <1>3, <1>4, <1>5 DEF Inv, RelayInv

LEMMA TimersKeepInv ==
  ASSUME Inv, (\E e \in batch : TimerFired(e)) \/ PopDue \/ TimersDone
  PROVE  Inv'
<1>1. RelayInv'
  BY RelayKept DEF TimerFired, PopDue, TimersDone, Inv, wakeVars
<1>2. /\ pc' \in Steps \ {"read"} /\ source' \in Sides \cup {"Timer", "none"}
      /\ batch' \subseteq batch /\ UNCHANGED <<outcome, hint, upstream_connecting, kernelVars>>
  BY DEF TimerFired, PopDue, TimersDone, EnterPump, Steps, Inv, LoopTypes, relayVars, flagVars
<1> QED BY <1>1, <1>2, LoopMoves DEF Inv, LoopTypes
-----------------------------------------------------------------------------
\* A timeout or a shutdown closes the connection and touches nothing else.
LEMMA InterruptKeepsInv ==
  ASSUME Inv, Interrupt
  PROVE  Inv'
<1> USE DEF Interrupt, TimedOut, ProxyShutdown
<1>1. RelayInv'
  BY RelayKept DEF Inv, wakeVars
<1>2. LoopTypes' /\ EventsHold'
  BY CloseLoop DEF Outcomes
<1> QED BY <1>1, <1>2 DEF Inv

\* Every step keeps the invariant.
LEMMA NextKeepsInv == Inv /\ [Next]_vars => Inv'
<1> SUFFICES ASSUME Inv, [Next]_vars PROVE Inv'
  OBVIOUS
<1>1. CASE Peers
  BY <1>1, PeersKeepInv
<1>2. CASE Tick
  BY <1>2, TickKeepsInv
<1>3. CASE Loop
  BY <1>3, EpollWaitKeepsInv, SocketReadyKeepsInv, TimersKeepInv, ReceiveBytesKeepsInv,
     SendBytesKeepsInv, ReceiveEndsKeepInv, FlushEndsKeepInv, EndFlushKeepsInv,
     FinishPumpKeepsInv
     DEF Loop
<1>4. CASE UNCHANGED vars
  <2>1. RelayInv'
    BY <1>4, RelayKept DEF vars, Inv, wakeVars
  <2>2. LoopTypes' /\ EventsHold'
    BY <1>4, LoopKept DEF vars, Inv, Dead, kernelVars, relayVars, flagVars
  <2> QED BY <2>1, <2>2 DEF Inv
<1>5. CASE Interrupt
  BY <1>5, InterruptKeepsInv
<1> QED BY <1>1, <1>2, <1>3, <1>4, <1>5 DEF Next

LEMMA Invariance == Spec => []Inv
  BY InitInv, NextKeepsInv, PTL DEF Spec

\* Every variable keeps its type, and the ring's indices stay inside the buffer.
THEOREM RelayTypeCorrect == Spec => []TypeOK
  BY Invariance, InvTyped, PTL

\* The queue never exceeds the high-water mark, and reads are paused only above
\* the low one: handle_readable never offers recv() an empty buffer.
THEOREM WatermarksHold == Spec => []Watermarks
<1>1. Inv => Watermarks
  BY DEF Inv, RelayInv
<1> QED BY <1>1, Invariance, PTL

\* No byte is lost or duplicated, however writes are cut short.
THEOREM NothingLost == Spec => []Accounting
<1>1. Inv => Accounting
  BY DEF Inv, RelayInv
<1> QED BY <1>1, Invariance, PTL

\* An end of stream is forwarded only after every byte that preceded it.
THEOREM EofForwardedFaithfully == Spec => []EofIsFaithful
<1>1. Inv => EofIsFaithful
  BY DEF Inv, RelayInv
<1> QED BY <1>1, Invariance, PTL
-----------------------------------------------------------------------------
(* The life of one connection: the state it reports only moves forward, an *)
(* orderly close leaves nothing behind, and the byte budgets of the        *)
(* lifecycle faults never pass unnoticed.                                  *)

\* A connection is closed when close_connection gave it a final state; it is
\* closed in order only when fully_drained held.
ClosedOnce ==
  /\ pc = "closed" <=> outcome # "open"
  /\ outcome = "fully_closed" => FullyDrained

\* Nothing is read from an upstream that is still connecting.
ConnectingIsSilent == upstream_connecting => read_open["Upstream"]

\* The half-close fault shuts the client's side down when it is injected.
InjectionShuts == half_close_injected => ~write_open["Client"]

\* A reset budget is exceeded only inside the flush that exceeded it: that flush
\* can still write, so it ends in check_lifecycle_faults.
ResetPending ==
  pc # "closed" /\ InjectsReset => Flushing /\ Writable(Destination)

\* A half-close budget is exceeded, with the client's side still open, only
\* inside the flush to the client.
HalfClosePending ==
  pc # "closed" /\ InjectsHalfClose => pc = "flush_client"

LifeInv ==
  ClosedOnce /\ ConnectingIsSilent /\ InjectionShuts /\ ResetPending /\ HalfClosePending

\* The lifecycle, as a step: the property LifecycleAdvances says it of every step.
LifecycleStep ==
  ReportedState' # ReportedState =>
    /\ outcome = "open"
    /\ outcome' = "open" => ReportedState' \in OpenSuccessors(ReportedState)
    /\ outcome' = "fully_closed" => ReportedState = "draining"
-----------------------------------------------------------------------------
LEMMA InitLifeInv == Init => LifeInv
<1> SUFFICES ASSUME Init PROVE LifeInv
  OBVIOUS
<1>1. ClosedOnce /\ InjectionShuts
  BY DEF Init, ClosedOnce, InjectionShuts
<1>3. ConnectingIsSilent
  BY Zenon DEF Init, ConnectingIsSilent, Sides
<1>2. ResetPending /\ HalfClosePending
  BY ConfigAssumption DEF Init, ResetPending, HalfClosePending, InjectsReset, InjectsHalfClose, Sides
<1> QED BY <1>1, <1>2, <1>3 DEF LifeInv

\* What a step of a closed connection would have to do: there is none.
LEMMA ClosedIsFinal ==
  ASSUME Inv, LifeInv, Next
  PROVE  outcome = "open" /\ pc # "closed"
<1>1. CASE Peers
  BY <1>1 DEF Peers, PeerSend, PeerShutdown, PeerRead, PeerReset, ConnectCompletes, PeerActive,
     LifeInv, ClosedOnce
<1>2. CASE Tick
  BY <1>2 DEF Tick, LifeInv, ClosedOnce
<1>3. CASE Loop
  BY <1>3 DEF Loop, EpollWait, SocketReady, TimerFired, ReceiveBytes, SendBytes, ReceiveEof,
     ReceiveWouldBlock, ReceiveError, StopReading, SendError, SkipFlush, EndFlush, FinishPump,
     PopDue, TimersDone, Reading, Flushing, LifeInv, ClosedOnce
<1>4. CASE Interrupt
  BY <1>4 DEF Interrupt, TimedOut, ProxyShutdown, LifeInv, ClosedOnce
<1> QED BY <1>1, <1>2, <1>3, <1>4 DEF Next
-----------------------------------------------------------------------------
(* Steps that change neither the flags nor the counters.                   *)

LEMMA FrameKeepsLife ==
  ASSUME Inv, LifeInv, UNCHANGED <<flagVars, bytes_written, outcome>>, outcome = "open",
         pc' # "closed", pc' = pc \/ ~Flushing
  PROVE  LifeInv' /\ LifecycleStep
<1> USE DEF flagVars, LifeInv
<1>1. ClosedOnce' /\ ConnectingIsSilent' /\ InjectionShuts'
  BY DEF ClosedOnce, ConnectingIsSilent, InjectionShuts
<1>2. ResetPending' /\ HalfClosePending'
  BY DEF ResetPending, HalfClosePending, InjectsReset, InjectsHalfClose, Flushing,
     Destination, Writable, ClosedOnce
<1>3. LifecycleStep
  BY DEF LifecycleStep, ReportedState, ConnectionState
<1> QED BY <1>1, <1>2, <1>3

\* Any open connection may be reset, fail, time out or be shut down.
LEMMA CloseKeepsLife ==
  ASSUME Inv, LifeInv, outcome = "open",
         NEW final \in {"reset", "failed", "timed_out", "proxy_shutdown"}, Close(final),
         UNCHANGED <<upstream_connecting, read_open>>, InjectionShuts'
  PROVE  LifeInv' /\ LifecycleStep
<1> USE DEF Close, LifeInv
<1>1. ClosedOnce' /\ ConnectingIsSilent' /\ ResetPending' /\ HalfClosePending'
  BY DEF ClosedOnce, ConnectingIsSilent, ResetPending, HalfClosePending
<1>3. LifecycleStep
  BY DEF LifecycleStep
<1> QED BY <1>1, <1>3

\* The lifecycle moves on when the connect ends or a source ends, in that order.
LEMMA FlagsKeepLife ==
  ASSUME Inv, LifeInv, outcome = "open", UNCHANGED outcome,
         upstream_connecting' \in BOOLEAN, upstream_connecting' => upstream_connecting,
         \/ UNCHANGED read_open
         \/ /\ UNCHANGED upstream_connecting
            /\ \E s \in Sides : /\ read_open' = [read_open EXCEPT ![s] = FALSE]
                                /\ s = "Upstream" => ~upstream_connecting
  PROVE  ConnectingIsSilent' /\ LifecycleStep
<1>1. read_open \in [Sides -> BOOLEAN] /\ ConnectingIsSilent /\ upstream_connecting \in BOOLEAN
  BY DEF Inv, RelayInv, FlagTypes, LifeInv
<1>2. ConnectingIsSilent'
  BY <1>1 DEF ConnectingIsSilent, Sides
<1>3. LifecycleStep
  <2>1. CASE UNCHANGED read_open
    BY <1>1, <2>1 DEF LifecycleStep, ReportedState, ConnectionState, OpenSuccessors, Sides,
       ConnectingIsSilent
  <2>2. ASSUME UNCHANGED upstream_connecting, NEW s \in Sides,
               read_open' = [read_open EXCEPT ![s] = FALSE],
               s = "Upstream" => ~upstream_connecting
        PROVE  LifecycleStep
    BY <1>1, <2>2 DEF LifecycleStep, ReportedState, ConnectionState, OpenSuccessors, Sides
  <2> QED BY <2>1, <2>2
<1> QED BY <1>2, <1>3
-----------------------------------------------------------------------------
(* One lemma per group of actions.                                         *)

LEMMA PeersKeepLife ==
  ASSUME Inv, LifeInv, Peers \/ Tick \/ EpollWait
  PROVE  LifeInv' /\ LifecycleStep
<1>1. outcome = "open" /\ pc # "closed"
  BY ClosedIsFinal DEF Next, Loop
<1>2. UNCHANGED <<flagVars, bytes_written, outcome, pc>>
  BY DEF Peers, PeerSend, PeerShutdown, PeerRead, PeerReset, ConnectCompletes, Tick, EpollWait,
     relayVars, countVars, loopVars
<1> QED BY <1>1, <1>2, FrameKeepsLife

LEMMA InterruptKeepsLife ==
  ASSUME Inv, LifeInv, outcome = "open", Interrupt
  PROVE  LifeInv' /\ LifecycleStep
<1>1. /\ UNCHANGED flagVars
      /\ \E final \in {"reset", "failed", "timed_out", "proxy_shutdown"} : Close(final)
  BY DEF Interrupt, TimedOut, ProxyShutdown, relayVars
<1> QED BY <1>1, CloseKeepsLife DEF flagVars, LifeInv, InjectionShuts

LEMMA TimersKeepLife ==
  ASSUME Inv, LifeInv, outcome = "open",
         (\E e \in batch : TimerFired(e)) \/ PopDue \/ TimersDone \/ StopReading
  PROVE  LifeInv' /\ LifecycleStep
<1>1. UNCHANGED <<flagVars, bytes_written, outcome>> /\ ~Flushing
  BY DEF TimerFired, PopDue, TimersDone, StopReading, relayVars, countVars, Flushing
<1>2. pc' # "closed"
  BY DEF TimerFired, PopDue, TimersDone, StopReading, LeaveReading, EnterPump
<1> QED BY <1>1, <1>2, FrameKeepsLife

LEMMA SocketReadyKeepsLife ==
  ASSUME Inv, LifeInv, outcome = "open", NEW e \in batch, SocketReady(e)
  PROVE  LifeInv' /\ LifecycleStep
<1> USE DEF SocketReady
<1>1. CASE ConnectFailed(e) \/ SocketFailed(e)
  <2>1. UNCHANGED flagVars /\ \E final \in {"reset", "failed"} : Close(final)
    BY <1>1 DEF ConnectFailed, SocketFailed, relayVars
  <2> QED BY <2>1, CloseKeepsLife DEF flagVars, LifeInv, InjectionShuts
<1>2. CASE SocketUsable(e)
  <2> USE <1>2 DEF SocketUsable, countVars, LifeInv
  <2>1. ConnectingIsSilent' /\ LifecycleStep
    BY FlagsKeepLife DEF Inv, RelayInv, FlagTypes
  <2>2. ClosedOnce' /\ InjectionShuts'
    BY DEF ClosedOnce, InjectionShuts, EnterPump
  <2>3. ResetPending' /\ HalfClosePending'
    BY DEF ResetPending, HalfClosePending, InjectsReset, InjectsHalfClose, Flushing
  <2> QED BY <2>1, <2>2, <2>3
<1> QED BY <1>1, <1>2

LEMMA ReceiveKeepsLife ==
  ASSUME Inv, LifeInv, outcome = "open",
         \/ \E bytes \in 1 .. Capacity : ReceiveBytes(bytes)
         \/ ReceiveEof \/ ReceiveWouldBlock \/ ReceiveError
  PROVE  LifeInv' /\ LifecycleStep
<1>1. ASSUME NEW bytes \in 1 .. Capacity, ReceiveBytes(bytes) PROVE LifeInv' /\ LifecycleStep
  <2>1. UNCHANGED <<flagVars, bytes_written, outcome, pc>> /\ pc # "closed"
    BY <1>1 DEF ReceiveBytes, Reading, loopVars
  <2> QED BY <2>1, FrameKeepsLife
<1>2. CASE ReceiveError
  <2>1. UNCHANGED flagVars /\ Close("reset")
    BY <1>2 DEF ReceiveError, relayVars
  <2> QED BY <2>1, CloseKeepsLife DEF flagVars, LifeInv, InjectionShuts
<1>3. CASE ReceiveEof \/ ReceiveWouldBlock
  <2> USE <1>3 DEF ReceiveEof, ReceiveWouldBlock, countVars, LifeInv
  <2>1. pc = "read" /\ source \in Sides /\ (source = "Upstream" => ~upstream_connecting)
    BY DEF Reading, Inv, LoopTypes, EventsHold
  <2>2. UNCHANGED read_open \/ read_open' = [read_open EXCEPT ![source] = FALSE]
    BY DEF NoteHalfClosed
  <2>3. ConnectingIsSilent' /\ LifecycleStep
    BY <2>1, <2>2, FlagsKeepLife DEF Inv, RelayInv, FlagTypes
  <2>4. ClosedOnce' /\ InjectionShuts'
    BY DEF ClosedOnce, InjectionShuts, LeaveReading, EnterPump
  <2>5. ResetPending' /\ HalfClosePending'
    BY <2>1 DEF ResetPending, HalfClosePending, InjectsReset, InjectsHalfClose, Flushing
  <2> QED BY <2>3, <2>4, <2>5
<1> QED BY <1>1, <1>2, <1>3

\* A flush that writes can still write; one that cannot write has written nothing.
LEMMA FlushKeepsLife ==
  ASSUME Inv, LifeInv, outcome = "open",
         (\E bytes \in 1 .. Capacity : SendBytes(bytes)) \/ SendError \/ SkipFlush
  PROVE  LifeInv' /\ LifecycleStep
<1>1. ASSUME NEW bytes \in 1 .. Capacity, SendBytes(bytes) PROVE LifeInv' /\ LifecycleStep
  <2> USE <1>1 DEF SendBytes, flagVars, loopVars, LifeInv
  <2>1. ClosedOnce' /\ ConnectingIsSilent' /\ InjectionShuts'
    BY DEF ClosedOnce, ConnectingIsSilent, InjectionShuts
  <2>2. ResetPending'
    BY DEF ResetPending, Flushing, Destination, Writable
  <2>3. HalfClosePending'
    <3>1. CASE pc = "flush_client"
      BY <3>1 DEF HalfClosePending
    <3>2. CASE pc # "flush_client"
      <4>1. bytes_written'["Client"] = bytes_written["Client"]
        BY <3>2 DEF CountWritten, Flushing, Destination, Inv, RelayInv, QueueTypes, Sides
      <4> QED BY <3>2, <4>1 DEF HalfClosePending, InjectsHalfClose
    <3> QED BY <3>1, <3>2
  <2>4. LifecycleStep
    BY DEF LifecycleStep, ReportedState, ConnectionState
  <2> QED BY <2>1, <2>2, <2>3, <2>4
<1>2. CASE SendError
  <2>1. UNCHANGED flagVars /\ Close("reset")
    BY <1>2 DEF SendError, relayVars
  <2> QED BY <2>1, CloseKeepsLife DEF flagVars, LifeInv, InjectionShuts
<1>3. CASE SkipFlush
  <2> USE <1>3 DEF SkipFlush, relayVars, flagVars, countVars, LifeInv
  <2>1. ClosedOnce' /\ ConnectingIsSilent' /\ InjectionShuts'
    BY DEF ClosedOnce, ConnectingIsSilent, InjectionShuts, LeaveFlush
  <2>2. ResetPending' /\ HalfClosePending'
    BY DEF ResetPending, HalfClosePending, InjectsReset, InjectsHalfClose, Flushing, Writable,
       Destination, ClosedOnce, LeaveFlush
  <2>3. LifecycleStep
    BY DEF LifecycleStep, ReportedState, ConnectionState
  <2> QED BY <2>1, <2>2, <2>3
<1> QED BY <1>1, <1>2, <1>3

\* check_lifecycle_faults acts on every budget the flush has exceeded.
LEMMA EndFlushKeepsLife ==
  ASSUME Inv, LifeInv, outcome = "open", EndFlush
  PROVE  LifeInv' /\ LifecycleStep
<1> USE DEF EndFlush, countVars, LifeInv
<1>1. InjectionShuts'
  BY DEF InjectionShuts, Inv, RelayInv, FlagTypes, Sides
<1>2. CASE InjectsReset
  BY <1>1, <1>2, CloseKeepsLife
<1>3. CASE ~InjectsReset
  <2>1. ClosedOnce' /\ pc' # "closed"
    BY <1>3 DEF ClosedOnce, LeaveFlush
  <2>2. ConnectingIsSilent' /\ LifecycleStep
    BY <1>3, FlagsKeepLife DEF Inv, RelayInv, FlagTypes
  <2>3. ResetPending'
    BY <1>3 DEF ResetPending, InjectsReset
  <2>4. HalfClosePending'
    BY <1>3 DEF HalfClosePending, InjectsHalfClose, Inv, RelayInv, FlagTypes, Sides
  <2> QED BY <1>1, <2>1, <2>2, <2>3, <2>4
<1> QED BY <1>2, <1>3

LEMMA FinishPumpKeepsLife ==
  ASSUME Inv, LifeInv, outcome = "open", FinishPump
  PROVE  LifeInv' /\ LifecycleStep
<1> USE DEF FinishPump, countVars, LifeInv
<1>1. InjectionShuts' /\ ConnectingIsSilent'
  BY DEF InjectionShuts, ConnectingIsSilent, PropagateHalfCloses, Sides
<1>2. ResetPending' /\ HalfClosePending'
  <2>1. ~InjectsReset /\ ~InjectsHalfClose
    BY DEF ResetPending, HalfClosePending, Flushing
  <2>2. ~InjectsReset' /\ ~InjectsHalfClose'
    BY <2>1 DEF InjectsReset, InjectsHalfClose, PropagateHalfCloses, Sides
  <2> QED BY <2>2 DEF ResetPending, HalfClosePending
<1>3. CASE FullyDrained' /\ Close("fully_closed")
  <2>1. ClosedOnce'
    BY <1>3 DEF ClosedOnce, Close
  <2>2. LifecycleStep
    <3>1. ConnectionState = "draining"
      <4>1. ~read_open["Client"] /\ ~read_open["Upstream"]
        BY <1>3 DEF FullyDrained, Sides
      <4> QED BY <4>1 DEF ConnectingIsSilent, ConnectionState, Sides
    <3> QED BY <1>3, <3>1 DEF LifecycleStep, ReportedState, OpenSuccessors, Close
  <2> QED BY <1>1, <1>2, <2>1, <2>2
<1>4. CASE UNCHANGED outcome /\ pc' \in {"timers", "loop"}
  <2>1. ClosedOnce'
    BY <1>4 DEF ClosedOnce
  <2>2. LifecycleStep
    BY <1>4, FlagsKeepLife DEF Inv, RelayInv, FlagTypes
  <2> QED BY <1>1, <1>2, <2>1, <2>2
<1> QED BY <1>3, <1>4
-----------------------------------------------------------------------------
\* Every step keeps the invariant and moves the reported state forward.
LEMMA NextKeepsLife == Inv /\ LifeInv /\ [Next]_vars => LifeInv' /\ (LifecycleStep \/ UNCHANGED vars)
<1> SUFFICES ASSUME Inv, LifeInv, [Next]_vars
             PROVE  LifeInv' /\ (LifecycleStep \/ UNCHANGED vars)
  OBVIOUS
<1>1. CASE UNCHANGED vars
  BY <1>1 DEF vars, relayVars, queueVars, flagVars, countVars, loopVars, LifeInv, ClosedOnce,
     FullyDrained, ConnectingIsSilent, InjectionShuts, ResetPending, HalfClosePending, InjectsReset,
     InjectsHalfClose, Flushing, Destination, Writable
<1>2. CASE Next
  <2>1. outcome = "open"
    BY <1>2, ClosedIsFinal
  <2> QED BY <1>2, <2>1, PeersKeepLife, TimersKeepLife, SocketReadyKeepsLife, ReceiveKeepsLife,
             FlushKeepsLife, EndFlushKeepsLife, FinishPumpKeepsLife, InterruptKeepsLife DEF Next, Loop
<1> QED BY <1>1, <1>2

LEMMA LifeInvariance == Spec => [](Inv /\ LifeInv)
<1>1. Init => LifeInv
  BY InitLifeInv
<1>2. Inv /\ LifeInv /\ [Next]_vars => LifeInv'
  BY NextKeepsLife
<1> QED BY <1>1, <1>2, Invariance, PTL DEF Spec

\* A connection reported as fully closed left no byte behind in either
\* direction: fully_drained, read off the queues and flags alone, is enough.
THEOREM OrderlyCloseLosesNothing == Spec => []OrderlyCloseIsComplete
<1>1. Inv /\ LifeInv => OrderlyCloseIsComplete
  <2> SUFFICES ASSUME Inv, LifeInv, outcome = "fully_closed", NEW s \in Sides
               PROVE  /\ fin[s] /\ rcv[s] = 0
                      /\ \/ bytes_written[Other(s)] = bytes_read[s]
                         \/ s = "Upstream" /\ half_close_injected
    BY DEF OrderlyCloseIsComplete
  <2>1. ~read_open[s] /\ (size[s] = 0 \/ ~write_open[Other(s)])
    BY DEF LifeInv, ClosedOnce, FullyDrained
  <2>2. fin[s] /\ rcv[s] = 0
    BY <2>1 DEF Inv, RelayInv, Ends
  <2>3. CASE size[s] = 0
    BY <2>2, <2>3, OtherSide DEF Inv, RelayInv, Accounting, QueueTypes
  <2>4. CASE ~write_open[Other(s)]
    BY <2>2, <2>4, OtherSide DEF Inv, RelayInv, EofIsFaithful, Other, Sides
  <2> QED BY <2>1, <2>2, <2>3, <2>4
<1> QED BY <1>1, LifeInvariance, PTL

\* However the bytes arrive and however writes are cut short, the loop never
\* goes back to waiting with a lifecycle fault due and not injected.
THEOREM FaultsInjectedInTime == Spec => []BudgetsTrigger
<1>1. Inv /\ LifeInv => BudgetsTrigger
  <2> SUFFICES ASSUME Inv, LifeInv, pc = "loop"
               PROVE  /\ ResetAfter > 0 =>
                            bytes_written["Client"] + bytes_written["Upstream"] < ResetAfter
                      /\ HalfCloseAfter > 0 /\ bytes_written["Client"] >= HalfCloseAfter
                            => ~write_open["Client"]
    BY DEF BudgetsTrigger
  <2>1. ~InjectsReset /\ ~InjectsHalfClose
    BY DEF LifeInv, ResetPending, HalfClosePending, Flushing
  <2> QED BY <2>1, ConfigAssumption
          DEF LifeInv, InjectsReset, InjectsHalfClose, InjectionShuts, Inv, RelayInv, QueueTypes, Sides
<1> QED BY <1>1, LifeInvariance, PTL

\* The state reported for a connection only moves forward: no open state is
\* revisited, nothing follows a close, and the relay's own orderly close comes
\* from "draining", when timeouts and a shutdown may strike at any moment.
THEOREM LifecycleHolds == Spec => LifecycleAdvances
<1>1. Inv /\ LifeInv /\ [Next]_vars => [LifecycleStep]_vars
  BY NextKeepsLife
<1>2. Spec => [][LifecycleStep]_vars
  BY <1>1, LifeInvariance, PTL DEF Spec
<1> QED BY <1>2 DEF LifecycleAdvances, LifecycleStep
=============================================================================
