-------------------------- MODULE RelayTimingProofs --------------------------
(***************************************************************************)
(* What the fault channels hold back, for every configuration: the delay   *)
(* line keeps in step with the queue, the rate limit is respected over the *)
(* life of the connection, and no byte is held back without something that *)
(* will wake the loop for it.                                              *)
(***************************************************************************)
EXTENDS RelayProofs

\* Eligibility is bounded by the clock: the latest stamp is at most one delay away.
StampsBounded ==
  \A s \in Sides : HasDelay(s) => last_eligible[s] <= now + Latency + Jitter

\* What was sent and the credit left were earned by the last refill, which is
\* not in the future.
Earned ==
  \A s \in Sides : HasBucket(s) =>
    /\ bucket[s].last <= now
    /\ bytes_written[Other(s)] * NanosPerSecond + CreditOf(bucket[s])
         <= Burst * NanosPerSecond + Rate * bucket[s].last

TimingInv == DelayLineInStep /\ StampsBounded /\ Earned

\* Between handlers the masks are those of desired_interest, for reads exactly.
ReadsWatched ==
  pc \in {"loop", "timers"} =>
    \A s \in Sides : interest[s].read <=> /\ read_open[s] /\ ~read_paused[s]
                                          /\ ~(s = "Upstream" /\ upstream_connecting)

\* The recorded wake is an entry of the heap.
WakeInHeap ==
  /\ IsABag(pump_timers)
  /\ scheduled_wake \subseteq BagToSet(pump_timers) /\ scheduled_wake \subseteq Nat

\* A wake at w comes in time for a queue: no later than its first byte becomes
\* eligible, or than the tokens are earned that some releasable bytes wait for.
InTime(w, s) ==
  \/ HasDelay(s) /\ w <= stamps[s][1]
  \/ /\ HasBucket(s)
     /\ \E q \in 1 .. Burst : /\ bucket[s].tokens < q /\ q <= ReleaseQuantum(Releasable(s))
                              /\ w <= bucket[s].last + EarnTime(q - bucket[s].tokens)

\* Between handlers, bytes that may not go yet have a recorded wake in time.
HeldBytesCovered ==
  pc \in {"loop", "timers"} =>
    \A d \in Sides : Writable(d) /\ size[Other(d)] > 0 /\ ~interest[d].write
                       => \E w \in scheduled_wake : InTime(w, Other(d))

WakeInv == ReadsWatched /\ WakeInHeap /\ HeldBytesCovered

\* The heap's new entries are in the future: WakesAreAhead says it of every step.
WakesStep ==
  \A w \in BagToSet(pump_timers') :
     Entries(w, pump_timers') > Entries(w, pump_timers) => w > now

\* A destination is held back by time alone.
Held(d) ==
  /\ Writable(d) /\ size[Other(d)] > 0 /\ FaultSendable(Other(d), size[Other(d)]) = 0

\* next_wake of such a destination, once its bucket is refilled: a time ahead, and
\* every wake until then is in time.
WakeAhead ==
  \A d \in Sides : Held(d) /\ (HasBucket(Other(d)) => bucket[Other(d)].last = now) =>
    \E x \in Nat : /\ NextWake(d) = {x} /\ x > now
                   /\ \A w \in Nat : w <= x => InTime(w, Other(d))

\* What desired_interest asks for: reads exactly, writes unless time holds them back.
MasksDesired ==
  \A d \in Sides :
     /\ DesiredInterest(d).read <=> /\ read_open[d] /\ ~read_paused[d]
                                    /\ ~(d = "Upstream" /\ upstream_connecting)
     /\ Writable(d) /\ size[Other(d)] > 0 /\ ~DesiredInterest(d).write => Held(d)

\* Nothing else has a wake.
NoOtherWake == \A d \in Sides : NextWake(d) # {} => Held(d)
-----------------------------------------------------------------------------
(* The rate limit.                                                         *)

\* Where a fault channel has a bucket, the arithmetic lemmas apply.
LEMMA BucketParameters ==
  ASSUME NEW s \in Sides, HasBucket(s)
  PROVE  Parameters
  BY ConfigAssumption DEF HasBucket, Parameters

\* A refill earns no more than the rate over the elapsed time.
LEMMA RefillEarns ==
  ASSUME Parameters, NEW b, IsBucket(b), NEW t \in Nat, t >= b.last, NEW sent \in Nat,
         sent * NanosPerSecond + CreditOf(b) <= Burst * NanosPerSecond + Rate * b.last
  PROVE  sent * NanosPerSecond + CreditOf(Refill(b, t)) <= Burst * NanosPerSecond + Rate * t
<1> DEFINE N == NanosPerSecond
           e == (t - b.last) * Rate
<1>1. /\ b.last \in Nat /\ Rate \in Nat /\ N \in Nat /\ Burst \in Nat
  BY DEF IsBucket, Parameters
<1>2. /\ sent * N \in Nat /\ Burst * N \in Nat /\ Rate * b.last \in Nat
  BY <1>1, TimesNat
<1>3. Rate * t = Rate * b.last + e
  BY <1>1
<1>4. CreditOf(b) \in Nat
  BY CreditBound
<1>5. e \in Nat /\ CreditOf(Refill(b, t)) = Lesser(CreditOf(b) + e, Burst * N)
  BY RefillAt
<1> HIDE DEF N, e
<1>6. CreditOf(Refill(b, t)) <= CreditOf(b) + e /\ CreditOf(Refill(b, t)) \in Nat
  BY <1>2, <1>4, <1>5 DEF Lesser
<1>7. sent * N + CreditOf(b) <= Burst * N + Rate * b.last
  BY DEF N
<1> QED BY <1>2, <1>3, <1>4, <1>5, <1>6, <1>7 DEF N

\* What is taken from the bucket is what is sent.
LEMMA TakeSpends ==
  ASSUME Parameters, NEW b, IsBucket(b), NEW sent \in Nat, NEW bytes \in Nat,
         bytes <= b.tokens
  PROVE  /\ (sent + bytes) * NanosPerSecond + CreditOf(Take(b, bytes))
              = sent * NanosPerSecond + CreditOf(b)
         /\ Take(b, bytes).last = b.last
<1> DEFINE N == NanosPerSecond
           k == b.tokens
           c == b.carry
<1>1. k \in Nat /\ c \in Nat /\ N \in Nat
  BY DEF IsBucket, Parameters
<1>2. CreditOf(Take(b, bytes)) = (k - bytes) * N + c /\ Take(b, bytes).last = b.last
  BY DEF Take, IsBucket, CreditOf
<1>3. CreditOf(b) = k * N + c
  BY DEF CreditOf
<1> HIDE DEF N, k, c
<1>4. (sent + bytes) * N = sent * N + bytes * N /\ (k - bytes) * N = k * N - bytes * N
  BY <1>1
<1>5. sent * N \in Nat /\ bytes * N \in Nat /\ k * N \in Nat
  BY <1>1, TimesNat
<1> QED BY <1>1, <1>2, <1>3, <1>4, <1>5 DEF N

\* The bucket of a side, as the invariants type it.
LEMMA SideBucket ==
  ASSUME Inv, TimingInv, NEW s \in Sides, HasBucket(s)
  PROVE  /\ Parameters /\ IsBucket(bucket[s]) /\ now \in Nat /\ now >= bucket[s].last
         /\ bytes_written[Other(s)] \in Nat
         /\ bytes_written[Other(s)] * NanosPerSecond + CreditOf(bucket[s])
              <= Burst * NanosPerSecond + Rate * bucket[s].last
         /\ Refilled(s) = Refill(bucket[s], now)
         /\ IsBucket(Refilled(s)) /\ Refilled(s).last = now
         /\ bytes_written[Other(s)] * NanosPerSecond + CreditOf(Refilled(s))
              <= Burst * NanosPerSecond + Rate * now
<1>1. /\ Parameters /\ IsBucket(bucket[s]) /\ now \in Nat /\ bytes_written[Other(s)] \in Nat
  BY BucketParameters, OtherSide DEF Inv, RelayInv, BucketsLegal, FlagTypes, QueueTypes
<1>2. /\ now >= bucket[s].last
      /\ bytes_written[Other(s)] * NanosPerSecond + CreditOf(bucket[s])
              <= Burst * NanosPerSecond + Rate * bucket[s].last
  BY <1>1 DEF TimingInv, Earned, IsBucket
<1>3. Refilled(s) = Refill(bucket[s], now)
  BY DEF Refilled
<1>4. IsBucket(Refill(bucket[s], now)) /\ Refill(bucket[s], now).last = now
  BY <1>1, <1>2, RefillAt
<1>5. bytes_written[Other(s)] * NanosPerSecond + CreditOf(Refill(bucket[s], now))
              <= Burst * NanosPerSecond + Rate * now
  BY <1>1, <1>2, RefillEarns
<1> QED BY <1>1, <1>2, <1>3, <1>4, <1>5

\* Refills in any handler keep the account.
LEMMA RefillsKeepEarned ==
  ASSUME Inv, TimingInv, UNCHANGED <<bytes_written, now>>,
         \A s \in Sides : bucket'[s] = bucket[s] \/ bucket'[s] = Refilled(s)
  PROVE  Earned'
<1> SUFFICES ASSUME NEW s \in Sides, HasBucket(s)
             PROVE  /\ bucket'[s].last <= now
                    /\ bytes_written[Other(s)] * NanosPerSecond + CreditOf(bucket'[s])
                         <= Burst * NanosPerSecond + Rate * bucket'[s].last
  BY DEF Earned, HasBucket, CreditOf
<1>1. CASE bucket'[s] = bucket[s]
  BY <1>1 DEF TimingInv, Earned
<1>2. CASE bucket'[s] = Refilled(s)
  BY <1>2, SideBucket
<1> QED BY <1>1, <1>2
-----------------------------------------------------------------------------
(* The delay line.                                                         *)

\* Equal stamps, no earlier than the ones before them, keep the line sorted.
LEMMA AppendStamps ==
  ASSUME NEW q \in Seq(Nat), NEW t \in Nat, NEW bytes \in Nat,
         \A i, j \in 1 .. Len(q) : i <= j => q[i] <= q[j],
         \A i \in 1 .. Len(q) : q[i] <= t
  PROVE  LET r == q \o [i \in 1 .. bytes |-> t]
         IN  /\ Len(r) = Len(q) + bytes
             /\ \A i, j \in 1 .. Len(r) : i <= j => r[i] <= r[j]
             /\ \A i \in 1 .. Len(r) : r[i] <= t
<1> DEFINE copies == [i \in 1 .. bytes |-> t]
           r == q \o copies
<1>1. copies \in Seq(Nat) /\ Len(copies) = bytes /\ \A i \in 1 .. bytes : copies[i] = t
  <2>1. copies \in Seq(Nat)
    BY IsASeq
  <2>2. DOMAIN copies = 1 .. bytes /\ DOMAIN copies = 1 .. Len(copies) /\ Len(copies) \in Nat
    BY <2>1, LenProperties
  <2> QED BY <2>1, <2>2
<1> HIDE DEF copies
<1>2. Len(q) \in Nat
  BY LenProperties
<1>3. /\ Len(r) = Len(q) + bytes
      /\ \A i \in 1 .. Len(q) + bytes : r[i] = IF i <= Len(q) THEN q[i] ELSE copies[i - Len(q)]
  BY <1>1, ConcatProperties
<1> HIDE DEF r
<1>4. \A i \in 1 .. Len(r) : r[i] = IF i <= Len(q) THEN q[i] ELSE t
  BY <1>1, <1>2, <1>3
<1>5. \A i, j \in 1 .. Len(r) : i <= j => r[i] <= r[j]
  BY <1>2, <1>3, <1>4, ElementOfSeq
<1>6. \A i \in 1 .. Len(r) : r[i] <= t
  BY <1>2, <1>3, <1>4
<1> QED BY <1>3, <1>5, <1>6 DEF r, copies

\* Consuming the front of the line keeps the rest in order.
LEMMA DropStamps ==
  ASSUME NEW q \in Seq(Nat), NEW bytes \in Nat, bytes <= Len(q), NEW t,
         \A i, j \in 1 .. Len(q) : i <= j => q[i] <= q[j],
         \A i \in 1 .. Len(q) : q[i] <= t
  PROVE  LET r == SubSeq(q, bytes + 1, Len(q))
         IN  /\ Len(r) = Len(q) - bytes
             /\ \A i, j \in 1 .. Len(r) : i <= j => r[i] <= r[j]
             /\ \A i \in 1 .. Len(r) : r[i] <= t
<1> DEFINE r == SubSeq(q, bytes + 1, Len(q))
<1>1. Len(q) \in Nat
  BY LenProperties
<1>2. ASSUME NEW i \in bytes + 1 .. Len(q) PROVE q[i] \in Nat
  <2>1. i \in 1 .. Len(q)
    BY <1>1
  <2> QED BY <2>1, ElementOfSeq
<1>3. Len(r) = Len(q) - bytes /\ \A i \in 1 .. Len(q) - bytes : r[i] = q[bytes + i]
  <2>1. PICK n \in Int : n = Len(q)
    BY <1>1
  <2>2. PICK m \in Int : m = bytes + 1
    OBVIOUS
  <2>3. \A i \in m .. n : q[i] \in Nat
    BY <1>2, <2>1, <2>2
  <2>4. /\ Len(SubSeq(q, m, n)) = IF m <= n THEN n - m + 1 ELSE 0
        /\ \A i \in 1 .. n - m + 1 : SubSeq(q, m, n)[i] = q[m + i - 1]
    BY <2>3, SubSeqProperties
  <2>5. r = SubSeq(q, m, n) /\ n - m + 1 = Len(q) - bytes
    BY <1>1, <2>1, <2>2
  <2> HIDE DEF r
  <2>6. \A i \in 1 .. n - m + 1 : r[i] = q[bytes + i]
    BY <2>2, <2>4, <2>5
  <2>7. Len(r) = n - m + 1
    BY <1>1, <2>1, <2>2, <2>4, <2>5
  <2> QED BY <2>5, <2>6, <2>7
<1> HIDE DEF r
<1>4. ASSUME NEW i \in 1 .. Len(r), NEW j \in 1 .. Len(r), i <= j PROVE r[i] <= r[j]
  <2>1. bytes + i \in 1 .. Len(q) /\ bytes + j \in 1 .. Len(q) /\ bytes + i <= bytes + j
    BY <1>1, <1>3, <1>4
  <2> QED BY <1>3, <2>1
<1>5. \A i \in 1 .. Len(r) : r[i] <= t
  BY <1>1, <1>3
<1> QED BY <1>3, <1>4, <1>5 DEF r
-----------------------------------------------------------------------------
(* Every step keeps the delay line and the account.                        *)

LEMMA InitTiming == Init => TimingInv
<1> SUFFICES ASSUME Init PROVE TimingInv
  OBVIOUS
<1> USE ConfigAssumption
<1>1. DelayLineInStep
  <2>1. \A s \in Sides : Len(stamps[s]) = 0 /\ size[s] = 0
    BY DEF Init
  <2> QED BY <2>1 DEF DelayLineInStep
<1>2. StampsBounded
  BY DEF Init, StampsBounded
<1>3. Earned
  BY OtherSide DEF Init, Earned, FullBucket, CreditOf
<1> QED BY <1>1, <1>2, <1>3 DEF TimingInv

LEMMA TickKeepsTiming ==
  ASSUME Inv, TimingInv, Tick
  PROVE  TimingInv'
<1> USE DEF Tick, relayVars, queueVars, countVars
<1>1. now \in Nat /\ now' = now + 1
  BY DEF Inv, RelayInv, FlagTypes
<1>2. ASSUME NEW s \in Sides, HasDelay(s)
      PROVE  /\ last_eligible[s] \in Nat
             /\ \A i \in 1 .. Len(stamps[s]) : stamps[s][i] \in Nat
  BY ElementOfSeq DEF Inv, RelayInv, QueueTypes
<1>3. DelayLineInStep'
  BY <1>1, <1>2, ConfigAssumption DEF TimingInv, DelayLineInStep, HasDelay
<1>4. StampsBounded'
  BY <1>1, <1>2, ConfigAssumption DEF TimingInv, StampsBounded, HasDelay
<1>5. Earned'
  <2>1. \A s \in Sides : HasBucket(s) => bucket[s].last \in Nat
    BY SideBucket DEF IsBucket
  <2> QED BY <1>1, <2>1 DEF TimingInv, Earned, HasBucket, CreditOf
<1> QED BY <1>3, <1>4, <1>5 DEF TimingInv

\* A segment read is stamped no earlier than its predecessors.
LEMMA ReceiveKeepsTiming ==
  ASSUME Inv, TimingInv, NEW bytes \in 1 .. Capacity, ReceiveBytes(bytes)
  PROVE  TimingInv'
<1> DEFINE s == source
<1> USE DEF ReceiveBytes
<1>0. s \in Sides /\ bytes \in Nat /\ Capacity \in Nat /\ Latency \in Nat /\ Jitter \in Nat
  BY ConfigAssumption DEF Reading, Inv, LoopTypes
<1>1. Earned'
  BY DEF TimingInv, Earned, HasBucket, CreditOf
<1>2. /\ stamps \in [Sides -> Seq(Nat)] /\ last_eligible \in [Sides -> Nat] /\ now \in Nat
      /\ size \in [Sides -> 0 .. Capacity]
  BY DEF Inv, RelayInv, QueueTypes, FlagTypes
<1>3. size'[s] = size[s] + bytes /\ \A r \in Sides : r # s => size'[r] = size[r]
  BY <1>0, <1>2
<1>4. CASE ~HasDelay(s)
  <2>1. UNCHANGED <<last_eligible, stamps>>
    BY <1>4 DEF StampIngress
  <2>2. \A r \in Sides : HasDelay(r) => r # s
    BY <1>4
  <2> QED BY <1>1, <1>3, <2>1, <2>2 DEF TimingInv, DelayLineInStep, StampsBounded, HasDelay
<1>5. CASE HasDelay(s)
  <2>1. PICK jitter \in -Jitter .. Jitter :
          /\ last_eligible' = [last_eligible EXCEPT ![s] = Eligible(s, jitter)]
          /\ stamps' = [stamps EXCEPT ![s] = @ \o [i \in 1 .. bytes |-> Eligible(s, jitter)]]
    BY <1>5 DEF StampIngress
  <2>2. last_eligible[s] <= now + Latency + Jitter
    BY <1>0, <1>5 DEF TimingInv, StampsBounded
  <2>3. /\ Eligible(s, jitter) \in Nat /\ Eligible(s, jitter) >= last_eligible[s]
        /\ Eligible(s, jitter) <= now + Latency + Jitter
    BY <1>0, <1>2, <2>2 DEF Eligible
  <2> DEFINE t == Eligible(s, jitter)
             q == stamps[s]
             r == q \o [i \in 1 .. bytes |-> t]
  <2>4. /\ Len(q) = size[s] /\ \A i, j \in 1 .. Len(q) : i <= j => q[i] <= q[j]
        /\ \A i \in 1 .. Len(q) : q[i] <= last_eligible[s]
    BY <1>0, <1>5 DEF TimingInv, DelayLineInStep
  <2>5. q \in Seq(Nat) /\ t \in Nat /\ \A i \in 1 .. Len(q) : q[i] <= t
    <3>1. q \in Seq(Nat) /\ last_eligible[s] \in Nat /\ t \in Nat
      BY <1>0, <1>2, <2>3
    <3>2. ASSUME NEW i \in 1 .. Len(q) PROVE q[i] \in Nat /\ q[i] <= last_eligible[s]
      BY <2>4, <3>1, ElementOfSeq
    <3> HIDE DEF t, q
    <3>3. t >= last_eligible[s]
      BY <2>3 DEF t
    <3> QED BY <3>1, <3>2, <3>3
  <2>6. /\ stamps'[s] = r /\ last_eligible'[s] = t
        /\ \A x \in Sides : x # s => stamps'[x] = stamps[x] /\ last_eligible'[x] = last_eligible[x]
    BY <1>0, <1>2, <2>1
  <2> HIDE DEF t, q
  <2>7. /\ Len(r) = Len(q) + bytes
        /\ \A i, j \in 1 .. Len(r) : i <= j => r[i] <= r[j]
        /\ \A i \in 1 .. Len(r) : r[i] <= t
    BY <1>0, <2>4, <2>5, AppendStamps
  <2>8. r \in Seq(Nat)
    <3>1. [i \in 1 .. bytes |-> t] \in Seq(Nat)
      BY <1>0, <2>5, IsASeq
    <3> QED BY <2>5, <3>1, ConcatProperties
  <2> HIDE DEF r
  <2>9. \A i \in 1 .. Len(r) : r[i] <= now + Latency + Jitter
    <3>1. t <= now + Latency + Jitter
      BY <2>3 DEF t
    <3> QED BY <1>0, <1>2, <2>5, <2>7, <2>8, <3>1, ElementOfSeq
  <2>10. DelayLineInStep'
    <3> SUFFICES ASSUME NEW x \in Sides, HasDelay(x)
                 PROVE  /\ Len(stamps'[x]) = size'[x]
                        /\ \A i, j \in 1 .. Len(stamps'[x]) : i <= j => stamps'[x][i] <= stamps'[x][j]
                        /\ \A i \in 1 .. Len(stamps'[x]) : /\ stamps'[x][i] <= last_eligible'[x]
                                                          /\ stamps'[x][i] <= now + Latency + Jitter
      BY DEF DelayLineInStep, HasDelay
    <3>1. CASE x = s
      BY <1>3, <2>4, <2>6, <2>7, <2>9, <3>1
    <3>2. CASE x # s
      BY <1>3, <2>6, <3>2 DEF TimingInv, DelayLineInStep
    <3> QED BY <3>1, <3>2
  <2>11. StampsBounded'
    BY <2>3, <2>6 DEF TimingInv, StampsBounded, HasDelay, t
  <2> QED BY <1>1, <2>10, <2>11 DEF TimingInv
<1> QED BY <1>4, <1>5

\* The bytes sent leave the front of the line and are paid for by the bucket.
LEMMA SendKeepsTiming ==
  ASSUME Inv, TimingInv, NEW bytes \in 1 .. Capacity, SendBytes(bytes)
  PROVE  TimingInv'
<1> DEFINE d == Destination
           s == Other(d)
<1> USE DEF SendBytes
<1>0. /\ d \in Sides /\ s \in Sides /\ d = Other(s) /\ bytes \in Nat
      /\ bytes <= Budget(s) /\ Capacity \in Nat
  BY OtherSide, ConfigAssumption DEF Destination, Sides
<1> HIDE DEF Destination
<1>1. /\ stamps \in [Sides -> Seq(Nat)] /\ last_eligible \in [Sides -> Nat] /\ now \in Nat
      /\ size \in [Sides -> 0 .. Capacity] /\ bytes_written \in [Sides -> Nat]
      /\ DOMAIN bucket = Sides
  BY DEF Inv, RelayInv, QueueTypes, FlagTypes, BucketsLegal
<1>2. bytes <= size[s]
  BY <1>0, <1>1, BudgetBounds
<1>3. /\ size'[s] = size[s] - bytes /\ bytes_written'[d] = bytes_written[d] + bytes
      /\ bucket'[s] = Charged(s, bytes)
      /\ stamps'[s] = IF HasDelay(s) THEN SubSeq(stamps[s], bytes + 1, Len(stamps[s]))
                                     ELSE stamps[s]
      /\ \A r \in Sides : r # s => /\ size'[r] = size[r] /\ stamps'[r] = stamps[r]
                                   /\ bucket'[r] = bucket[r]
                                   /\ bytes_written'[Other(r)] = bytes_written[Other(r)]
      /\ UNCHANGED <<last_eligible, now>>
  BY <1>0, <1>1, OtherSide DEF CountWritten
<1> HIDE DEF s, d, SendBytes
<1>4. Earned'
  <2> SUFFICES ASSUME NEW r \in Sides, HasBucket(r)
               PROVE  /\ bucket'[r].last <= now
                      /\ bytes_written'[Other(r)] * NanosPerSecond + CreditOf(bucket'[r])
                           <= Burst * NanosPerSecond + Rate * bucket'[r].last
    BY <1>3 DEF Earned, HasBucket, CreditOf
  <2>1. CASE r # s
    BY <1>3, <2>1 DEF TimingInv, Earned
  <2>2. CASE r = s
    <3>1. bucket'[s] = Take(Refilled(s), bytes)
      BY <1>3, <2>2 DEF Charged
    <3>2. /\ Parameters /\ IsBucket(Refilled(s)) /\ Refilled(s).last = now /\ now \in Nat
          /\ bytes_written[d] \in Nat
          /\ Refilled(s) = Refill(bucket[s], now)
          /\ bytes_written[d] * NanosPerSecond + CreditOf(Refilled(s))
               <= Burst * NanosPerSecond + Rate * now
      BY <1>0, <2>2, SideBucket
    <3>3. bytes <= Refilled(s).tokens
      <4>1. Budget(s) <= Refilled(s).tokens /\ Budget(s) \in Nat
        BY <1>0, <1>1, <2>2, <3>2, BudgetBounds
      <4> QED BY <1>0, <3>2, <4>1 DEF IsBucket
    <3>4. /\ (bytes_written[d] + bytes) * NanosPerSecond + CreditOf(Take(Refilled(s), bytes))
               = bytes_written[d] * NanosPerSecond + CreditOf(Refilled(s))
          /\ Take(Refilled(s), bytes).last = now
      BY <1>0, <3>2, <3>3, TakeSpends
    <3> QED BY <1>0, <1>3, <2>2, <3>1, <3>2, <3>4
  <2> QED BY <2>1, <2>2
<1>5. DelayLineInStep'
  <2> SUFFICES ASSUME NEW r \in Sides, HasDelay(r)
               PROVE  /\ Len(stamps'[r]) = size'[r]
                      /\ \A i, j \in 1 .. Len(stamps'[r]) : i <= j => stamps'[r][i] <= stamps'[r][j]
                      /\ \A i \in 1 .. Len(stamps'[r]) : /\ stamps'[r][i] <= last_eligible[r]
                                                        /\ stamps'[r][i] <= now + Latency + Jitter
    BY <1>3 DEF DelayLineInStep, HasDelay
  <2>1. CASE r # s
    BY <1>3, <2>1 DEF TimingInv, DelayLineInStep
  <2>2. CASE r = s
    <3>1. /\ stamps[s] \in Seq(Nat) /\ Len(stamps[s]) = size[s] /\ bytes <= Len(stamps[s])
          /\ \A i, j \in 1 .. Len(stamps[s]) : i <= j => stamps[s][i] <= stamps[s][j]
          /\ \A i \in 1 .. Len(stamps[s]) : /\ stamps[s][i] <= last_eligible[s]
                                           /\ stamps[s][i] <= now + Latency + Jitter
      BY <1>0, <1>1, <1>2, <2>2 DEF TimingInv, DelayLineInStep
    <3> DEFINE q == SubSeq(stamps[s], bytes + 1, Len(stamps[s]))
    <3>2. /\ Len(q) = size[s] - bytes
          /\ \A i, j \in 1 .. Len(q) : i <= j => q[i] <= q[j]
          /\ \A i \in 1 .. Len(q) : q[i] <= last_eligible[s]
      BY <1>0, <3>1, DropStamps
    <3>3. \A i \in 1 .. Len(q) : q[i] <= now + Latency + Jitter
      BY <1>0, <3>1, DropStamps
    <3>4. stamps'[r] = q /\ size'[r] = size[s] - bytes
      BY <1>3, <2>2
    <3> HIDE DEF q
    <3> QED BY <2>2, <3>2, <3>3, <3>4
  <2> QED BY <2>1, <2>2
<1>6. StampsBounded'
  BY <1>3 DEF TimingInv, StampsBounded, HasDelay
<1> QED BY <1>4, <1>5, <1>6 DEF TimingInv

\* The steps that refill: EndFlush for one queue, FinishPump for both.
LEMMA RefillsKeepTiming ==
  ASSUME Inv, TimingInv, EndFlush \/ FinishPump
  PROVE  TimingInv'
<1>1. UNCHANGED <<size, stamps, last_eligible, bytes_written, now>>
  BY DEF EndFlush, FinishPump, countVars
<1>2. DelayLineInStep' /\ StampsBounded'
  BY <1>1 DEF TimingInv, DelayLineInStep, StampsBounded, HasDelay
<1>3. \A s \in Sides : bucket'[s] = bucket[s] \/ bucket'[s] = Refilled(s)
  <2>1. DOMAIN bucket = Sides
    BY DEF Inv, RelayInv, BucketsLegal
  <2>2. CASE EndFlush
    BY <2>1, <2>2 DEF EndFlush
  <2>3. CASE FinishPump
    <3>1. \/ UNCHANGED bucket
          \/ bucket' = [s \in Sides |-> IF Writable(Other(s))' /\ size[s] > 0
                                        THEN Refilled(s) ELSE bucket[s]]
      BY <2>3 DEF FinishPump
    <3> QED BY <2>1, <3>1
  <2> QED BY <2>2, <2>3
<1>4. Earned'
  BY <1>1, <1>3, RefillsKeepEarned
<1> QED BY <1>2, <1>4 DEF TimingInv

LEMMA NextKeepsTiming == Inv /\ TimingInv /\ [Next]_vars => TimingInv'
<1> SUFFICES ASSUME Inv, TimingInv, [Next]_vars PROVE TimingInv'
  OBVIOUS
<1>1. ASSUME UNCHANGED <<size, stamps, last_eligible, bucket, bytes_written, now>>
      PROVE  TimingInv'
  BY <1>1 DEF TimingInv, DelayLineInStep, StampsBounded, Earned, HasDelay, HasBucket, CreditOf
<1>2. CASE Tick \/ EndFlush \/ FinishPump
  BY <1>2, TickKeepsTiming, RefillsKeepTiming
<1>3. CASE \E bytes \in 1 .. Capacity : ReceiveBytes(bytes) \/ SendBytes(bytes)
  BY <1>3, ReceiveKeepsTiming, SendKeepsTiming
<1>4. CASE Peers
  BY <1>1, <1>4 DEF Peers, PeerSend, PeerShutdown, PeerRead, PeerReset, ConnectCompletes,
     relayVars, queueVars, countVars
<1>5. CASE EpollWait \/ \E e \in batch : SocketReady(e) \/ TimerFired(e)
  BY <1>1, <1>5 DEF EpollWait, SocketReady, ConnectFailed, SocketFailed, SocketUsable, TimerFired,
     relayVars, queueVars, countVars
<1>6. CASE ReceiveEof \/ ReceiveWouldBlock \/ ReceiveError \/ StopReading
  BY <1>1, <1>6 DEF ReceiveEof, ReceiveWouldBlock, ReceiveError, StopReading,
     relayVars, queueVars, countVars
<1>7. CASE SendError \/ SkipFlush \/ PopDue \/ TimersDone \/ Interrupt
  BY <1>1, <1>7 DEF SendError, SkipFlush, PopDue, TimersDone, Interrupt, TimedOut, ProxyShutdown,
     relayVars, queueVars, countVars
<1>8. CASE UNCHANGED vars
  BY <1>1, <1>8 DEF vars, relayVars, queueVars, countVars
<1> QED BY <1>2, <1>3, <1>4, <1>5, <1>6, <1>7, <1>8 DEF Next, Loop

LEMMA TimingInvariance == Spec => [](Inv /\ TimingInv)
  BY Invariance, InitTiming, NextKeepsTiming, PTL DEF Spec

\* The delay line and the queue never drift apart, jitter never reorders the
\* stream, and no byte is held beyond the latency and the jitter.
THEOREM DelayLineStaysInStep == Spec => []DelayLineInStep
<1>1. TimingInv => DelayLineInStep
  BY DEF TimingInv
<1> QED BY <1>1, TimingInvariance, PTL

\* The rate limit over the life of the connection: however reads, partial
\* writes and wakes fall, no more is sent than a burst and what the rate earned.
THEOREM RateIsRespected == Spec => []RateRespected
<1>1. Inv /\ TimingInv => RateRespected
  <2> SUFFICES ASSUME Inv, TimingInv, NEW d \in Sides, HasBucket(Other(d))
               PROVE  bytes_written[d] * NanosPerSecond <= Burst * NanosPerSecond + Rate * now
    BY DEF RateRespected
  <2> DEFINE s == Other(d)
             N == NanosPerSecond
             sent == bytes_written[d] * N
  <2>1. s \in Sides /\ Other(s) = d
    BY OtherSide
  <2>2. /\ Parameters /\ IsBucket(Refilled(s)) /\ bytes_written[d] \in Nat /\ now \in Nat
        /\ sent + CreditOf(Refilled(s)) <= Burst * N + Rate * now
    BY <2>1, SideBucket
  <2>3. CreditOf(Refilled(s)) \in Nat /\ sent \in Nat /\ Burst * N \in Nat /\ Rate * now \in Nat
    BY <2>2, CreditBound, TimesNat DEF Parameters
  <2>4. sent <= Burst * N + Rate * now
    <3> HIDE DEF sent, N, s
    <3> QED BY <2>2, <2>3
  <2> QED BY <2>4
<1> QED BY <1>1, TimingInvariance, PTL
-----------------------------------------------------------------------------
(* What fault_sendable and next_wake say of the queue.                     *)

\* Without the clock in sight: the releasable bytes of a line at a time.
LEMMA EligiblePrefix ==
  ASSUME NEW q \in Seq(Nat), NEW t \in Nat
  PROVE  LET R == {i \in 1 .. Len(q) : \A j \in 1 .. i : q[j] <= t}
         IN  /\ IsFiniteSet(R) /\ Cardinality(R) \in 0 .. Len(q)
             /\ Len(q) > 0 => (Cardinality(R) = 0 <=> q[1] > t)
<1> DEFINE R == {i \in 1 .. Len(q) : \A j \in 1 .. i : q[j] <= t}
<1>1. Len(q) \in Nat /\ \A i \in 1 .. Len(q) : q[i] \in Nat
  BY LenProperties, ElementOfSeq
<1>2. /\ IsFiniteSet(1 .. Len(q)) /\ Cardinality(1 .. Len(q)) = Len(q)
      /\ R \in SUBSET (1 .. Len(q))
  BY <1>1, FS_Interval
<1>3. IsFiniteSet(R) /\ Cardinality(R) <= Len(q) /\ Cardinality(R) \in Nat
  BY <1>2, FS_Subset, FS_CardinalityType
<1>4. ASSUME Len(q) > 0 PROVE Cardinality(R) = 0 <=> q[1] > t
  <2>1. Cardinality(R) = 0 <=> R = {}
    BY <1>3, FS_EmptySet
  <2>2. q[1] <= t => 1 \in R
    BY <1>1, <1>4
  <2>3. ASSUME NEW i \in R PROVE q[1] <= t
    BY <1>1
  <2>4. q[1] \in Nat
    BY <1>1, <1>4
  <2> HIDE DEF R
  <2>5. R = {} <=> ~(q[1] <= t)
    BY <2>2, <2>3
  <2> QED BY <2>1, <2>4, <2>5
<1> QED BY <1>1, <1>3, <1>4

\* The channel releases queued bytes only, and none while the first is early.
LEMMA ReleasableBounds ==
  ASSUME Inv, TimingInv, NEW s \in Sides
  PROVE  /\ Releasable(s) \in Nat /\ Releasable(s) <= size[s] /\ size[s] \in Nat
         /\ size[s] > 0 /\ Releasable(s) = 0 => /\ HasDelay(s) /\ stamps[s][1] > now
                                               /\ stamps[s][1] \in Nat
         /\ HasDelay(s) /\ Releasable(s) > 0 => stamps[s][1] <= now
<1>1. stamps[s] \in Seq(Nat) /\ now \in Nat /\ size[s] \in Nat
  BY ConfigAssumption DEF Inv, RelayInv, QueueTypes, FlagTypes
<1>2. CASE HasDelay(s)
  <2>1. Len(stamps[s]) = size[s]
    BY <1>2 DEF TimingInv, DelayLineInStep
  <2>2. /\ Releasable(s) \in 0 .. size[s]
        /\ size[s] > 0 => (Releasable(s) = 0 <=> stamps[s][1] > now)
    BY <1>1, <1>2, <2>1, EligiblePrefix DEF Releasable
  <2>3. size[s] > 0 => stamps[s][1] \in Nat
    BY <1>1, <2>1, ElementOfSeq
  <2> QED BY <1>1, <1>2, <2>2, <2>3
<1>3. CASE ~HasDelay(s)
  BY <1>1, <1>3 DEF Releasable
<1> QED BY <1>2, <1>3

\* Time only adds to what is releasable.
LEMMA ReleasableGrows ==
  ASSUME Inv, TimingInv, NEW s \in Sides, now' \in Nat, now' >= now, UNCHANGED <<stamps, size>>
  PROVE  Releasable(s)' \in Nat /\ Releasable(s)' >= Releasable(s)
<1>1. stamps[s] \in Seq(Nat) /\ now \in Nat /\ size[s] \in Nat
  BY ConfigAssumption DEF Inv, RelayInv, QueueTypes, FlagTypes
<1> DEFINE R(t) == {i \in 1 .. Len(stamps[s]) : \A j \in 1 .. i : stamps[s][j] <= t}
<1>2. CASE HasDelay(s)
  <2>1. Releasable(s) = Cardinality(R(now)) /\ Releasable(s)' = Cardinality(R(now'))
    BY <1>2 DEF Releasable, HasDelay
  <2>2. IsFiniteSet(R(now')) /\ Cardinality(R(now')) \in Nat
    <3>1. PICK t \in Nat : t = now'
      OBVIOUS
    <3>2. IsFiniteSet(R(t)) /\ Cardinality(R(t)) \in 0 .. Len(stamps[s])
      BY <1>1, EligiblePrefix
    <3> QED BY <1>1, <3>1, <3>2, LenProperties
  <2>3. R(now) \in SUBSET R(now')
    <3>1. Len(stamps[s]) \in Nat /\ \A i \in 1 .. Len(stamps[s]) : stamps[s][i] \in Nat
      BY <1>1, LenProperties, ElementOfSeq
    <3> QED BY <1>1, <3>1
  <2>4. Cardinality(R(now)) <= Cardinality(R(now')) /\ Cardinality(R(now)) \in Nat
    <3> HIDE DEF R
    <3> QED BY <2>2, <2>3, FS_Subset, FS_CardinalityType
  <2> QED BY <2>1, <2>2, <2>4
<1>3. CASE ~HasDelay(s)
  BY <1>1, <1>3 DEF Releasable, HasDelay
<1> QED BY <1>2, <1>3

\* A larger offer asks for no smaller a quantum, and no quantum is empty.
LEMMA QuantumMonotone ==
  ASSUME NEW m \in Nat, NEW n \in Nat, m <= n
  PROVE  /\ ReleaseQuantum(m) \in 0 .. Burst /\ ReleaseQuantum(m) <= m
         /\ m > 0 => ReleaseQuantum(m) > 0
         /\ ReleaseQuantum(m) <= ReleaseQuantum(n)
  BY ConfigAssumption DEF ReleaseQuantum, Lesser

\* What may go of the whole queue may begin with its readable span: a flush
\* that desired_interest asks for has something to offer to send().
LEMMA SendableSpan ==
  ASSUME Inv, NEW s \in Sides, size[s] > 0, FaultSendable(s, size[s]) > 0
  PROVE  Budget(s) > 0
<1> DEFINE span == ReadableSpan(s)
           rel == Releasable(s)
           available == Refill(bucket[s], now).tokens
<1>1. /\ size[s] \in Nat /\ head[s] \in 0 .. Capacity - 1 /\ Capacity \in Nat
  BY ConfigAssumption DEF Inv, RelayInv, QueueTypes
<1>2. span \in Nat /\ span > 0 /\ span <= size[s]
  BY <1>1 DEF ReadableSpan, Lesser
<1>3. rel \in Nat
  BY ReleasableNat
<1>4. Budget(s) = FaultSendable(s, span)
  BY <1>1 DEF Budget
<1> HIDE DEF span, rel
<1>5. CASE ~HasBucket(s)
  <2>1. FaultSendable(s, size[s]) = Lesser(size[s], rel) /\ Budget(s) = Lesser(span, rel)
    BY <1>4, <1>5 DEF FaultSendable, rel
  <2> QED BY <1>1, <1>2, <1>3, <2>1 DEF Lesser
<1>6. CASE HasBucket(s)
  <2> DEFINE whole == Lesser(size[s], rel)
             part == Lesser(span, rel)
  <2>1. available \in Nat
    BY <1>6, RefilledLegal, ConfigAssumption DEF IsBucket
  <2>2. whole \in Nat /\ part \in Nat /\ part <= whole /\ (whole > 0 => part > 0)
    BY <1>1, <1>2, <1>3 DEF Lesser
  <2>3. /\ FaultSendable(s, size[s]) = IF available < ReleaseQuantum(whole) THEN 0
                                       ELSE Lesser(whole, available)
        /\ Budget(s) = IF available < ReleaseQuantum(part) THEN 0 ELSE Lesser(part, available)
    BY <1>4, <1>6 DEF FaultSendable, rel
  <2> HIDE DEF whole, part, available
  <2>4. ReleaseQuantum(part) \in Nat /\ ReleaseQuantum(whole) \in Nat
        /\ ReleaseQuantum(part) <= ReleaseQuantum(whole)
    BY <2>2, QuantumMonotone, ConfigAssumption
  <2> QED BY <2>1, <2>2, <2>3, <2>4 DEF Lesser
<1> QED BY <1>5, <1>6

\* The events the proxy asks for never wake it in vain: what it asked for still
\* can be done, or the mask is corrected.
THEOREM ReadinessIsActedOn == Spec => []RequestedReadinessActs
<1>1. Inv => RequestedReadinessActs
  <2> SUFFICES ASSUME Inv, NEW s \in Sides, Reported(s) \cap {"IN", "RDHUP", "OUT"} # {},
                      DesiredInterest(s) = interest[s]
               PROVE  Acts(s)
    BY DEF RequestedReadinessActs, Acts
  <2> DEFINE connecting == s = "Upstream" /\ upstream_connecting
  <2>1. /\ Reported(s) \subseteq Mask(s)
        /\ "IN" \in Mask(s) \/ "RDHUP" \in Mask(s) => interest[s].read
        /\ "OUT" \in Mask(s) => interest[s].write
    BY DEF Reported, Mask
  <2>2. CASE Reported(s) \cap {"IN", "RDHUP"} # {}
    <3>1. interest[s].read
      BY <2>1, <2>2
    <3>2. DesiredInterest(s).read
      BY <3>1, Zenon
    <3>3. DesiredInterest(s).read <=> ~connecting /\ read_open[s] /\ ~read_paused[s]
      BY Zenon DEF DesiredInterest
    <3> QED BY <2>2, <3>2, <3>3 DEF Acts
  <2>3. CASE "OUT" \in Reported(s)
    <3>1. interest[s].write
      BY <2>1, <2>3
    <3>2. CASE connecting
      BY <2>3, <3>2 DEF Acts
    <3>3. CASE ~connecting
      <4>1. /\ write_open[s] /\ size[Other(s)] > 0
            /\ FaultSendable(Other(s), size[Other(s)]) > 0
        BY <3>1, <3>3 DEF DesiredInterest
      <4>2. Budget(Other(s)) > 0
        BY <4>1, SendableSpan, OtherSide
      <4>3. Writable(s)
        BY <3>3, <4>1 DEF Writable
      <4> QED BY <2>3, <4>2, <4>3 DEF Acts
    <3> QED BY <3>2, <3>3
  <2> QED BY <2>2, <2>3
<1> QED BY <1>1, Invariance, PTL

LEMMA NextWakeAhead == Inv /\ TimingInv => WakeAhead /\ NoOtherWake
<1> SUFFICES ASSUME Inv, TimingInv, NEW d \in Sides
             PROVE  /\ Held(d) /\ (HasBucket(Other(d)) => bucket[Other(d)].last = now) =>
                         \E x \in Nat : /\ NextWake(d) = {x} /\ x > now
                                        /\ \A w \in Nat : w <= x => InTime(w, Other(d))
                    /\ NextWake(d) # {} => Held(d)
  BY DEF WakeAhead, NoOtherWake
<1> DEFINE s == Other(d)
           rel == Releasable(s)
<1>1. s \in Sides
  BY OtherSide
<1>2. /\ rel \in Nat /\ rel <= size[s] /\ size[s] \in Nat /\ now \in Nat
      /\ FaultSendable(s, size[s]) \in Nat
  BY <1>1, ReleasableBounds, FaultSendableBounds DEF Inv, RelayInv, FlagTypes
<1>3. NextWake(d) # {} => Held(d)
  BY <1>2 DEF NextWake, Held
<1>4. ASSUME Held(d), HasBucket(s) => bucket[s].last = now
      PROVE  \E x \in Nat : /\ NextWake(d) = {x} /\ x > now
                            /\ \A w \in Nat : w <= x => InTime(w, s)
  <2>1. size[s] > 0 /\ FaultSendable(s, size[s]) = 0 /\ Writable(d)
    BY <1>4 DEF Held
  <2>2. CASE rel = 0
    <3>1. HasDelay(s) /\ stamps[s][1] > now /\ stamps[s][1] \in Nat
      BY <1>1, <2>1, <2>2, ReleasableBounds
    <3>2. NextWake(d) = {stamps[s][1]}
      BY <1>2, <2>1, <2>2 DEF NextWake
    <3> QED BY <3>1, <3>2 DEF InTime
  <2>3. CASE rel > 0
    <3> DEFINE q == ReleaseQuantum(rel)
               tokens == bucket[s].tokens
               x == now + EarnTime(q - tokens)
    <3>1. Lesser(size[s], rel) = rel
      BY <1>2 DEF Lesser
    <3>2. HasBucket(s)
      BY <1>2, <2>1, <2>3, <3>1 DEF FaultSendable
    <3>3. Parameters /\ IsBucket(bucket[s]) /\ bucket[s].last = now
      BY <1>1, <1>4, <3>2, SideBucket
    <3>4. Refill(bucket[s], now) = bucket[s]
      BY <1>2, <3>3 DEF Refill
    <3>5. tokens \in 0 .. Burst /\ q \in 1 .. Burst /\ q <= rel
      BY <1>2, <2>3, <3>3, QuantumMonotone, ConfigAssumption DEF IsBucket
    <3>6. FaultSendable(s, size[s]) = IF tokens < q THEN 0 ELSE Lesser(rel, tokens)
      BY <3>1, <3>2, <3>4 DEF FaultSendable
    <3> HIDE DEF q, tokens, rel
    <3>7. tokens < q
      BY <1>2, <2>1, <2>3, <3>5, <3>6, ConfigAssumption DEF Lesser
    <3>8. EarnTime(q - tokens) \in Nat /\ EarnTime(q - tokens) > 0
      <4>1. q - tokens \in 1 .. Burst
        BY <3>5, <3>7, ConfigAssumption
      <4>2. /\ EarnTime(q - tokens) \in Nat
            /\ EarnTime(q - tokens) * Rate >= (q - tokens) * NanosPerSecond
        BY <3>3, <4>1, EarnTimeBounds, ConfigAssumption
      <4>3. (q - tokens) * NanosPerSecond >= NanosPerSecond
        <5>1. 1 * NanosPerSecond <= (q - tokens) * NanosPerSecond
          BY <4>1, TimesMonotone, ConfigAssumption
        <5> QED BY <5>1, ConfigAssumption
      <4>4. EarnTime(q - tokens) # 0
        <5> SUFFICES ASSUME EarnTime(q - tokens) = 0 PROVE FALSE
          OBVIOUS
        <5>1. EarnTime(q - tokens) * Rate = 0
          BY ConfigAssumption
        <5>2. (q - tokens) * NanosPerSecond \in Int
          BY <4>1, ConfigAssumption
        <5> QED BY <4>2, <4>3, <5>1, <5>2, ConfigAssumption
      <4> QED BY <4>2, <4>4
    <3>9. NextWake(d) = {x}
      <4>1. NextWake(d) = {EligibleAt(bucket[s], q, now)}
        BY <1>2, <2>1, <2>3 DEF NextWake, q, rel
      <4>2. Lesser(q, Burst) = q
        BY <3>5, ConfigAssumption DEF Lesser
      <4>3. EligibleAt(bucket[s], q, now) = x
        BY <3>4, <3>5, <3>7, <4>2, ConfigAssumption DEF EligibleAt, tokens
      <4> QED BY <4>1, <4>3
    <3>10. ASSUME NEW w \in Nat, w <= x PROVE InTime(w, s)
      BY <3>2, <3>3, <3>5, <3>7, <3>10 DEF InTime, q, tokens, rel
    <3> QED BY <1>2, <3>8, <3>9, <3>10
  <2> QED BY <1>2, <2>2, <2>3
<1> QED BY <1>3, <1>4
-----------------------------------------------------------------------------
(* Every step keeps the wakes.                                             *)

LEMMA InitWake == Init => WakeInv
<1> SUFFICES ASSUME Init PROVE WakeInv
  OBVIOUS
<1>1. ReadsWatched
  <2> SUFFICES ASSUME NEW s \in Sides
               PROVE  interest[s].read <=> /\ read_open[s] /\ ~read_paused[s]
                                           /\ ~(s = "Upstream" /\ upstream_connecting)
    BY DEF ReadsWatched
  <2>1. read_open[s] = TRUE /\ read_paused[s] = FALSE
    BY Zenon DEF Init
  <2>2. interest[s].read <=> ~(s = "Upstream" /\ upstream_connecting)
    BY Zenon DEF Init
  <2> QED BY <2>1, <2>2
<1>2. WakeInHeap
  BY DEF Init, WakeInHeap, EmptyBag, SetToBag, IsABag, BagToSet
<1>3. HeldBytesCovered
  BY OtherSide DEF Init, HeldBytesCovered
<1> QED BY <1>1, <1>2, <1>3 DEF WakeInv

\* Between handlers only the clock and the kernel move; time brings no wake
\* later than it was.
LEMMA WaitingKeepsWake ==
  ASSUME Inv, TimingInv, WakeInv, now' \in Nat, now' >= now, pc \in {"loop", "timers"},
         UNCHANGED <<upstream_connecting, read_open, write_open, size, read_paused, stamps, bucket,
                     interest, scheduled_wake, pump_timers>>
  PROVE  WakeInv' /\ WakesStep
<1>1. ReadsWatched' /\ WakeInHeap' /\ WakesStep
  <2>1. \A w \in BagToSet(pump_timers) : Entries(w, pump_timers) \in Nat
    BY DEF WakeInv, WakeInHeap, IsABag, BagToSet, Entries, BagIn
  <2> QED BY <2>1 DEF WakeInv, ReadsWatched, WakeInHeap, WakesStep
<1>2. HeldBytesCovered'
  <2> SUFFICES ASSUME NEW d \in Sides, Writable(d), size[Other(d)] > 0, ~interest[d].write
               PROVE  \E w \in scheduled_wake : InTime(w, Other(d))'
    BY DEF HeldBytesCovered, Writable
  <2> DEFINE s == Other(d)
  <2>1. PICK w \in scheduled_wake : InTime(w, s)
    BY DEF WakeInv, HeldBytesCovered
  <2>2. s \in Sides
    BY OtherSide
  <2>3. CASE HasDelay(s) /\ w <= stamps[s][1]
    BY <2>3 DEF InTime, HasDelay
  <2>4. ASSUME HasBucket(s), NEW q \in 1 .. Burst, bucket[s].tokens < q,
               q <= ReleaseQuantum(Releasable(s)),
               w <= bucket[s].last + EarnTime(q - bucket[s].tokens)
        PROVE  InTime(w, s)'
    <3>1. Releasable(s) \in Nat /\ Releasable(s)' \in Nat /\ Releasable(s) <= Releasable(s)'
      BY <2>2, ReleasableGrows, ReleasableNat
    <3>2. ReleaseQuantum(Releasable(s)) \in Nat /\ ReleaseQuantum(Releasable(s)') \in Nat
          /\ ReleaseQuantum(Releasable(s)) <= ReleaseQuantum(Releasable(s)')
      BY <3>1, QuantumMonotone, ConfigAssumption
    <3>3. q <= ReleaseQuantum(Releasable(s)')
      BY <2>4, <3>2, ConfigAssumption
    <3> QED BY <2>4, <3>3 DEF InTime, HasBucket
  <2> QED BY <2>1, <2>3, <2>4 DEF InTime
<1> QED BY <1>1, <1>2 DEF WakeInv

\* A handler that is under way answers for nothing but the heap.
LEMMA HandlerKeepsWake ==
  ASSUME WakeInv, pc' \notin {"loop", "timers"}, UNCHANGED <<scheduled_wake, pump_timers>>
  PROVE  WakeInv' /\ WakesStep
<1>1. \A w \in BagToSet(pump_timers) : Entries(w, pump_timers) \in Nat
  BY DEF WakeInv, WakeInHeap, IsABag, BagToSet, Entries, BagIn
<1>2. WakesStep
  BY <1>1 DEF WakesStep
<1>3. WakeInHeap'
  BY DEF WakeInv, WakeInHeap
<1> QED BY <1>2, <1>3 DEF WakeInv, ReadsWatched, HeldBytesCovered

\* What is popped is due; a wake recorded for later stays in the heap.
LEMMA PopDueKeepsWakes ==
  ASSUME Inv, WakeInv, PopDue
  PROVE  WakeInv' /\ WakesStep
<1>1. PICK d \in BagToSet(pump_timers) : /\ d <= now
                                         /\ pump_timers' = pump_timers (-) SetToBag({d})
  BY DEF PopDue
<1>2. DOMAIN pump_timers = BagToSet(pump_timers) /\ IsABag(pump_timers)
      /\ \A e \in DOMAIN pump_timers : pump_timers[e] \in Nat /\ pump_timers[e] > 0
  BY DEF WakeInv, WakeInHeap, BagToSet, IsABag
<1> DEFINE B == [e \in DOMAIN pump_timers |-> IF e = d THEN pump_timers[e] - 1
                                                      ELSE pump_timers[e]]
<1>3. pump_timers' = [e \in {x \in DOMAIN pump_timers : B[x] > 0} |-> B[e]]
  BY <1>1 DEF (-), SetToBag
<1>4. /\ \A e \in DOMAIN pump_timers : e # d => e \in DOMAIN pump_timers'
      /\ \A e \in DOMAIN pump_timers' : /\ e \in DOMAIN pump_timers
                                        /\ pump_timers'[e] \in Nat /\ pump_timers'[e] > 0
                                        /\ pump_timers'[e] <= pump_timers[e]
  BY <1>2, <1>3
<1>5. IsABag(pump_timers')
  <2>1. pump_timers' = [e \in DOMAIN pump_timers' |-> pump_timers'[e]]
    BY <1>3
  <2> QED BY <1>4, <2>1 DEF IsABag
<1>6. scheduled_wake' \subseteq BagToSet(pump_timers') /\ scheduled_wake' \subseteq Nat
  <2>1. scheduled_wake' = {w \in scheduled_wake : w > now}
    BY DEF PopDue
  <2>2. ASSUME NEW w \in scheduled_wake, w > now
        PROVE  w \in DOMAIN pump_timers' /\ w \in Nat
    <3>1. w \in DOMAIN pump_timers /\ w \in Nat
      BY DEF WakeInv, WakeInHeap, BagToSet
    <3>2. w # d
      BY <1>1, <2>2, <3>1 DEF Inv, RelayInv, FlagTypes
    <3> QED BY <1>4, <3>1, <3>2
  <2> QED BY <2>1, <2>2 DEF BagToSet
<1>7. WakesStep
  BY <1>2, <1>4 DEF WakesStep, Entries, BagIn, BagToSet
<1>8. pc' \notin {"loop", "timers"}
  BY DEF PopDue, EnterPump
<1> QED BY <1>5, <1>6, <1>7, <1>8 DEF WakeInv, ReadsWatched, WakeInHeap, HeldBytesCovered

LEMMA DesiredMasks == Inv => MasksDesired
<1> SUFFICES ASSUME Inv, NEW d \in Sides
             PROVE  /\ DesiredInterest(d).read <=> /\ read_open[d] /\ ~read_paused[d]
                                                   /\ ~(d = "Upstream" /\ upstream_connecting)
                    /\ Writable(d) /\ size[Other(d)] > 0 /\ ~DesiredInterest(d).write => Held(d)
  BY DEF MasksDesired
<1>1. Other(d) \in Sides /\ size[Other(d)] \in Nat
  BY OtherSide, ConfigAssumption DEF Inv, RelayInv, QueueTypes
<1>2. DesiredInterest(d).read <=> /\ read_open[d] /\ ~read_paused[d]
                                  /\ ~(d = "Upstream" /\ upstream_connecting)
  BY Zenon DEF DesiredInterest
<1>3. FaultSendable(Other(d), size[Other(d)]) \in Nat
  BY <1>1, FaultSendableBounds
<1>4. ASSUME Writable(d), size[Other(d)] > 0, ~DesiredInterest(d).write
      PROVE  ~(FaultSendable(Other(d), size[Other(d)]) > 0)
  <2>1. ~(d = "Upstream" /\ upstream_connecting) /\ write_open[d]
    BY <1>4 DEF Writable
  <2>2. DesiredInterest(d).write <=> /\ write_open[d] /\ size[Other(d)] > 0
                                     /\ FaultSendable(Other(d), size[Other(d)]) > 0
    BY <2>1, Zenon DEF DesiredInterest
  <2> QED BY <1>4, <2>1, <2>2
<1> QED BY <1>2, <1>3, <1>4 DEF Held

\* The earlier of two optional times.
LEMMA EarlierWake ==
  ASSUME NEW P, NEW Q, P = {} \/ (\E x \in Nat : P = {x}), Q = {} \/ (\E x \in Nat : Q = {x}),
         P \cup Q # {}
  PROVE  LET wake == CHOOSE w \in P \cup Q : \A v \in P \cup Q : w <= v
         IN  wake \in P \cup Q /\ \A v \in P \cup Q : wake <= v
<1>1. \E w \in P \cup Q : \A v \in P \cup Q : w <= v
  <2>1. CASE P = {} \/ Q = {}
    BY <2>1
  <2>2. ASSUME NEW x \in Nat, NEW y \in Nat, P = {x}, Q = {y}
        PROVE  \E w \in P \cup Q : \A v \in P \cup Q : w <= v
    <3>1. CASE x <= y
      BY <2>2, <3>1
    <3>2. CASE y <= x
      BY <2>2, <3>2
    <3> QED BY <3>1, <3>2
  <2> QED BY <2>1, <2>2
<1> QED BY <1>1

\* The end of a pump: the masks are those of desired_interest, and whatever is
\* held back by time has a wake, new or already scheduled, in time for it.
LEMMA FinishPumpKeepsWake ==
  ASSUME Inv, TimingInv, WakeInv, Inv', TimingInv', FinishPump
  PROVE  WakeInv' /\ WakesStep
<1>1. CASE Close("fully_closed") /\ UNCHANGED wakeVars
  BY <1>1, HandlerKeepsWake DEF Close, wakeVars
<1>2. ASSUME bucket' = [s \in Sides |-> IF Writable(Other(s))' /\ size[s] > 0
                                        THEN Refilled(s) ELSE bucket[s]],
             interest' = [s \in Sides |-> DesiredInterest(s)'],
             ScheduleRelayWake
      PROVE  WakeInv' /\ WakesStep
  <2> DEFINE U == NextWake("Upstream")'
             C == NextWake("Client")'
             wake == CHOOSE w \in U \cup C : \A v \in U \cup C : w <= v
             bag == pump_timers
  <2>1. now' = now /\ now \in Nat /\ UNCHANGED size
    BY DEF FinishPump, Inv, RelayInv, FlagTypes
  <2>2. ASSUME NEW d \in Sides, Held(d)'
        PROVE  HasBucket(Other(d))' => bucket'[Other(d)].last = now
    <3>1. Other(d) \in Sides /\ Other(Other(d)) = d
      BY OtherSide
    <3>2. Writable(d)' /\ size[Other(d)] > 0
      BY <2>1, <2>2 DEF Held
    <3>3. bucket'[Other(d)] = Refilled(Other(d))
      BY <1>2, <3>1, <3>2
    <3> QED BY <3>1, <3>3, SideBucket DEF HasBucket
  <2>3. (Inv /\ TimingInv => WakeAhead /\ NoOtherWake)'
    BY NextWakeAhead, PTL
  <2>4. ASSUME NEW d \in Sides, Held(d)'
        PROVE  \E x \in Nat : /\ NextWake(d)' = {x} /\ x > now
                              /\ \A w \in Nat : w <= x => InTime(w, Other(d))'
    BY <2>1, <2>2, <2>3, <2>4 DEF WakeAhead
  <2>5. ASSUME NEW d \in Sides
        PROVE  NextWake(d)' = {} \/ \E x \in Nat : NextWake(d)' = {x} /\ x > now
    BY <2>3, <2>4 DEF NoOtherWake
  <2>6. /\ U = {} \/ \E x \in Nat : U = {x} /\ x > now
        /\ C = {} \/ \E x \in Nat : C = {x} /\ x > now
    BY <2>5 DEF Sides
  <2>7. IF U \cup C # {} /\ \A w \in scheduled_wake : wake < w
        THEN /\ pump_timers' = bag (+) SetToBag({wake})
             /\ scheduled_wake' = {wake}
        ELSE UNCHANGED <<pump_timers, scheduled_wake>>
    BY <1>2 DEF ScheduleRelayWake
  <2> HIDE DEF U, C
  <2>8. ASSUME U \cup C # {}
        PROVE  wake \in U \cup C /\ wake > now /\ wake \in Nat /\ \A v \in U \cup C : wake <= v
    BY <2>6, <2>8, EarlierWake
  <2> HIDE DEF wake
  <2>9. /\ IsABag(bag) /\ scheduled_wake \subseteq DOMAIN bag /\ scheduled_wake \subseteq Nat
        /\ \A e \in DOMAIN bag : bag[e] \in Nat /\ bag[e] > 0
    BY DEF WakeInv, WakeInHeap, BagToSet, IsABag
  <2>10. WakeInHeap' /\ WakesStep
    <3>1. CASE UNCHANGED <<pump_timers, scheduled_wake>>
      BY <2>9, <3>1 DEF WakeInv, WakeInHeap, WakesStep, Entries, BagIn, BagToSet
    <3>2. CASE U \cup C # {} /\ pump_timers' = bag (+) SetToBag({wake}) /\ scheduled_wake' = {wake}
      <4>1. pump_timers' = [e \in DOMAIN bag \cup {wake} |->
                              (IF e \in DOMAIN bag THEN bag[e] ELSE 0)
                                + (IF e \in {wake} THEN 1 ELSE 0)]
        BY <3>2 DEF (+), SetToBag
      <4>2. /\ DOMAIN pump_timers' = DOMAIN bag \cup {wake}
            /\ \A e \in DOMAIN pump_timers' : /\ pump_timers'[e] \in Nat /\ pump_timers'[e] > 0
                                              /\ e # wake => /\ e \in DOMAIN bag
                                                             /\ pump_timers'[e] = bag[e]
        BY <2>9, <4>1
      <4>3. pump_timers' = [e \in DOMAIN pump_timers' |-> pump_timers'[e]]
        BY <4>1
      <4>4. IsABag(pump_timers')
        BY <4>2, <4>3 DEF IsABag
      <4>5. scheduled_wake' \subseteq BagToSet(pump_timers') /\ scheduled_wake' \subseteq Nat
        BY <2>8, <3>2, <4>2 DEF BagToSet
      <4>6. WakesStep
        <5> SUFFICES ASSUME NEW w \in DOMAIN pump_timers', w # wake
                     PROVE  ~(Entries(w, pump_timers') > Entries(w, pump_timers))
          BY <2>8, <3>2 DEF WakesStep, BagToSet
        <5> QED BY <2>9, <4>2 DEF Entries, BagIn, BagToSet
      <4> QED BY <4>4, <4>5, <4>6 DEF WakeInHeap
    <3> QED BY <2>7, <3>1, <3>2
  <2>13. MasksDesired'
    <3>1. (Inv => MasksDesired)'
      BY DesiredMasks, PTL
    <3> QED BY <3>1
  <2>11. ReadsWatched'
    <3> SUFFICES ASSUME NEW s \in Sides
                 PROVE  interest'[s].read <=> /\ read_open'[s] /\ ~read_paused'[s]
                                              /\ ~(s = "Upstream" /\ upstream_connecting')
      BY DEF ReadsWatched
    <3>1. interest'[s] = DesiredInterest(s)'
      BY <1>2
    <3> QED BY <2>13, <3>1 DEF MasksDesired
  <2>12. HeldBytesCovered'
    <3> SUFFICES ASSUME NEW d \in Sides, Writable(d)', size'[Other(d)] > 0, ~interest'[d].write
                 PROVE  \E w \in scheduled_wake' : InTime(w, Other(d))'
      BY DEF HeldBytesCovered
    <3>1. interest'[d] = DesiredInterest(d)' /\ Other(d) \in Sides
      BY <1>2, OtherSide
    <3>4. Held(d)'
      BY <2>13, <3>1 DEF MasksDesired
    <3>5. PICK x \in Nat : NextWake(d)' = {x} /\ \A w \in Nat : w <= x => InTime(w, Other(d))'
      BY <2>4, <3>4
    <3>6. x \in U \cup C
      BY <3>5 DEF U, C, Sides
    <3>7. wake \in Nat /\ wake <= x
      BY <2>8, <3>6
    <3>8. CASE \A w \in scheduled_wake : wake < w
      <4>1. scheduled_wake' = {wake}
        BY <2>7, <3>6, <3>8
      <4> QED BY <3>5, <3>7, <4>1
    <3>9. CASE ~(\A w \in scheduled_wake : wake < w)
      <4>1. PICK w \in scheduled_wake : ~(wake < w)
        BY <3>9
      <4>2. w \in Nat /\ w <= x /\ w \in scheduled_wake'
        BY <2>7, <2>9, <3>7, <3>9, <4>1
      <4> QED BY <3>5, <4>2
    <3> QED BY <3>8, <3>9
  <2> QED BY <2>10, <2>11, <2>12 DEF WakeInv
<1> QED BY <1>1, <1>2 DEF FinishPump

LEMMA NextKeepsWake ==
  Inv /\ TimingInv /\ WakeInv /\ Inv' /\ TimingInv' /\ [Next]_vars
    => WakeInv' /\ [WakesStep]_vars
<1> SUFFICES ASSUME Inv, TimingInv, WakeInv, Inv', TimingInv', [Next]_vars
             PROVE  WakeInv' /\ (WakesStep \/ UNCHANGED vars)
  OBVIOUS
<1>0. now \in Nat /\ now' \in Nat
  BY DEF Inv, RelayInv, FlagTypes
<1>1. ASSUME now' = now \/ now' = now + 1, pc' = pc, UNCHANGED <<relayVars, wakeVars>>
      PROVE  WakeInv' /\ WakesStep
  <2>1. UNCHANGED <<upstream_connecting, read_open, write_open, size, read_paused, stamps, bucket,
                    interest, scheduled_wake, pump_timers>>
    BY <1>1 DEF relayVars, queueVars, flagVars, wakeVars
  <2>2. CASE pc \in {"loop", "timers"}
    BY <1>0, <1>1, <2>1, <2>2, WaitingKeepsWake
  <2>3. CASE pc \notin {"loop", "timers"}
    BY <1>1, <2>1, <2>3, HandlerKeepsWake
  <2> QED BY <2>2, <2>3
<1>2. CASE Peers \/ Tick
  BY <1>1, <1>2 DEF Peers, PeerSend, PeerShutdown, PeerRead, PeerReset, ConnectCompletes, Tick,
                    loopVars
<1>3. CASE EpollWait
  BY <1>1, <1>3 DEF EpollWait
<1>4. ASSUME NEW e \in batch, TimerFired(e)
      PROVE  WakeInv' /\ WakesStep
  <2>1. now' = now /\ pc \in {"loop", "timers"} /\ UNCHANGED <<relayVars, wakeVars>>
    BY <1>4 DEF TimerFired
  <2> QED BY <1>0, <2>1, WaitingKeepsWake DEF relayVars, queueVars, flagVars, wakeVars
<1>5. CASE TimersDone
  <2>1. now' = now /\ pc \in {"loop", "timers"} /\ UNCHANGED <<relayVars, wakeVars>>
    BY <1>5 DEF TimersDone
  <2> QED BY <1>0, <2>1, WaitingKeepsWake DEF relayVars, queueVars, flagVars, wakeVars
<1>6. ASSUME NEW e \in batch, SocketReady(e)
      PROVE  WakeInv' /\ WakesStep
  <2>1. pc' \notin {"loop", "timers"} /\ UNCHANGED wakeVars
    BY <1>6 DEF SocketReady, ConnectFailed, SocketFailed, SocketUsable, Close, EnterPump
  <2> QED BY <2>1, HandlerKeepsWake DEF wakeVars
<1>7. ASSUME NEW bytes \in 1 .. Capacity, ReceiveBytes(bytes) \/ SendBytes(bytes)
      PROVE  WakeInv' /\ WakesStep
  <2>1. pc' \notin {"loop", "timers"} /\ UNCHANGED wakeVars
    BY <1>7 DEF ReceiveBytes, SendBytes, Reading, Flushing, loopVars
  <2> QED BY <2>1, HandlerKeepsWake DEF wakeVars
<1>8. CASE ReceiveEof \/ ReceiveWouldBlock \/ ReceiveError \/ StopReading
  <2>1. pc' \notin {"loop", "timers"} /\ UNCHANGED wakeVars
    BY <1>8 DEF ReceiveEof, ReceiveWouldBlock, ReceiveError, StopReading, LeaveReading, EnterPump,
                Close
  <2> QED BY <2>1, HandlerKeepsWake DEF wakeVars
<1>9. CASE SendError \/ SkipFlush \/ EndFlush \/ Interrupt
  <2>1. pc' \notin {"loop", "timers"} /\ UNCHANGED wakeVars
    BY <1>9 DEF SendError, SkipFlush, EndFlush, LeaveFlush, Close, Interrupt, TimedOut, ProxyShutdown
  <2> QED BY <2>1, HandlerKeepsWake DEF wakeVars
<1>10. CASE FinishPump
  BY <1>10, FinishPumpKeepsWake
<1>11. CASE PopDue
  BY <1>11, PopDueKeepsWakes
<1>12. CASE UNCHANGED vars
  BY <1>1, <1>12 DEF vars, loopVars
<1> QED BY <1>2, <1>3, <1>4, <1>5, <1>6, <1>7, <1>8, <1>9, <1>10, <1>11, <1>12 DEF Next, Loop

LEMMA WakeInvariance == Spec => [](Inv /\ TimingInv /\ WakeInv)
  BY TimingInvariance, InitWake, NextKeepsWake, PTL DEF Spec

\* process_due_timers ends: no pump schedules a wake that is already due, so
\* popping what is due at one instant never feeds itself.
THEOREM WakesStayAhead == Spec => WakesAreAhead
<1>1. Spec => [][WakesStep]_vars
  BY WakeInvariance, NextKeepsWake, PTL DEF Spec
<1> QED BY <1>1 DEF WakesAreAhead, WakesStep

\* No lost wakeup: when epoll_wait has nothing to report, every source that may
\* be read is watched, and every byte held back waits for its socket to become
\* writable or for a timer that is not late by more than one byte's earning.
THEOREM NothingWaitsForever == Spec => []NoLostWakeup
<1>1. Inv /\ TimingInv /\ WakeInv => NoLostWakeup
  <2> SUFFICES ASSUME Inv, TimingInv, WakeInv, Waiting, ReadyEvents = {}
               PROVE  /\ \A s \in Sides :
                           read_open[s] /\ ~read_paused[s]
                             /\ ~(s = "Upstream" /\ upstream_connecting) => interest[s].read
                      /\ \A d \in Sides :
                           Writable(d) /\ size[Other(d)] > 0 =>
                             \/ interest[d].write /\ sndq[d] = SocketBuffer
                             \/ \E w \in BagToSet(pump_timers) :
                                  FaultSendable(Other(d), size[Other(d)]) > 0
                                    => w <= now + EarnTime(1)
    BY DEF NoLostWakeup
  <2>1. pc \in {"loop", "timers"}
    BY DEF Waiting
  <2>2. \A s \in Sides : Reported(s) = {}
    <3> SUFFICES ASSUME NEW s \in Sides, Reported(s) # {} PROVE FALSE
      OBVIOUS
    <3>1. [source |-> s, events |-> Reported(s)] \in ReadyEvents
      BY DEF ReadyEvents
    <3> QED BY <3>1
  <2>3. ~TimerDue
    <3> SUFFICES ASSUME TimerDue PROVE FALSE
      OBVIOUS
    <3>1. [source |-> "Timer", events |-> {"IN"}] \in ReadyEvents
      BY DEF ReadyEvents
    <3> QED BY <3>1
  <2>4. ASSUME NEW d \in Sides, Writable(d), interest[d].write
        PROVE  sndq[d] = SocketBuffer
    <3>1. Established(d)
      BY <2>4 DEF Writable, Established, Sides, Inv, RelayInv, Links
    <3>2. "OUT" \in Mask(d)
      BY <2>4 DEF Mask
    <3>3. "OUT" \notin Conditions(d)
      BY <2>2, <3>2 DEF Reported
    <3>4. ~(sndq[d] < SocketBuffer)
      BY <3>1, <3>3 DEF Conditions
    <3> QED BY <3>4, ConfigAssumption DEF Inv, RelayInv, KernelTypes
  <2>5. ASSUME NEW d \in Sides, Writable(d), size[Other(d)] > 0, ~interest[d].write
        PROVE  \E w \in BagToSet(pump_timers) :
                  FaultSendable(Other(d), size[Other(d)]) > 0 => w <= now + EarnTime(1)
    <3> DEFINE s == Other(d)
               rel == Releasable(s)
    <3>1. PICK w \in scheduled_wake : InTime(w, s)
      BY <2>1, <2>5 DEF WakeInv, HeldBytesCovered
    <3>2. w \in BagToSet(pump_timers) /\ w \in Nat /\ now \in Nat
      BY DEF WakeInv, WakeInHeap, Inv, RelayInv, FlagTypes
    <3>3. w > now
      BY <2>3, <3>2 DEF TimerDue
    <3>4. s \in Sides /\ size[s] \in Nat /\ rel \in Nat /\ rel <= size[s]
          /\ (HasDelay(s) /\ rel > 0 => stamps[s][1] <= now)
      BY OtherSide, ReleasableBounds
    <3>5. ASSUME FaultSendable(s, size[s]) > 0 PROVE w <= now + EarnTime(1)
      <4>1. Lesser(size[s], rel) = rel
        BY <3>4 DEF Lesser
      <4>2. CASE HasDelay(s) /\ w <= stamps[s][1]
        <5>1. rel > 0
          <6>1. CASE ~HasBucket(s)
            BY <3>5, <4>1, <6>1 DEF FaultSendable
          <6>2. CASE HasBucket(s)
            <7>1. IsBucket(Refill(bucket[s], now))
              BY <3>4, <6>2, RefilledLegal
            <7>2. FaultSendable(s, size[s]) \in {0, Lesser(rel, Refill(bucket[s], now).tokens)}
              BY <4>1, <6>2 DEF FaultSendable
            <7> QED BY <3>4, <3>5, <7>1, <7>2, ConfigAssumption DEF Lesser, IsBucket
          <6> QED BY <6>1, <6>2
        <5>2. stamps[s] \in Seq(Nat) /\ Len(stamps[s]) = size[s]
          BY <3>4, <4>2 DEF TimingInv, DelayLineInStep, Inv, RelayInv, QueueTypes
        <5>3. stamps[s][1] \in Nat
          BY <2>5, <3>4, <5>2, ElementOfSeq
        <5> QED BY <3>2, <3>3, <3>4, <4>2, <5>1, <5>3
      <4>3. ASSUME HasBucket(s), NEW q \in 1 .. Burst, bucket[s].tokens < q,
                   q <= ReleaseQuantum(rel),
                   w <= bucket[s].last + EarnTime(q - bucket[s].tokens)
            PROVE  w <= now + EarnTime(1)
        <5>1. Parameters /\ IsBucket(bucket[s]) /\ now >= bucket[s].last
          <6>1. Parameters
            BY <3>4, <4>3, BucketParameters
          <6>2. IsBucket(bucket[s])
            BY <3>4 DEF Inv, RelayInv, BucketsLegal
          <6>3. bucket[s].last <= now
            BY <3>4, <4>3 DEF TimingInv, Earned
          <6> QED BY <3>2, <6>1, <6>2, <6>3 DEF IsBucket
        <5>2. IsBucket(Refill(bucket[s], now))
          BY <3>4, <4>3, RefilledLegal
        <5>3. ~(Refill(bucket[s], now).tokens < ReleaseQuantum(rel))
          BY <3>5, <4>1, <4>3 DEF FaultSendable
        <5>4. Refill(bucket[s], now).tokens >= q
          BY <3>4, <4>3, <5>2, <5>3, QuantumMonotone, ConfigAssumption DEF IsBucket
        <5>5. bucket[s].last + EarnTime(q - bucket[s].tokens) <= now + EarnTime(1)
          BY <3>2, <4>3, <5>1, <5>4, EarnedSoon
        <5>6. EarnTime(q - bucket[s].tokens) \in Nat /\ EarnTime(1) \in Nat /\ bucket[s].last \in Nat
          BY <4>3, <5>1, EarnTimeBounds DEF IsBucket, Parameters
        <5> QED BY <3>2, <4>3, <5>5, <5>6
      <4> QED BY <3>1, <4>2, <4>3 DEF InTime
    <3> QED BY <3>2, <3>5
  <2>6. \A s \in Sides :
           read_open[s] /\ ~read_paused[s] /\ ~(s = "Upstream" /\ upstream_connecting)
             => interest[s].read
    BY <2>1 DEF WakeInv, ReadsWatched
  <2> QED BY <2>4, <2>5, <2>6
<1> QED BY <1>1, WakeInvariance, PTL
=============================================================================
