-------------------------- MODULE TokenBucketProofs --------------------------
(***************************************************************************)
(* The token bucket for every rate, burst and clock: it implements the     *)
(* fluid bucket, and no window of time lets more through than one burst    *)
(* and what the rate earns.                                                *)
(***************************************************************************)
EXTENDS TokenBucket, TokenBucketLemmas, TLAPS

LEMMA ParametersHold == Parameters
  BY BucketAssumption, WordAssumption DEF Parameters

\* TypeOK makes the variable `bucket` a bucket in the sense of the lemmas.
LEMMA TypedBucket ==
  ASSUME TypeOK
  PROVE  IsBucket(bucket) /\ bucket.last <= now /\ Credit = CreditOf(bucket)
  BY DEF TypeOK, IsBucket, Bytes, Credit, CreditOf

\* What available() does to a bucket that is due a refill.
LEMMA AvailableStep ==
  ASSUME TypeOK, Available, bucket' # bucket
  PROVE  /\ IsBucket(bucket') /\ bucket'.last = now /\ bucket'.last > bucket.last
         /\ Credit' = IF Credit + (bucket'.last - bucket.last) * Rate <= Burst * NanosPerSecond
                      THEN Credit + (bucket'.last - bucket.last) * Rate
                      ELSE Burst * NanosPerSecond
<1>1. bucket' = Refill(bucket, now)
  BY DEF Available
<1>2. now > bucket.last
  BY <1>1, TypedBucket DEF Refill, TypeOK
<1>3. Credit' = CreditOf(bucket')
  BY DEF Credit, CreditOf
<1>4. now \in Nat
  BY DEF TypeOK
<1>5. /\ IsBucket(Refill(bucket, now)) /\ Refill(bucket, now).last = now
      /\ CreditOf(Refill(bucket, now)) =
           IF CreditOf(bucket) + (now - bucket.last) * Rate <= Burst * NanosPerSecond
           THEN CreditOf(bucket) + (now - bucket.last) * Rate ELSE Burst * NanosPerSecond
  BY <1>2, <1>4, ParametersHold, TypedBucket, RefillIsFluid
<1> QED BY <1>1, <1>2, <1>3, <1>5, TypedBucket

\* What consume(bytes) does.
LEMMA ConsumeStep ==
  ASSUME TypeOK, NEW bytes \in 1 .. Burst, Consume(bytes)
  PROVE  /\ IsBucket(bucket') /\ bucket'.last = bucket.last
         /\ bytes * NanosPerSecond \in Nat
         /\ Credit' = Credit - bytes * NanosPerSecond
         /\ bytes * NanosPerSecond <= Credit
<1> DEFINE k == bucket.tokens
           c == bucket.carry
           N == NanosPerSecond
<1>1. /\ k \in 0 .. Burst /\ c \in 0 .. N - 1 /\ bytes <= k
      /\ Burst \in Nat /\ N \in Nat \ {0}
  BY BucketAssumption DEF TypeOK, Bytes, Consume
<1>2. bucket' = [bucket EXCEPT !.tokens = k - bytes]
  BY DEF Consume, Take
<1>3. bucket \in [tokens : 0 .. Burst, carry : 0 .. N - 1, last : 0 .. now] /\ now \in Nat
  BY DEF TypeOK, Bytes
<1>4. /\ bucket'.tokens = k - bytes /\ bucket'.carry = c /\ bucket'.last = bucket.last
      /\ bucket' \in [tokens : 0 .. Burst, carry : 0 .. N - 1, last : Nat]
  BY <1>1, <1>2, <1>3
<1>5. k - bytes # Burst
  BY <1>1
<1>6. Credit = k * N + c /\ Credit' = (k - bytes) * N + c
  BY <1>4 DEF Credit
<1>7. (k - bytes) * N = k * N - bytes * N /\ bytes * N <= k * N /\ bytes * N \in Nat
  <2> HIDE DEF k, N
  <2> QED BY <1>1, TimesMonotone, TimesNat
<1>8. Credit' = Credit - bytes * N /\ bytes * N <= Credit
  <2> HIDE DEF k, c, N
  <2>1. k * N \in Nat /\ bytes * N \in Nat
    BY <1>1, TimesNat
  <2> QED BY <1>1, <1>6, <1>7, <2>1
<1> QED BY <1>4, <1>5, <1>7, <1>8 DEF IsBucket

\* TypeOK is inductive (token_bucket.hpp: every call leaves a legal bucket).
THEOREM TypeCorrect == Spec => []TypeOK
<1>1. Init => TypeOK
  BY BucketAssumption DEF Init, TypeOK, FullBucket, Bytes
<1>2. TypeOK /\ [Next]_vars => TypeOK'
  <2> SUFFICES ASSUME TypeOK, [Next]_vars PROVE TypeOK'
    OBVIOUS
  <2>1. CASE Tick
    BY <2>1 DEF Tick, TypeOK
  <2>2. CASE Available
    <3>1. CASE bucket' = bucket
      BY <2>2, <3>1 DEF Available, TypeOK
    <3>2. CASE bucket' # bucket
      BY <2>2, <3>2, AvailableStep DEF Available, TypeOK, IsBucket, Bytes
    <3> QED BY <3>1, <3>2
  <2>3. ASSUME NEW bytes \in 1 .. Burst, Consume(bytes) PROVE TypeOK'
    BY <2>3, ConsumeStep DEF Consume, TypeOK, IsBucket, Bytes
  <2>4. CASE OpenWindow
    BY <2>4 DEF OpenWindow, TypeOK
  <2>5. CASE UNCHANGED vars
    BY <2>5 DEF vars, TypeOK, Bytes
  <2> QED BY <2>1, <2>2, <2>3, <2>4, <2>5 DEF Next
<1> QED BY <1>1, <1>2, PTL DEF Spec

\* One step keeps the window bound: a refill earns at most the rate over the
\* elapsed time, a consume moves bytes from the credit to the spent.
LEMMA WindowStep ==
  ASSUME TypeOK, TypeOK', WindowBound, [Next]_vars
  PROVE  WindowBound'
<1> DEFINE N == NanosPerSecond
           spent == window.spent
           last == bucket.last
           opened == window.opened
<1>0. /\ Rate \in Nat \ {0} /\ Burst \in Nat /\ N \in Nat \ {0}
      /\ spent \in Nat /\ last \in Nat /\ opened \in Nat /\ opened <= last
      /\ spent * N \in Nat /\ Burst * N \in Nat
      /\ Credit \in Nat /\ Credit <= Burst * N
      /\ spent * N + Credit <= Burst * N + Rate * (last - opened)
      /\ Rate * (last - opened) \in Nat
  BY BucketAssumption, TypedBucket, ParametersHold, CreditBound, TimesNat
     DEF TypeOK, WindowBound
<1>1. CASE Available /\ bucket' # bucket
  <2>1. /\ bucket'.last \in Nat /\ bucket'.last > last /\ window' = window
        /\ Credit' = IF Credit + (bucket'.last - last) * Rate <= Burst * N
                     THEN Credit + (bucket'.last - last) * Rate ELSE Burst * N
    BY <1>1, AvailableStep DEF Available, TypeOK
  <2>2. Credit' <= Credit + (bucket'.last - last) * Rate /\ Credit' \in Nat
    <3>1. (bucket'.last - last) * Rate \in Nat
      BY <1>0, <2>1, TimesNat
    <3> HIDE DEF N, last
    <3> QED BY <1>0, <2>1, <3>1
  <2>3. Rate * (bucket'.last - opened) = Rate * (last - opened) + (bucket'.last - last) * Rate
    BY <1>0, <2>1
  <2>4. window'.spent * N + Credit' <= Burst * N + Rate * (bucket'.last - opened)
    <3>1. (bucket'.last - last) * Rate \in Nat
      BY <1>0, <2>1, TimesNat
    <3>2. window'.spent = spent
      BY <2>1
    <3> HIDE DEF N, last, opened, spent
    <3> QED BY <1>0, <2>1, <2>2, <2>3, <3>1, <3>2
  <2> QED BY <1>0, <2>1, <2>4 DEF WindowBound
<1>2. ASSUME NEW bytes \in 1 .. Burst, Consume(bytes) PROVE WindowBound'
  <2>1. /\ bucket'.last = last /\ Credit' = Credit - bytes * N
        /\ bytes * N \in Nat
    BY <1>2, ConsumeStep
  <2>2. window' = [window EXCEPT !.spent = spent + bytes] /\ window.spent \in Nat
    BY <1>2 DEF Consume, TypeOK
  <2>3. window'.spent = spent + bytes /\ window'.opened = opened
    BY <2>2 DEF TypeOK
  <2>4. (spent + bytes) * N = spent * N + bytes * N
    BY <1>0
  <2>5. (spent + bytes) * N + Credit' <= Burst * N + Rate * (last - opened)
    <3> HIDE DEF N, last, opened, spent
    <3> QED BY <1>0, <2>1, <2>4
  <2> QED BY <1>0, <2>1, <2>3, <2>5 DEF WindowBound
<1>3. CASE OpenWindow
  <2>1. /\ window'.opened = last /\ window'.spent = 0
        /\ bucket' = bucket /\ Credit' = Credit
    BY <1>3 DEF OpenWindow, Credit
  <2> QED BY <1>0, <2>1 DEF WindowBound
<1>4. CASE UNCHANGED <<bucket, window>>
  BY <1>4 DEF WindowBound, Credit
<1> QED BY <1>1, <1>2, <1>3, <1>4 DEF Next, vars, Tick, Available

\* The rate limit over any window, for every rate, burst and schedule of calls.
THEOREM WindowBounded == Spec => []WindowBound
<1>1. Init => WindowBound
  BY BucketAssumption DEF Init, WindowBound, FullBucket, Credit
<1>2. TypeOK /\ TypeOK' /\ WindowBound /\ [Next]_vars => WindowBound'
  BY WindowStep
<1> QED BY <1>1, <1>2, TypeCorrect, PTL DEF Spec

\* token_bucket.hpp:11-14: integer refills lose nothing, whatever their cadence;
\* every step of the bucket is a step of the fluid bucket.
THEOREM RefinesFluid == Spec => ImplementsFluid
<1>1. Init => Fluid!Init
  BY BucketAssumption DEF Init, Fluid!Init, Fluid!Full, FullBucket, Credit
<1>2. TypeOK /\ [Next]_vars => [Fluid!Next]_(Fluid!vars)
  <2> SUFFICES ASSUME TypeOK, [Next]_vars PROVE [Fluid!Next]_(Fluid!vars)
    OBVIOUS
  <2>1. CASE Available /\ bucket' # bucket
    <3>1. Fluid!Earn
      <4>1. bucket'.last \in Nat /\ window' = window
        BY <2>1, AvailableStep DEF Available, TypeOK
      <4> QED BY <2>1, <4>1, AvailableStep DEF Fluid!Earn, Fluid!Full
    <3> QED BY <3>1 DEF Fluid!Next
  <2>2. ASSUME NEW bytes \in 1 .. Burst, Consume(bytes)
        PROVE  Fluid!Next
    <3>1. Fluid!Spend(bytes)
      BY <2>2, ConsumeStep DEF Consume, Fluid!Spend
    <3> QED BY <3>1 DEF Fluid!Next
  <2>3. CASE OpenWindow
    <3>1. Fluid!OpenWindow
      BY <2>3 DEF OpenWindow, Fluid!OpenWindow, Credit
    <3> QED BY <3>1 DEF Fluid!Next
  <2>4. CASE UNCHANGED <<bucket, window>>
    BY <2>4 DEF Fluid!vars, Credit
  <2> QED BY <2>1, <2>2, <2>3, <2>4 DEF Next, vars, Tick, Available
<1> QED BY <1>1, <1>2, TypeCorrect, PTL DEF Spec, ImplementsFluid, Fluid!Spec

\* next_wake's timer is never early: whatever the schedule of calls, at the time
\* eligible_at names the refill has earned the bytes it was asked for.
LEMMA WakesSuffice == Spec => []WakeSuffices
<1>1. TypeOK => WakeSuffices
  <2> SUFFICES ASSUME TypeOK, NEW n \in Bytes
               PROVE  Refill(bucket, EligibleAt(bucket, n, now)).tokens >= n
    BY DEF WakeSuffices
  <2> QED BY ParametersHold, TypedBucket, EligibleAtSuffices DEF TypeOK, Bytes
<1> QED BY <1>1, TypeCorrect, PTL

\* next_wake's timer is late by at most the time in which one byte is earned,
\* whatever remainder the bucket carries when eligible_at is asked.
LEMMA WakesAreTimely == Spec => []WakeIsTimely
<1>1. TypeOK => WakeIsTimely
  <2> SUFFICES ASSUME TypeOK, NEW n \in Bytes, NEW t \in now .. EligibleAt(bucket, n, now),
                      Refill(Refill(bucket, now), t).tokens >= n
               PROVE  EligibleAt(bucket, n, now) <= t + EarnTime(1)
    BY DEF WakeIsTimely
  <2> DEFINE r == Refill(bucket, now)
             wake == EligibleAt(bucket, n, now)
  <2>1. /\ Parameters /\ IsBucket(r) /\ r.last = now
        /\ now \in Nat /\ n \in Nat /\ n <= Burst /\ Burst \in Nat \ {0}
    BY ParametersHold, TypedBucket, RefillAt, BucketAssumption DEF TypeOK, Bytes
  <2>2. r.tokens \in Nat /\ EarnTime(1) \in Nat
    BY <2>1, EarnTimeBounds DEF IsBucket
  <2>3. wake = IF r.tokens >= n THEN now ELSE now + EarnTime(n - r.tokens)
    BY <2>1 DEF EligibleAt, Lesser
  <2>4. CASE r.tokens >= n
    BY <2>1, <2>2, <2>3, <2>4
  <2>5. CASE ~(r.tokens >= n)
    <3>1. n \in 1 .. Burst /\ r.tokens < n /\ n - r.tokens \in 0 .. Burst
      BY <2>1, <2>2, <2>5
    <3>2. EarnTime(n - r.tokens) \in Nat
      BY <2>1, <3>1, EarnTimeBounds
    <3>3. t \in Nat /\ t >= r.last
      BY <2>1, <2>3, <2>5, <3>2
    <3>4. r.last + EarnTime(n - r.tokens) <= t + EarnTime(1)
      BY <2>1, <3>1, <3>3, EarnedSoon
    <3> QED BY <2>1, <2>3, <2>5, <3>4
  <2> QED BY <2>4, <2>5
<1> QED BY <1>1, TypeCorrect, PTL

\* eligible_at errs on neither side, for every rate and burst and whatever calls
\* came before: a wake is never early, and late by at most one byte's earning time.
THEOREM WakesAreOnTime == Spec => []WakeIsOnTime
BY WakesSuffice, WakesAreTimely, PTL DEF WakeIsOnTime
=============================================================================
