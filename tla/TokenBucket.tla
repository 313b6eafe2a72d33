----------------------------- MODULE TokenBucket -----------------------------
(***************************************************************************)
(* One netfault::TokenBucket (token_bucket.hpp) driven the way the relay   *)
(* drives it: available(now) and eligible_at(n, now) at arbitrary times,   *)
(* consume(n) of no more than what available() returned.  The clock may    *)
(* advance between any two calls.                                          *)
(***************************************************************************)
EXTENDS TokenBucketOps

CONSTANT MaxTime   \* bound: the clock of a model-checking run stops here

ASSUME BucketAssumption ==
  /\ Rate \in Nat \ {0}              \* the constructor rejects rate == 0
  /\ Burst \in Nat \ {0}             \*   and burst == 0
  /\ NanosPerSecond \in Nat \ {0}
  /\ MaxTime \in Nat

\* The products of refill fit a word: true of every burst below 18 GB.
ASSUME WordAssumption ==
  /\ WordSize \in Nat \ {0}
  /\ Burst * NanosPerSecond + Rate + 2 * NanosPerSecond <= WordSize

VARIABLES
  bucket,  \* tokens_, carry_product_, last_refill_
  now,     \* std::chrono::steady_clock
  window   \* history: bytes consumed since an arbitrary moment

vars == <<bucket, now, window>>

Bytes == 0 .. Burst

Init ==
  /\ now = 0
  /\ bucket = FullBucket(now)
  /\ window = [opened |-> 0, spent |-> 0]

Tick ==
  /\ now < MaxTime
  /\ now' = now + 1
  /\ UNCHANGED <<bucket, window>>

\* available(now), and the refill that eligible_at(n, now) begins with.
Available ==
  /\ bucket' = Refill(bucket, now)
  /\ UNCHANGED <<now, window>>

\* consume(bytes): the caller sends no more than available() allowed.
Consume(bytes) ==
  /\ bytes <= bucket.tokens
  /\ bucket' = Take(bucket, bytes)
  /\ window' = [window EXCEPT !.spent = @ + bytes]
  /\ UNCHANGED now

OpenWindow ==
  /\ window' = [opened |-> bucket.last, spent |-> 0]
  /\ UNCHANGED <<bucket, now>>

Next == Tick \/ Available \/ (\E bytes \in 1 .. Burst : Consume(bytes)) \/ OpenWindow

Spec == Init /\ [][Next]_vars
-----------------------------------------------------------------------------
\* The types, and the representation: a remainder is less than a byte, a full
\* bucket carries none, and the last refill is not in the future.
TypeOK ==
  /\ now \in Nat
  /\ bucket \in [tokens : Bytes, carry : 0 .. NanosPerSecond - 1, last : 0 .. now]
  /\ (bucket.tokens = Burst => bucket.carry = 0)
  /\ window \in [opened : 0 .. now, spent : Nat]

Credit == bucket.tokens * NanosPerSecond + bucket.carry

Fluid == INSTANCE FluidBucket WITH credit <- Credit, clock <- bucket.last

\* token_bucket.hpp:11-14, "long-run throughput equals the configured rate
\* exactly regardless of refill cadence": however the calls are spaced, the
\* bucket earns and spends exactly what an ideal fluid bucket does.
ImplementsFluid == Fluid!Spec

\* Over any interval no more is consumed than one burst and what the rate
\* earns: what makes the limiter a limiter (refill and consume together).
WindowBound ==
  /\ window.opened <= bucket.last
  /\ window.spent * NanosPerSecond + Credit
       <= Burst * NanosPerSecond + Rate * (bucket.last - window.opened)

\* A wake scheduled by Relay::next_wake at eligible_at(n, now) finds the bytes
\* affordable: the relay never wakes too early and finds nothing to send.
WakeSuffices ==
  \A n \in Bytes :
     Refill(bucket, EligibleAt(bucket, n, now)).tokens >= n

\* Nor does it wake much too late.  eligible_at leaves the carried remainder out
\* of its estimate, so the bytes may be affordable sooner; the wake is then late
\* by no more than the time in which one byte is earned.
WakeIsTimely ==
  \A n \in Bytes :
     LET wake == EligibleAt(bucket, n, now)
     IN  \A t \in now .. wake :
            Refill(Refill(bucket, now), t).tokens >= n => wake <= t + EarnTime(1)

\* eligible_at errs on neither side: a wake finds what it was asked for, and comes
\* at most one byte's earning time after the first moment that would have done.
WakeIsOnTime == WakeSuffices /\ WakeIsTimely
=============================================================================
