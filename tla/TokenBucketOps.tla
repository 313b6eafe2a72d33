--------------------------- MODULE TokenBucketOps ---------------------------
(***************************************************************************)
(* The arithmetic of netfault::TokenBucket (token_bucket.hpp) as operators *)
(* on a bucket, a record with                                              *)
(*   tokens  whole bytes that may be sent now,                             *)
(*   carry   the sub-byte remainder, in units of byte / NanosPerSecond,    *)
(*   last    the time of the last refill.                                  *)
(* Time is an integer number of nanoseconds (model: ticks).  The products  *)
(* are std::uint64_t: they wrap modulo WordSize (2^64 in the build).       *)
(***************************************************************************)
EXTENDS Integers

CONSTANTS
  Rate,            \* rate_, bytes per second
  Burst,           \* burst_, bytes
  NanosPerSecond,  \* 1'000'000'000 in the code
  WordSize         \* 2^64 in the code: where std::uint64_t wraps

Word(x) == x % WordSize

Lesser(a, b) == IF a <= b THEN a ELSE b

\* TokenBucket(rate, burst, start): the bucket starts full.
FullBucket(start) == [tokens |-> Burst, carry |-> 0, last |-> start]

\* The rounded-up time in which `bytes` tokens are earned; shared by the
\* elapsed-time cap of refill and by eligible_at.
EarnTime(bytes) == Word(Word(bytes * NanosPerSecond) + Rate - 1) \div Rate

\* Mutant: the cap on the elapsed window forgets one byte of what is missing.
RefillCapTooEarly(b, now) ==
  IF now <= b.last THEN b
  ELSE IF now - b.last >= EarnTime(Burst - b.tokens - 1)
       THEN [tokens |-> Burst, carry |-> 0, last |-> now]
       ELSE LET product == Word((now - b.last) * Rate + b.carry)
                tokens  == Lesser(b.tokens + product \div NanosPerSecond, Burst)
            IN  [tokens |-> tokens,
                 carry  |-> IF tokens = Burst THEN 0 ELSE product % NanosPerSecond,
                 last   |-> now]

\* Mutant: a bucket that fills up keeps its remainder.
RefillKeepsCarry(b, now) ==
  IF now <= b.last THEN b
  ELSE LET product == (now - b.last) * Rate + b.carry
       IN  [tokens |-> Lesser(b.tokens + product \div NanosPerSecond, Burst),
            carry |-> product % NanosPerSecond, last |-> now]

\* TokenBucket::refill
Refill(b, now) ==
  IF now <= b.last THEN b
  ELSE LET elapsed == now - b.last
           product == Word(elapsed * Rate + b.carry)
           tokens  == Lesser(b.tokens + product \div NanosPerSecond, Burst)
       IN  IF elapsed >= EarnTime(Burst - b.tokens) + NanosPerSecond \div Rate + 1
           THEN [tokens |-> Burst, carry |-> 0, last |-> now]
           ELSE [tokens |-> tokens,
                 carry  |-> IF tokens = Burst THEN 0 ELSE product % NanosPerSecond,
                 last   |-> now]

\* Mutant: eligible_at truncates instead of rounding up.
EligibleAtTruncated(b, bytes, now) ==
  LET r == Refill(b, now)
      target == Lesser(bytes, Burst)
  IN  IF r.tokens >= target THEN now
      ELSE now + Word((target - r.tokens) * NanosPerSecond) \div Rate

\* Mutant: eligible_at waits for one byte more than is missing.
EligibleAtByteLater(b, bytes, now) ==
  LET r == Refill(b, now)
      target == Lesser(bytes, Burst)
  IN  IF r.tokens >= target THEN now ELSE now + EarnTime(target - r.tokens + 1)

\* TokenBucket::eligible_at (its value; its refill is Refill(b, now)).
EligibleAt(b, bytes, now) ==
  LET r == Refill(b, now)
      target == Lesser(bytes, Burst)
  IN  IF r.tokens >= target THEN now ELSE now + EarnTime(target - r.tokens)

\* Mutant: consume takes one token fewer than the bytes sent.
TakeOneTooFew(b, bytes) == [b EXCEPT !.tokens = @ - bytes + 1]

\* TokenBucket::consume, called with bytes <= tokens.
Take(b, bytes) == [b EXCEPT !.tokens = @ - bytes]
=============================================================================
