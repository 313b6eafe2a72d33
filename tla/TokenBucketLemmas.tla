-------------------------- MODULE TokenBucketLemmas --------------------------
(***************************************************************************)
(* What the integer arithmetic of TokenBucketOps computes, for every rate, *)
(* burst and unit for which the products fit a word.                       *)
(***************************************************************************)
EXTENDS TokenBucketOps, TLAPS

Parameters ==
  /\ Rate \in Nat \ {0} /\ Burst \in Nat \ {0} /\ NanosPerSecond \in Nat \ {0}
  /\ WordSize \in Nat \ {0}
  /\ Burst * NanosPerSecond + Rate + 2 * NanosPerSecond <= WordSize

IsBucket(b) ==
  /\ b \in [tokens : 0 .. Burst, carry : 0 .. NanosPerSecond - 1, last : Nat]
  /\ (b.tokens = Burst => b.carry = 0)

CreditOf(b) == b.tokens * NanosPerSecond + b.carry

\* Division with remainder.
LEMMA DivMod ==
  ASSUME NEW a \in Nat, NEW n \in Nat \ {0}
  PROVE  /\ a \div n \in Nat /\ a % n \in 0 .. n - 1
         /\ a = n * (a \div n) + (a % n)
  BY SMT

\* A product below the word size is not wrapped.
LEMMA WordExact ==
  ASSUME Parameters, NEW x \in Nat, x < WordSize
  PROVE  Word(x) = x
  BY SMT DEF Word, Parameters

\* Products of naturals are naturals, and grow with each factor.
LEMMA TimesNat ==
  ASSUME NEW a \in Nat, NEW b \in Nat
  PROVE  a * b \in Nat
  BY SMT

LEMMA TimesMonotone ==
  ASSUME NEW a \in Nat, NEW b \in Nat, NEW c \in Nat, a <= b
  PROVE  a * c <= b * c
  BY SMT

\* EarnTime rounds up: n bytes are earned by then, and not a byte's worth sooner.
LEMMA EarnTimeBounds ==
  ASSUME Parameters, NEW n \in 0 .. Burst
  PROVE  /\ EarnTime(n) \in Nat
         /\ EarnTime(n) * Rate >= n * NanosPerSecond
         /\ EarnTime(n) * Rate <= n * NanosPerSecond + Rate - 1
<1> DEFINE p == n * NanosPerSecond
<1>1. p \in Nat /\ p <= Burst * NanosPerSecond
  BY TimesNat, TimesMonotone DEF Parameters
<1>2. p < WordSize /\ p + Rate - 1 < WordSize /\ p + Rate - 1 \in Nat
  BY <1>1, TimesNat DEF Parameters
<1>3. Word(p) = p /\ Word(p + Rate - 1) = p + Rate - 1
  BY <1>1, <1>2, WordExact
<1>4. EarnTime(n) = (p + Rate - 1) \div Rate
  BY <1>3 DEF EarnTime
<1> HIDE DEF p
<1>5. /\ EarnTime(n) \in Nat
      /\ p + Rate - 1 = Rate * EarnTime(n) + ((p + Rate - 1) % Rate)
      /\ (p + Rate - 1) % Rate \in 0 .. Rate - 1
  BY <1>2, <1>4, DivMod DEF Parameters
<1>6. Rate * EarnTime(n) = EarnTime(n) * Rate /\ Rate * EarnTime(n) \in Nat
  BY <1>5 DEF Parameters
<1>7. EarnTime(n) * Rate >= p /\ EarnTime(n) * Rate <= p + Rate - 1
  BY <1>1, <1>5, <1>6 DEF Parameters
<1> QED BY <1>5, <1>7 DEF p

\* A bucket's credit is at most that of a full one.
LEMMA CreditBound ==
  ASSUME Parameters, NEW b, IsBucket(b)
  PROVE  /\ CreditOf(b) \in Nat
         /\ CreditOf(b) <= Burst * NanosPerSecond
<1> DEFINE k == b.tokens
           c == b.carry
<1>0. k \in 0 .. Burst /\ c \in 0 .. NanosPerSecond - 1 /\ (k = Burst => c = 0)
  BY DEF IsBucket
<1>1. CreditOf(b) = k * NanosPerSecond + c
  BY DEF CreditOf
<1> HIDE DEF k, c
<1>2. k * NanosPerSecond \in Nat
  BY <1>0, TimesNat DEF Parameters
<1>3. CASE k = Burst
  BY <1>0, <1>1, <1>2, <1>3 DEF Parameters
<1>4. CASE k < Burst
  <2>1. (k + 1) * NanosPerSecond <= Burst * NanosPerSecond
    BY <1>0, <1>4, TimesMonotone DEF Parameters
  <2>2. (k + 1) * NanosPerSecond = k * NanosPerSecond + NanosPerSecond
    BY <1>0 DEF Parameters
  <2> QED BY <1>0, <1>1, <1>2, <2>1, <2>2, TimesNat DEF Parameters
<1> QED BY <1>0, <1>3, <1>4 DEF Parameters

\* refill is exact: a bucket stays a bucket, and its credit grows by the rate
\* over the elapsed time, capped at the burst, with nothing lost to rounding.
LEMMA RefillIsFluid ==
  ASSUME Parameters, NEW b, IsBucket(b), NEW t \in Nat, t > b.last
  PROVE  /\ IsBucket(Refill(b, t))
         /\ Refill(b, t).last = t
         /\ CreditOf(Refill(b, t)) =
              IF CreditOf(b) + (t - b.last) * Rate <= Burst * NanosPerSecond
              THEN CreditOf(b) + (t - b.last) * Rate ELSE Burst * NanosPerSecond
<1> DEFINE k == b.tokens
           c == b.carry
           N == NanosPerSecond
           e == t - b.last
           full == EarnTime(Burst - k)
           slack == N \div Rate
           full_bucket == [tokens |-> Burst, carry |-> 0, last |-> t]
<1>0. /\ k \in 0 .. Burst /\ c \in 0 .. N - 1 /\ (k = Burst => c = 0)
      /\ e \in Nat /\ e > 0 /\ b.last \in Nat
      /\ Rate \in Nat \ {0} /\ Burst \in Nat \ {0} /\ N \in Nat \ {0} /\ WordSize \in Nat
      /\ Burst * N + Rate + 2 * N <= WordSize
  BY DEF IsBucket, Parameters
<1>1. /\ full \in Nat /\ full * Rate >= (Burst - k) * N
      /\ full * Rate <= (Burst - k) * N + Rate - 1
  BY <1>0, EarnTimeBounds
<1>2. /\ slack \in Nat /\ slack * Rate <= N
  <2>1. N = Rate * slack + (N % Rate) /\ slack \in Nat /\ N % Rate \in Nat
    <3>1. N \in Nat /\ Rate \in Nat \ {0}
      BY <1>0
    <3> HIDE DEF N
    <3> QED BY <3>1, DivMod
  <2> HIDE DEF slack
  <2> QED BY <1>0, <2>1
<1>3. /\ k * N \in Nat /\ (Burst - k) * N \in Nat /\ e * Rate \in Nat
      /\ k * N + (Burst - k) * N = Burst * N
  BY <1>0, TimesNat
<1>4. CreditOf(b) = k * N + c
  BY DEF CreditOf
<1>5. CASE e >= full + slack + 1
  <2>1. Refill(b, t) = full_bucket
    BY <1>0, <1>5 DEF Refill
  <2>2. IsBucket(full_bucket) /\ CreditOf(full_bucket) = Burst * N
    BY <1>0 DEF IsBucket, CreditOf
  <2>3. e * Rate >= full * Rate
    <3> HIDE DEF full, slack, e
    <3> QED BY <1>0, <1>1, <1>2, <1>5, TimesMonotone
  <2>4. CreditOf(b) + e * Rate >= Burst * N
    <3> HIDE DEF full, slack, e, k, c, N
    <3> QED BY <1>0, <1>1, <1>3, <1>4, <2>3
  <2> DEFINE x == CreditOf(b) + e * Rate
  <2>5. x \in Nat /\ Burst * N \in Nat
    BY <1>0, <1>3, CreditBound, TimesNat
  <2>6. (IF x <= Burst * N THEN x ELSE Burst * N) = Burst * N
    BY <2>4, <2>5
  <2> QED BY <2>1, <2>2, <2>6
<1>6. CASE ~(e >= full + slack + 1)
  <2> DEFINE product == e * Rate + c
             earned == product \div N
             rest == product % N
             tokens == Lesser(k + earned, Burst)
             carry == IF tokens = Burst THEN 0 ELSE rest
  <2>1. e * Rate <= full * Rate + slack * Rate
    <3> HIDE DEF full, slack, e
    <3>1. e <= full + slack
      BY <1>0, <1>1, <1>2, <1>6
    <3>2. e * Rate <= (full + slack) * Rate
      BY <3>1, <1>0, <1>1, <1>2, TimesMonotone
    <3> QED BY <3>2, <1>0, <1>1, <1>2
  <2>2. product \in Nat /\ product < WordSize
    <3> HIDE DEF full, slack, e, k, c, N
    <3>1. full * Rate \in Nat /\ slack * Rate \in Nat /\ Burst * N \in Nat
      BY <1>0, <1>1, <1>2, TimesNat
    <3> QED BY <1>0, <1>1, <1>2, <1>3, <2>1, <3>1
  <2>3. Word(product) = product
    BY <2>2, WordExact
  <2>4. Refill(b, t) = [tokens |-> tokens, carry |-> carry, last |-> t]
    BY <1>0, <1>6, <2>3 DEF Refill
  <2>5. /\ earned \in Nat /\ rest \in 0 .. N - 1 /\ product = N * earned + rest
    BY <1>0, <2>2, DivMod
  <2> HIDE DEF earned, rest
  <2>6. /\ tokens \in 0 .. Burst /\ carry \in 0 .. N - 1 /\ (tokens = Burst => carry = 0)
    BY <1>0, <2>5 DEF Lesser
  <2>7. IsBucket(Refill(b, t)) /\ Refill(b, t).last = t
    BY <2>4, <2>6 DEF IsBucket
  <2>8. CreditOf(Refill(b, t)) = tokens * N + carry
    BY <2>4 DEF CreditOf
  <2>9. CreditOf(b) + e * Rate = (k + earned) * N + rest
    <3> HIDE DEF e, k, c, N
    <3>1. (k + earned) * N = k * N + N * earned
      BY <1>0, <2>5
    <3>2. N * earned \in Nat
      BY <1>0, <2>5, TimesNat
    <3> QED BY <1>0, <1>3, <1>4, <2>5, <3>1, <3>2
  <2>10. CASE k + earned >= Burst
    <3>1. tokens = Burst /\ carry = 0
      BY <2>10, <1>0, <2>5 DEF Lesser
    <3>2. (k + earned) * N >= Burst * N
      BY <2>10, <1>0, <2>5, TimesMonotone
    <3>3. CreditOf(b) + e * Rate >= Burst * N
      BY <2>9, <3>2, <1>0, <2>5, TimesNat
    <3>4. CreditOf(Refill(b, t)) = Burst * N
      BY <2>8, <3>1, <1>0
    <3> HIDE DEF k, c, tokens, carry
    <3> QED BY <3>3, <3>4, <2>7, <1>0, <1>3, <1>4
  <2>11. CASE k + earned < Burst
    <3>1. tokens = k + earned /\ carry = rest
      BY <2>11, <1>0, <2>5 DEF Lesser
    <3>2. (k + earned + 1) * N <= Burst * N
      BY <2>11, <1>0, <2>5, TimesMonotone
    <3>3. (k + earned + 1) * N = (k + earned) * N + N /\ (k + earned) * N \in Nat
      BY <1>0, <2>5
    <3>4. CreditOf(b) + e * Rate <= Burst * N
      BY <2>9, <3>2, <3>3, <1>0, <2>5, TimesNat
    <3>5. CreditOf(Refill(b, t)) = CreditOf(b) + e * Rate
      BY <2>8, <2>9, <3>1
    <3> HIDE DEF k, c, tokens, carry
    <3> QED BY <3>4, <3>5, <2>7
  <2> QED BY <2>10, <2>11, <1>0, <2>5
<1> QED BY <1>5, <1>6

\* The same at any time that is not before the last refill.
LEMMA RefillAt ==
  ASSUME Parameters, NEW b, IsBucket(b), NEW t \in Nat, t >= b.last
  PROVE  /\ IsBucket(Refill(b, t)) /\ Refill(b, t).last = t
         /\ (t - b.last) * Rate \in Nat
         /\ CreditOf(Refill(b, t)) = Lesser(CreditOf(b) + (t - b.last) * Rate,
                                           Burst * NanosPerSecond)
<1>1. b.last \in Nat /\ Rate \in Nat
  BY DEF IsBucket, Parameters
<1>2. (t - b.last) * Rate \in Nat
  BY <1>1, TimesNat
<1>3. CASE t > b.last
  BY <1>2, <1>3, RefillIsFluid DEF Lesser
<1>4. CASE t = b.last
  <2>1. Refill(b, t) = b
    BY <1>1, <1>4 DEF Refill
  <2>2. (t - b.last) * Rate = 0
    BY <1>1, <1>4
  <2>3. CreditOf(b) \in Nat /\ CreditOf(b) <= Burst * NanosPerSecond
    BY CreditBound
  <2> QED BY <1>2, <1>4, <2>1, <2>2, <2>3 DEF Lesser
<1> QED BY <1>1, <1>3, <1>4

\* Credit worth n bytes is n whole tokens, and n tokens are credit worth n bytes.
LEMMA TokensFromCredit ==
  ASSUME Parameters, NEW b, IsBucket(b), NEW n \in Nat
  PROVE  CreditOf(b) >= n * NanosPerSecond <=> b.tokens >= n
<1> DEFINE k == b.tokens
           c == b.carry
           N == NanosPerSecond
<1>0. k \in Nat /\ c \in 0 .. N - 1 /\ N \in Nat \ {0} /\ CreditOf(b) = k * N + c
  BY DEF IsBucket, Parameters, CreditOf
<1> HIDE DEF k, c, N
<1>1. k * N \in Nat /\ n * N \in Nat
  BY <1>0, TimesNat
<1>2. CASE k >= n
  BY <1>0, <1>1, <1>2, TimesMonotone DEF k, N
<1>3. CASE k < n
  <2>1. (k + 1) * N <= n * N
    BY <1>0, <1>3, TimesMonotone
  <2>2. (k + 1) * N = k * N + N
    BY <1>0
  <2>3. CreditOf(b) < n * N
    BY <1>0, <1>1, <2>1, <2>2
  <2> QED BY <1>0, <1>1, <1>3, <2>3 DEF k, N
<1> QED BY <1>0, <1>2, <1>3

\* eligible_at never promises too early: at the time it names, the refill has
\* earned what was asked for.
LEMMA EligibleAtSuffices ==
  ASSUME Parameters, NEW b, IsBucket(b), NEW t \in Nat, t >= b.last, NEW n \in 0 .. Burst
  PROVE  Refill(b, EligibleAt(b, n, t)).tokens >= n
<1> DEFINE r == Refill(b, t)
           N == NanosPerSecond
           wait == EarnTime(n - r.tokens)
<1>0. /\ Rate \in Nat \ {0} /\ Burst \in Nat \ {0} /\ N \in Nat \ {0} /\ n \in Nat /\ n <= Burst
      /\ b.last \in Nat
  BY DEF Parameters, IsBucket
<1>1. /\ IsBucket(r) /\ r.tokens \in 0 .. Burst /\ (t - b.last) * Rate \in Nat
      /\ CreditOf(r) = Lesser(CreditOf(b) + (t - b.last) * Rate, Burst * N)
  BY RefillAt DEF IsBucket
<1>2. EligibleAt(b, n, t) = IF r.tokens >= n THEN t ELSE t + wait
  BY <1>0 DEF EligibleAt, Lesser
<1> HIDE DEF r
<1>3. CASE r.tokens >= n
  BY <1>2, <1>3 DEF r
<1>4. CASE ~(r.tokens >= n)
  <2>1. /\ wait \in Nat /\ wait * Rate >= (n - r.tokens) * N
    BY <1>0, <1>1, <1>4, EarnTimeBounds
  <2> HIDE DEF wait, N
  <2>2. /\ CreditOf(b) \in Nat /\ CreditOf(r) \in Nat
        /\ Burst * N \in Nat /\ n * N \in Nat /\ n * N <= Burst * N /\ wait * Rate \in Nat
        /\ r.tokens * N \in Nat /\ (n - r.tokens) * N = n * N - r.tokens * N
    <3>1. CreditOf(b) \in Nat /\ CreditOf(r) \in Nat
      BY <1>1, CreditBound
    <3>2. Burst * N \in Nat /\ n * N \in Nat /\ n * N <= Burst * N /\ wait * Rate \in Nat
          /\ r.tokens * N \in Nat
      BY <1>0, <1>1, <2>1, TimesNat, TimesMonotone
    <3>3. (n - r.tokens) * N = n * N - r.tokens * N
      BY <1>0, <1>1
    <3> QED BY <3>1, <3>2, <3>3
  <2>3. ~(CreditOf(r) >= n * N)
    BY <1>0, <1>1, <1>4, TokensFromCredit DEF N
  <2>4. CreditOf(r) = CreditOf(b) + (t - b.last) * Rate
    BY <1>1, <2>2, <2>3 DEF Lesser
  <2>5. CreditOf(r) >= r.tokens * N
    BY <1>0, <1>1, TokensFromCredit DEF N
  <2> DEFINE w == Refill(b, t + wait)
  <2>6. /\ IsBucket(w)
        /\ CreditOf(w) = Lesser(CreditOf(b) + (t + wait - b.last) * Rate, Burst * N)
    BY <1>0, <2>1, RefillAt DEF N
  <2>7. (t + wait - b.last) * Rate = (t - b.last) * Rate + wait * Rate
    BY <1>0, <2>1
  <2>8. CreditOf(w) >= n * N
    <3> HIDE DEF w
    <3> QED BY <1>1, <2>1, <2>2, <2>4, <2>5, <2>6, <2>7 DEF Lesser
  <2>9. w.tokens >= n
    BY <1>0, <2>6, <2>8, TokensFromCredit DEF N
  <2> QED BY <1>2, <1>4, <2>9
<1> QED BY <1>3, <1>4

\* A wake that leaves the carried remainder out of account is late by no more
\* than it takes to earn one byte: the remainder is less than a byte.
LEMMA EarnedSoon ==
  ASSUME Parameters, NEW b, IsBucket(b), NEW t \in Nat, t >= b.last, NEW q \in 1 .. Burst,
         b.tokens < q, Refill(b, t).tokens >= q
  PROVE  b.last + EarnTime(q - b.tokens) <= t + EarnTime(1)
<1> DEFINE N == NanosPerSecond
           k == b.tokens
           c == b.carry
           e == t - b.last
           m == q - k
           x == EarnTime(m)
           y == EarnTime(1)
<1>0. /\ Rate \in Nat \ {0} /\ Burst \in Nat \ {0} /\ N \in Nat \ {0}
      /\ k \in Nat /\ c \in 0 .. N - 1 /\ b.last \in Nat /\ e \in Nat /\ q \in Nat
      /\ m \in 1 .. Burst /\ k < q
  BY DEF Parameters, IsBucket
<1>1. /\ IsBucket(Refill(b, t)) /\ e * Rate \in Nat
      /\ CreditOf(Refill(b, t)) = Lesser(CreditOf(b) + e * Rate, Burst * N)
  BY RefillAt
<1>2. CreditOf(Refill(b, t)) >= q * N
  BY <1>0, <1>1, TokensFromCredit
<1>3. CreditOf(b) = k * N + c
  BY DEF CreditOf
<1>4. x \in Nat /\ x * Rate <= m * N + Rate - 1
  BY <1>0, EarnTimeBounds
<1>5. y \in Nat /\ y * Rate >= N
  BY <1>0, EarnTimeBounds
<1> HIDE DEF N, k, c, e, m, x, y
<1>6. /\ q * N \in Nat /\ k * N \in Nat /\ m * N \in Nat /\ Burst * N \in Nat
      /\ x * Rate \in Nat /\ y * Rate \in Nat /\ m * N = q * N - k * N
  BY <1>0, <1>4, <1>5, TimesNat DEF m
<1>7. k * N + c + e * Rate >= q * N
  BY <1>0, <1>1, <1>2, <1>3, <1>6 DEF Lesser
<1>8. x * Rate < e * Rate + y * Rate + Rate
  BY <1>0, <1>1, <1>4, <1>5, <1>6, <1>7
<1>9. x <= e + y
  <2> SUFFICES ASSUME x >= e + y + 1 PROVE FALSE
    BY <1>0, <1>4, <1>5
  <2>1. (e + y + 1) * Rate <= x * Rate
    BY <1>0, <1>4, <1>5, TimesMonotone
  <2>2. (e + y + 1) * Rate = e * Rate + y * Rate + Rate
    BY <1>0, <1>4, <1>5
  <2> QED BY <1>0, <1>1, <1>6, <1>8, <2>1, <2>2
<1> QED BY <1>0, <1>4, <1>5, <1>9 DEF e, x, y, m, k
=============================================================================
