-------------------------- MODULE RateLimiterProofs --------------------------
(***************************************************************************)
(* Proofs about RateLimiter, for every rate, resolution of the clock and   *)
(* spacing of the requests.                                                *)
(***************************************************************************)
EXTENDS RateLimiter, TLAPS

Buckets == [tokens : 0..Full, last : 0..now]

LimiterTypeOK ==
    /\ now \in Nat
    /\ bucket \in {None} \cup Buckets
    /\ admitted \in Nat

\* Since the first request no more requests got through than the burst and what the time
\* has brought.
RateBound == admitted * Minute <= Full + now * PerMinute

\* The inductive invariant: RateBound alone is not inductive, since it says nothing of
\* the tokens that are left. What got through and what is left came from the burst and
\* from the time the bucket has been refilled for.
RateInv ==
    /\ LimiterTypeOK
    /\ bucket = None => admitted = 0
    /\ bucket # None => admitted * Minute + bucket.tokens <= Full + bucket.last * PerMinute

\* Everything that happens to the limiter.
LimiterNext == Allow \/ Refuse \/ Tick \/ ForgetLimiter
-----------------------------------------------------------------------------
\* The burst is a number, and at least one token.
LEMMA FullIsAToken == Full \in Nat /\ Minute <= Full
  <1>1. ASSUME NEW a \in Nat \ {0}, NEW b \in Nat \ {0}
        PROVE  a * b \in Nat /\ b <= a * b
    BY <1>1
  <1> QED
    BY <1>1, RateAssumption DEF Full

\* Refilling adds what the time since the last refill has brought, up to the burst.
LEMMA RefillBounds ==
    ASSUME NEW b \in [tokens : 0..Full, last : Nat], NEW t \in Nat, b.last <= t
    PROVE  /\ Refill(b, t) \in [tokens : 0..Full, last : {t}]
           /\ Refill(b, t).last = t
           /\ Refill(b, t).tokens - t * PerMinute <= b.tokens - b.last * PerMinute
  <1> DEFINE gain == (t - b.last) * PerMinute
  <1>1. PerMinute \in Nat /\ Full \in Nat /\ b.tokens \in 0..Full /\ b.last \in Nat
    BY RateAssumption, FullIsAToken
  <1>2. gain \in Nat /\ gain = t * PerMinute - b.last * PerMinute
    <2>1. ASSUME NEW x \in Nat, NEW y \in Nat
          PROVE  x * y \in Nat
      BY <2>1
    <2>2. ASSUME NEW x \in Nat, NEW y \in Nat, NEW z \in Nat
          PROVE  (x - y) * z = x * z - y * z
      BY <2>2
    <2>3. t - b.last \in Nat
      BY <1>1
    <2> QED
      BY <1>1, <2>1, <2>2, <2>3
  <1>3. t * PerMinute \in Int /\ b.last * PerMinute \in Int
    BY <1>1
  <1> HIDE DEF gain
  <1>4. Refill(b, t) = [tokens |-> IF b.tokens + gain > Full THEN Full ELSE b.tokens + gain,
                        last |-> t]
    BY DEF Refill, gain
  <1> QED
    BY <1>1, <1>2, <1>3, <1>4

\* The same of the bucket a request finds, which satisfies the invariant in a limiter
\* that has none yet.
LEMMA FoundRefilled ==
    ASSUME RateInv
    PROVE  /\ Refill(Found, now) \in Buckets
           /\ Refill(Found, now) # None
           /\ Refill(Found, now).last = now
           /\ admitted * Minute + Refill(Found, now).tokens <= Full + now * PerMinute
  <1>1. now \in Nat /\ Full \in Nat /\ PerMinute \in Nat /\ Minute \in Nat /\ admitted \in Nat
    BY FullIsAToken, RateAssumption DEF RateInv, LimiterTypeOK
  <1>2. /\ Found \in Buckets
        /\ admitted * Minute + Found.tokens <= Full + Found.last * PerMinute
    <2>1. CASE bucket = None
      <3>1. Found = [tokens |-> Full, last |-> now] /\ admitted = 0
        BY <2>1 DEF Found, RateInv
      <3>2. now * PerMinute \in Nat /\ admitted * Minute = 0
        BY <1>1, <3>1
      <3> QED
        BY <1>1, <3>1, <3>2 DEF Buckets
    <2>2. CASE bucket # None
      BY <2>2 DEF Found, RateInv, LimiterTypeOK
    <2> QED
      BY <2>1, <2>2
  <1> DEFINE b == Refill(Found, now)
  <1>3. /\ Found \in [tokens : 0..Full, last : Nat]
        /\ Found.last <= now
    BY <1>1, <1>2 DEF Buckets
  <1>4. /\ b \in [tokens : 0..Full, last : {now}]
        /\ b.last = now
        /\ b.tokens - now * PerMinute <= Found.tokens - Found.last * PerMinute
    BY <1>1, <1>3, RefillBounds
  <1>5. b \in Buckets
    BY <1>1, <1>4 DEF Buckets
  <1>6. b # None
    BY <1>1, <1>5, NoBucket DEF Buckets
  <1> HIDE DEF b
  <1>7. now * PerMinute \in Int /\ Found.last * PerMinute \in Int /\ admitted * Minute \in Int
    BY <1>1, <1>3
  <1>8. admitted * Minute + b.tokens <= Full + now * PerMinute
    BY <1>1, <1>2, <1>3, <1>4, <1>7
  <1> QED
    BY <1>4, <1>5, <1>6, <1>8 DEF b

\* Every step of the limiter preserves the invariant.
LEMMA LimiterStep ==
    ASSUME RateInv, [LimiterNext]_limiter
    PROVE  RateInv'
  <1>1. now \in Nat /\ Full \in Nat /\ PerMinute \in Nat /\ Minute \in Nat \ {0}
          /\ admitted \in Nat
    BY FullIsAToken, RateAssumption DEF RateInv, LimiterTypeOK
  <1>2. CASE Allow
    <2> DEFINE b == Refill(Found, now)
    <2>1. /\ b \in Buckets
          /\ b.last = now
          /\ admitted * Minute + b.tokens <= Full + now * PerMinute
      BY FoundRefilled
    <2> HIDE DEF b
    <2>2. /\ b.tokens >= Minute
          /\ bucket' = [b EXCEPT !.tokens = b.tokens - Minute]
          /\ admitted' = admitted + 1
          /\ now' = now
      BY <1>2 DEF Allow, b
    <2>3. bucket' \in Buckets' /\ bucket'.tokens = b.tokens - Minute /\ bucket'.last = now
      BY <1>1, <2>1, <2>2 DEF Buckets, Full
    <2>4. bucket' # None
      BY <1>1, <2>2, <2>3, NoBucket DEF Buckets, Full
    <2>5. (admitted + 1) * Minute = admitted * Minute + Minute /\ now * PerMinute \in Int
            /\ admitted * Minute \in Int
      BY <1>1
    <2>6. admitted' * Minute + bucket'.tokens <= Full + bucket'.last * PerMinute
      BY <1>1, <2>1, <2>2, <2>3, <2>5 DEF Buckets
    <2> QED
      BY <1>1, <2>2, <2>3, <2>4, <2>6 DEF RateInv, LimiterTypeOK, Full
  <1>3. CASE Refuse
    <2>1. bucket' = Refill(Found, now) /\ admitted' = admitted /\ now' = now
      BY <1>3 DEF Refuse
    <2> QED
      BY <1>1, <2>1, FoundRefilled DEF RateInv, LimiterTypeOK, Buckets, Full
  <1>4. CASE Tick
    BY <1>1, <1>4 DEF Tick, RateInv, LimiterTypeOK, Buckets, Full
  <1>5. CASE ForgetLimiter
    BY <1>1, <1>5 DEF ForgetLimiter, RateInv, LimiterTypeOK, Buckets, Full
  <1>6. CASE UNCHANGED limiter
    BY <1>6 DEF limiter, RateInv, LimiterTypeOK, Buckets, Full
  <1> QED
    BY <1>2, <1>3, <1>4, <1>5, <1>6 DEF LimiterNext

\* A limiter that is new satisfies the invariant.
LEMMA NewLimiterInv == NewLimiter => RateInv
  BY DEF NewLimiter, RateInv, LimiterTypeOK

\* The invariant is enough for the bound on what gets through.
LEMMA BoundFromInv == RateInv => RateBound
  <1> SUFFICES ASSUME RateInv PROVE RateBound
    OBVIOUS
  <1>1. now \in Nat /\ Full \in Nat /\ PerMinute \in Nat /\ Minute \in Nat /\ admitted \in Nat
    BY FullIsAToken, RateAssumption DEF RateInv, LimiterTypeOK
  <1>2. admitted * Minute \in Nat /\ now * PerMinute \in Nat
    BY <1>1
  <1>3. CASE bucket = None
    <2>1. admitted * Minute = 0
      BY <1>1, <1>3 DEF RateInv
    <2> QED
      BY <1>1, <1>2, <2>1 DEF RateBound
  <1>4. CASE bucket # None
    <2>1. /\ bucket.tokens \in Nat /\ bucket.last \in Nat /\ bucket.last <= now
          /\ admitted * Minute + bucket.tokens <= Full + bucket.last * PerMinute
      BY <1>1, <1>4 DEF RateInv, LimiterTypeOK, Buckets
    <2>2. bucket.last * PerMinute <= now * PerMinute /\ bucket.last * PerMinute \in Nat
      BY <1>1, <2>1
    <2> QED
      BY <1>1, <1>2, <2>1, <2>2 DEF RateBound
  <1> QED
    BY <1>3, <1>4

\* The wait a refused client is told, rounded up to a second, brings what a token
\* still wants.
LEMMA WaitFromType == LimiterTypeOK => RetryAfterSuffices
  <1> SUFFICES ASSUME LimiterTypeOK, bucket # None, bucket.tokens < Minute
               PROVE  Refill(bucket, bucket.last + RetryAfter(bucket) * Second).tokens >= Minute
    BY DEF RetryAfterSuffices
  <1> DEFINE want == Minute - bucket.tokens
             perSecond == PerMinute * Second
             seconds == want \div perSecond + 1
             gain == (seconds * Second) * PerMinute
  <1>1. /\ PerMinute \in Nat \ {0} /\ Second \in Nat \ {0} /\ Minute \in Nat \ {0}
        /\ bucket.tokens \in Nat /\ bucket.last \in Nat
    BY FullIsAToken, RateAssumption DEF LimiterTypeOK, Buckets
  <1>2. want \in Nat /\ perSecond \in Nat \ {0}
    <2>1. ASSUME NEW a \in Nat \ {0}, NEW b \in Nat \ {0}
          PROVE  a * b \in Nat \ {0}
      BY <2>1
    <2> QED
      BY <1>1, <2>1
  <1>3. seconds \in Nat /\ seconds * perSecond > want
    <2>1. ASSUME NEW x \in Nat, NEW d \in Nat \ {0}
          PROVE  x \div d + 1 \in Nat /\ (x \div d + 1) * d > x
      BY <2>1
    <2> HIDE DEF want, perSecond
    <2> QED
      BY <1>2, <2>1
  <1>4. gain = seconds * perSecond
    <2>1. ASSUME NEW a \in Nat, NEW b \in Nat, NEW c \in Nat
          PROVE  (a * b) * c = a * (c * b)
      BY <2>1
    <2> HIDE DEF seconds
    <2> QED
      BY <1>1, <1>3, <2>1
  <1> HIDE DEF want, perSecond, seconds, gain
  <1>5. /\ RetryAfter(bucket) = seconds
        /\ ((bucket.last + seconds * Second) - bucket.last) * PerMinute = gain
    <2>1. seconds * Second \in Nat
      BY <1>1, <1>3
    <2>2. (bucket.last + seconds * Second) - bucket.last = seconds * Second
      BY <1>1, <2>1
    <2> QED
      BY <2>2 DEF RetryAfter, seconds, want, perSecond, gain
  <1>6. gain \in Int /\ gain > Minute - bucket.tokens
    BY <1>2, <1>3, <1>4 DEF want
  <1>7. Refill(bucket, bucket.last + seconds * Second).tokens
          = IF bucket.tokens + gain > Full THEN Full ELSE bucket.tokens + gain
    BY <1>5 DEF Refill
  <1> QED
    BY <1>1, <1>5, <1>6, <1>7, FullIsAToken
-----------------------------------------------------------------------------
\* Refilling what was just refilled adds nothing.
LEMMA RefillAgain ==
    ASSUME NEW b \in [tokens : 0..Full, last : Nat], NEW t \in Nat, b.last = t
    PROVE  Refill(b, t).tokens = b.tokens
  <1>1. (t - b.last) * PerMinute = 0
    BY RateAssumption
  <1>2. b.tokens \in 0..Full /\ Full \in Nat
    BY FullIsAToken
  <1> QED
    BY <1>1, <1>2 DEF Refill

\* No request and no tick of the clock brings more tokens than the time.
LEMMA StepSpends ==
    ASSUME RateInv, Allow \/ Refuse \/ Tick
    PROVE  Spends
  <1>1. now \in Nat /\ Full \in Nat /\ PerMinute \in Nat /\ Minute \in Nat \ {0}
          /\ admitted \in Nat
    BY FullIsAToken, RateAssumption DEF RateInv, LimiterTypeOK
  <1> DEFINE b == Refill(Found, now)
  <1>2. b \in Buckets /\ b # None /\ b.last = now
    BY FoundRefilled
  <1>3. TokensLeft = b.tokens /\ TokensLeft \in 0..Full
    BY <1>2 DEF TokensLeft, Buckets
  <1> HIDE DEF b
  <1>4. CASE Allow
    <2>1. /\ b.tokens >= Minute
          /\ bucket' = [b EXCEPT !.tokens = b.tokens - Minute]
          /\ admitted' = admitted + 1
          /\ now' = now
      BY <1>4 DEF Allow, b
    <2>2. bucket' \in Buckets /\ bucket'.tokens = b.tokens - Minute /\ bucket'.last = now
      BY <1>1, <1>2, <2>1 DEF Buckets
    <2>3. bucket' # None
      BY <1>1, <2>2, NoBucket DEF Buckets
    <2>4. TokensLeft' = b.tokens - Minute
      <3>1. Found' = bucket'
        BY <2>3 DEF Found
      <3>2. Refill(bucket', now).tokens = bucket'.tokens
        BY <1>1, <2>2, RefillAgain DEF Buckets
      <3> QED
        BY <2>1, <2>2, <3>1, <3>2 DEF TokensLeft
    <2>5. (admitted' - admitted) * Minute = Minute /\ (now' - now) * PerMinute = 0
      BY <1>1, <2>1
    <2>6. TokensLeft' \in 0..Full /\ Minute + TokensLeft' <= TokensLeft
      BY <1>1, <1>2, <1>3, <2>1, <2>4 DEF Buckets
    <2> QED
      BY <1>1, <1>3, <2>5, <2>6 DEF Spends
  <1>5. CASE Refuse
    <2>1. bucket' = b /\ admitted' = admitted /\ now' = now
      BY <1>5 DEF Refuse, b
    <2>2. TokensLeft' = b.tokens
      <3>1. Found' = b
        BY <1>2, <2>1 DEF Found
      <3>2. Refill(b, now).tokens = b.tokens
        BY <1>1, <1>2, RefillAgain DEF Buckets
      <3> QED
        BY <2>1, <3>1, <3>2 DEF TokensLeft
    <2>3. (admitted' - admitted) * Minute = 0 /\ (now' - now) * PerMinute = 0
      BY <1>1, <2>1
    <2> QED
      BY <1>1, <1>3, <2>2, <2>3 DEF Spends
  <1>6. CASE Tick
    <2>1. bucket # None /\ bucket' = bucket /\ now' = now + 1 /\ admitted' = admitted
      BY <1>6 DEF Tick
    <2>2. bucket \in Buckets
      BY <2>1 DEF RateInv, LimiterTypeOK
    <2> DEFINE had == (now - bucket.last) * PerMinute
               has == ((now + 1) - bucket.last) * PerMinute
    <2>3. had \in Nat /\ has = had + PerMinute
      <3>1. ASSUME NEW x \in Nat
            PROVE  x * PerMinute \in Nat /\ (x + 1) * PerMinute = x * PerMinute + PerMinute
        BY <1>1
      <3>2. now - bucket.last \in Nat /\ (now + 1) - bucket.last = (now - bucket.last) + 1
        BY <1>1, <2>2 DEF Buckets
      <3> QED
        BY <3>1, <3>2
    <2> HIDE DEF had, has
    <2>4. TokensLeft = IF bucket.tokens + had > Full THEN Full ELSE bucket.tokens + had
      BY <2>1 DEF TokensLeft, Found, Refill, had
    <2>5. TokensLeft' = IF bucket.tokens + has > Full THEN Full ELSE bucket.tokens + has
      <3>1. Found' = bucket
        BY <2>1 DEF Found
      <3>2. TokensLeft' = Refill(bucket, now + 1).tokens
        BY <1>1, <2>1, <3>1 DEF TokensLeft
      <3> QED
        BY <3>2 DEF Refill, has
    <2>6. bucket.tokens \in 0..Full
      BY <2>2 DEF Buckets
    <2>7. TokensLeft' \in 0..Full /\ TokensLeft' <= TokensLeft + PerMinute
      BY <1>1, <2>3, <2>4, <2>5, <2>6
    <2>8. (admitted' - admitted) * Minute = 0 /\ (now' - now) * PerMinute = PerMinute
      BY <1>1, <2>1
    <2> QED
      BY <1>1, <1>3, <2>7, <2>8 DEF Spends
  <1> QED
    BY <1>4, <1>5, <1>6
=============================================================================
