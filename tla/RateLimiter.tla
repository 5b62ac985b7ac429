----------------------------- MODULE RateLimiter -----------------------------
(***************************************************************************)
(* The token bucket of the REST channel. Every authorized request carries   *)
(* the same key, so there is one bucket, made full by the first request.   *)
(* The clock counts fractions of a second since then. A token is Minute     *)
(* units, and each tick of the clock brings PerMinute of them.             *)
(***************************************************************************)
EXTENDS Integers

CONSTANTS
    PerMinute,   \* requests per minute: maxTokens
    Second,      \* ticks of the clock in a second
    Minute,      \* ticks of the clock in a minute, 60 seconds in the code
    None         \* nothing in a variable or a field

ASSUME RateAssumption ==
    /\ PerMinute \in Nat \ {0}
    /\ Second \in Nat \ {0}
    /\ Minute \in Nat \ {0}

\* There is a bucket or there is none.
ASSUME NoBucket == None \notin [tokens : Nat, last : Nat]

VARIABLES
    now,       \* the clock
    bucket,    \* rateLimiter.buckets[key]
    admitted   \* history: the requests the bucket let through

limiter == <<now, bucket, admitted>>

Full == PerMinute * Minute

\* A mutated form: lastTime stays, and the same time is counted again.
RefillTwice(b, t) ==
    LET tokens == b.tokens + (t - b.last) * PerMinute
    IN  [tokens |-> IF tokens > Full THEN Full ELSE tokens, last |-> b.last]

\* A mutated form: an idle client saves up more than the burst.
RefillUncapped(b, t) ==
    [tokens |-> b.tokens + (t - b.last) * PerMinute, last |-> t]

Refill(b, t) ==
    LET tokens == b.tokens + (t - b.last) * PerMinute
    IN  [tokens |-> IF tokens > Full THEN Full ELSE tokens, last |-> t]

\* A mutated form: the wait is rounded down.
RetryAfterRoundedDown(b) == (Minute - b.tokens) \div (PerMinute * Second)

\* The seconds a refused client is told to wait.
RetryAfter(b) == (Minute - b.tokens) \div (PerMinute * Second) + 1

\* The bucket a request finds.
Found == IF bucket = None THEN [tokens |-> Full, last |-> now] ELSE bucket

\* A mutated form: a part of a token is enough.
AllowPart ==
    LET b == Refill(Found, now) IN
    /\ b.tokens > 0
    /\ bucket' = [b EXCEPT !.tokens = @ - Minute]
    /\ admitted' = admitted + 1
    /\ UNCHANGED now

\* allow: the request takes a token.
Allow ==
    LET b == Refill(Found, now) IN
    /\ b.tokens >= Minute
    /\ bucket' = [b EXCEPT !.tokens = @ - Minute]
    /\ admitted' = admitted + 1
    /\ UNCHANGED now

\* allow: there is none.
Refuse ==
    LET b == Refill(Found, now) IN
    /\ b.tokens < Minute
    /\ bucket' = b
    /\ UNCHANGED <<now, admitted>>

\* newRateLimiter.
NewLimiter == now = 0 /\ bucket = None /\ admitted = 0

\* The process dies, or has closed the channel.
ForgetLimiter == now' = 0 /\ bucket' = None /\ admitted' = 0

\* Before the first request time is of no account.
Tick ==
    /\ bucket # None
    /\ now' = now + 1
    /\ UNCHANGED <<bucket, admitted>>
-----------------------------------------------------------------------------
\* What a request would find in the bucket.
TokensLeft == Refill(Found, now).tokens

\* Every request that gets through costs a token, only time brings tokens, and no more
\* than the burst are saved up.
Spends ==
    /\ {TokensLeft, TokensLeft'} \subseteq 0..Full
    /\ (admitted' - admitted) * Minute + TokensLeft' <= TokensLeft + (now' - now) * PerMinute

\* In every stretch of time no more requests get through than the burst the bucket holds
\* and what this time has brought. Only the end of the process, or of its channels, forgets
\* what was spent.
TokensAreSpent == [][ForgetLimiter \/ Spends]_limiter

\* A client that waits for as long as it is told finds a token, when no other took it.
RetryAfterSuffices ==
    bucket # None /\ bucket.tokens < Minute =>
        Refill(bucket, bucket.last + RetryAfter(bucket) * Second).tokens >= Minute
=============================================================================
