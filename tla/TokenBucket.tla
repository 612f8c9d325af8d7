---------------------------- MODULE TokenBucket -----------------------------
(***************************************************************************)
(* The token bucket of InMemoryTokenBucketStrategy and of the Lua script   *)
(* of RedisTokenBucketStrategy, which compute the same.                    *)
(*                                                                         *)
(* Tokens are counted in units of which a request may cost several, time   *)
(* in ticks.  Instead of the time of its last update a bucket has the      *)
(* ticks since then and the ticks by which the clock of the servers has    *)
(* been set back since then.                                               *)
(***************************************************************************)
EXTENDS Integers

CONSTANTS
  Capacity,  \* capacity
  Rate,      \* refillRate
  Cost,      \* cost of a request
  MinTTL     \* the 60 in EXPIRE

ASSUME BucketAssumption ==
  /\ Capacity \in Nat /\ Rate \in Nat \ {0}
  /\ Cost \in 1 .. Capacity
  /\ MinTTL \in Nat

AtMost(bound, n) == IF n < bound THEN n ELSE bound
AtLeast(bound, n) == IF n > bound THEN n ELSE bound
CeilDiv(a, b) == (a + b - 1) \div b

\* A bucket that is not there is full.
Full == [tokens |-> Capacity, age |-> 0, back |-> 0]

\* Mutant: the time since the last update is not clamped at 0 but taken without
\* its sign.
UnsignedElapsed(b) == IF b.age > b.back THEN b.age - b.back ELSE b.back - b.age

Elapsed(b) == AtLeast(0, b.age - b.back)

\* currentTokens: the refill is computed when the bucket is looked at.
Level(b) == AtMost(Capacity, b.tokens + Elapsed(b) * Rate)

Allowed(b) == Level(b) >= Cost

\* Either branch of consume notes the time.
Consumed(b) ==
  [tokens |-> IF Allowed(b) THEN Level(b) - Cost ELSE Level(b), age |-> 0, back |-> 0]

\* Mutant: the wait is rounded down.
RetryAfterRoundedDown(b) == AtLeast(1, (Cost - Level(b)) \div Rate)

\* Retry-After of a request that is refused.
RetryAfter(b) == AtLeast(1, CeilDiv(Cost - Level(b), Rate))

\* The life of the key in Redis: EXPIRE.
KeyTTL == AtLeast(MinTTL, CeilDiv(2 * Capacity, Rate))
=============================================================================
