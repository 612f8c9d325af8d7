---------------------------- MODULE GatewayProofs ---------------------------
(***************************************************************************)
(* The rate limit of Gateway, for any capacity, refill rate and cost, and  *)
(* any numbers of servers and callers.                                     *)
(*                                                                         *)
(* WithinBudget is not inductive: a clock that was set back hides tokens   *)
(* that come out when it catches up.  The strengthening bounds what the    *)
(* bucket holds by the ticks that have really passed.                      *)
(***************************************************************************)
EXTENDS Gateway, TLAPS

\* What the bucket would hold if its clock had not been set back.
Owed(b) == AtMost(Capacity, b.tokens + b.age * Rate)

QInv ==
  /\ bucket \in [tokens : 0 .. Capacity, age : Nat, back : Nat]
  /\ budget \in 0 .. Capacity
  /\ Owed(bucket) <= budget

\* More time is more tokens.
LEMMA RefillMonotonic ==
  ASSUME NEW a \in Nat, NEW b \in Nat, a <= b
  PROVE  a * Rate \in Nat /\ b * Rate \in Nat /\ a * Rate <= b * Rate
  <1>1. PICK d \in Nat : b = a + d
    <2>1. b - a \in Nat /\ b = a + (b - a)
      OBVIOUS
    <2> QED
      BY <2>1
  <1>2. /\ a * Rate \in Nat /\ d * Rate \in Nat
        /\ (a + d) * Rate = a * Rate + d * Rate
    BY BucketAssumption
  <1> QED
    BY <1>1, <1>2

\* A key that Redis has dropped was of a bucket that would be full again.
LEMMA ExpiredIsFull ==
  ASSUME NEW n \in Nat, n >= KeyTTL
  PROVE  n * Rate >= Capacity
  <1> DEFINE k == CeilDiv(2 * Capacity, Rate)
  <1>1. k \in Nat /\ k * Rate >= 2 * Capacity
    BY BucketAssumption DEF CeilDiv
  <1>2. n >= k
    BY <1>1, BucketAssumption DEF KeyTTL, AtLeast
  <1> HIDE DEF k
  <1>3. k * Rate <= n * Rate /\ n * Rate \in Nat /\ k * Rate \in Nat
    BY <1>1, <1>2, RefillMonotonic
  <1> QED
    BY <1>1, <1>3, BucketAssumption

\* currentTokens is what the passing of time has earned at most.
LEMMA LevelBounded ==
  ASSUME QInv
  PROVE  Level(bucket) \in 0 .. Capacity /\ Level(bucket) <= budget
  <1>1. Elapsed(bucket) \in Nat /\ Elapsed(bucket) <= bucket.age /\ bucket.age \in Nat
    BY DEF QInv, Elapsed, AtLeast
  <1>2. /\ Elapsed(bucket) * Rate <= bucket.age * Rate
        /\ Elapsed(bucket) * Rate \in Nat /\ bucket.age * Rate \in Nat
    BY <1>1, RefillMonotonic
  <1> QED
    BY <1>2, BucketAssumption DEF QInv, Level, Owed, AtMost

\* A bucket that has just been updated and holds no more than the budget.
LEMMA UpdatedQInv ==
  ASSUME NEW n \in 0 .. Capacity, NEW m \in 0 .. Capacity, n <= m,
         bucket' = [tokens |-> n, age |-> 0, back |-> 0], budget' = m
  PROVE  QInv'
  <1>1. bucket'.tokens = n /\ bucket'.age = 0 /\ 0 * Rate = 0
    BY BucketAssumption
  <1> QED
    BY <1>1, BucketAssumption DEF QInv, Owed, AtMost

\* consume, whether the request is let through or not.
LEMMA ConsumedQInv ==
  ASSUME QInv, bucket' = Consumed(bucket),
         budget' = IF Allowed(bucket) THEN budget - Cost ELSE budget
  PROVE  QInv' /\ (Allowed(bucket) => budget >= Cost)
  <1>1. /\ Level(bucket) \in 0 .. Capacity /\ Level(bucket) <= budget
        /\ budget \in 0 .. Capacity
    BY LevelBounded DEF QInv
  <1> DEFINE n == IF Allowed(bucket) THEN Level(bucket) - Cost ELSE Level(bucket)
             m == IF Allowed(bucket) THEN budget - Cost ELSE budget
  <1>2. n \in 0 .. Capacity /\ m \in 0 .. Capacity /\ n <= m
    BY <1>1, BucketAssumption DEF Allowed
  <1>3. Allowed(bucket) => budget >= Cost
    BY <1>1, BucketAssumption DEF Allowed
  <1>4. bucket' = [tokens |-> n, age |-> 0, back |-> 0] /\ budget' = m
    BY DEF Consumed
  <1> HIDE DEF n, m
  <1> QED
    BY <1>2, <1>3, <1>4, UpdatedQInv

LEMMA TickQInv == QInv /\ Tick => QInv' /\ Quota!Refill
  <1> SUFFICES ASSUME QInv, Tick PROVE QInv' /\ Quota!Refill
    OBVIOUS
  <1>1. budget' = AtMost(Capacity, budget + Rate)
    BY DEF Tick
  <1>2. PICK n : n = AtMost(MaxAge, bucket.age + 1)
    OBVIOUS
  <1>3. bucket' = [bucket EXCEPT !.age = n]
    BY <1>2 DEF Tick
  <1>4. KeyTTL \in Nat
    BY BucketAssumption DEF KeyTTL, AtLeast, CeilDiv
  <1>5. n \in Nat /\ n <= bucket.age + 1 /\ bucket.age \in Nat
    BY <1>2, <1>4, GatewayAssumption DEF AtMost, MaxAge, QInv
  <1>6. /\ n * Rate <= (bucket.age + 1) * Rate
        /\ n * Rate \in Nat /\ (bucket.age + 1) * Rate \in Nat
    BY <1>5, RefillMonotonic
  <1>7. (bucket.age + 1) * Rate = bucket.age * Rate + Rate /\ bucket.age * Rate \in Nat
    BY <1>5, BucketAssumption
  <1>8. /\ bucket' \in [tokens : 0 .. Capacity, age : Nat, back : Nat]
        /\ bucket'.tokens = bucket.tokens /\ bucket'.age = n
    BY <1>3, <1>5 DEF QInv
  <1>9. budget' \in 0 .. Capacity /\ Owed(bucket') <= budget'
    BY <1>1, <1>6, <1>7, <1>8, BucketAssumption DEF QInv, Owed, AtMost
  <1> QED
    BY <1>1, <1>8, <1>9 DEF QInv, Quota!Refill, Quota!AtMost, AtMost, Owed

\* Every step keeps QInv, and is a step of the quota or leaves the budget alone.
LEMMA NextQInv ==
  QInv /\ [Next]_vars => QInv' /\ [Quota!Refill \/ Quota!Spend]_budget
  <1> SUFFICES ASSUME QInv, [Next]_vars
               PROVE  QInv' /\ [Quota!Refill \/ Quota!Spend]_budget
    OBVIOUS
  <1>1. ASSUME UNCHANGED <<bucket, budget>>
        PROVE  QInv' /\ [Quota!Refill \/ Quota!Spend]_budget
    BY <1>1 DEF QInv, Owed
  <1>2. ASSUME bucket' = Consumed(bucket),
               budget' = IF Allowed(bucket) THEN budget - Cost ELSE budget
        PROVE  QInv' /\ [Quota!Refill \/ Quota!Spend]_budget
    BY <1>2, ConsumedQInv DEF Quota!Spend
  <1>3. ASSUME NEW q \in Requests, Serve(q)
        PROVE  QInv' /\ [Quota!Refill \/ Quota!Spend]_budget
    <2>1. CASE Grant(q) \/ Refuse(q)
      BY <1>2, <2>1 DEF Grant, Refuse
    <2> QED
      BY <1>1, <1>3, <2>1, Zenon DEF Serve, Admit, Shed, Close, Handle, rate
  <1>4. ASSUME NEW q \in Requests, FailOpen(q)
        PROVE  QInv' /\ [Quota!Refill \/ Quota!Spend]_budget
    BY <1>1, <1>2, <1>4 DEF FailOpen
  <1>5. CASE Tick
    BY <1>5, TickQInv
  <1>6. CASE SetBack
    <2>1. /\ bucket' \in [tokens : 0 .. Capacity, age : Nat, back : Nat]
          /\ bucket'.tokens = bucket.tokens /\ bucket'.age = bucket.age
          /\ budget' = budget
      BY <1>6 DEF SetBack, QInv
    <2> QED
      BY <2>1 DEF QInv, Owed
  <1>7. CASE Expire
    <2>1. bucket.age * Rate >= Capacity /\ bucket.age * Rate \in Nat
      BY <1>7, ExpiredIsFull, RefillMonotonic DEF Expire, QInv
    <2>2. budget = Capacity
      BY <2>1, BucketAssumption DEF QInv, Owed, AtMost
    <2>3. bucket' = [tokens |-> Capacity, age |-> 0, back |-> 0] /\ budget' = Capacity
      BY <1>7, <2>2 DEF Expire, Full
    <2> QED
      BY <2>2, <2>3, UpdatedQInv, BucketAssumption
  <1>8. CASE \/ \E c \in Callers : Dispatch(c)
             \/ \E s \in Servers : Kill(s) \/ Restore(s) \/ ResetStats(s)
             \/ \E q \in Requests : Drop(q)
             \/ UNCHANGED vars
    BY <1>1, <1>8, Zenon DEF Dispatch, Kill, Restore, ResetStats, Drop, rate, vars
  <1> QED
    BY <1>3, <1>4, <1>5, <1>6, <1>7, <1>8 DEF Next

LEMMA InitQInv == Init => QInv
  <1> SUFFICES ASSUME Init PROVE QInv
    OBVIOUS
  <1>1. /\ bucket = [tokens |-> Capacity, age |-> 0, back |-> 0] /\ budget = Capacity
        /\ 0 * Rate = 0
    BY BucketAssumption DEF Init, Full
  <1> QED
    BY <1>1, BucketAssumption DEF QInv, Owed, AtMost

LEMMA Invariance == Spec => []QInv
  <1>1. QInv /\ [Next]_vars => QInv'
    BY NextQInv
  <1> QED
    BY InitQInv, <1>1, PTL DEF Spec

\* The bucket never holds more than one that is filled tick by tick.
THEOREM BucketWithinBudget == Spec => []WithinBudget
  <1>1. QInv => WithinBudget
    BY LevelBounded DEF WithinBudget
  <1> QED
    BY Invariance, <1>1, PTL

\* The shared bucket implements the quota that is filled tick by tick.
THEOREM BucketKeepsQuota == Spec => KeepsQuota
  <1>1. Init => Quota!Init
    BY DEF Init, Quota!Init
  <1>2. QInv /\ [Next]_vars => [Quota!Refill \/ Quota!Spend]_budget
    BY NextQInv
  <1> QED
    BY Invariance, <1>1, <1>2, PTL DEF Spec, KeepsQuota, Quota!Spec
=============================================================================
