------------------------------ MODULE Gateway -------------------------------
(***************************************************************************)
(* What a request meets before its handler: the RetryPolicy of the caller, *)
(* RoundRobinLoadBalancer, and on the server it is sent to the load        *)
(* shedder with its ConcurrencyLimiter and the rate limiter, whose bucket  *)
(* all servers share (in this order in createApp).                         *)
(*                                                                         *)
(* A request is one attempt of a caller.  Each action is the synchronous   *)
(* code between two events: the arrival of a request, the reply of the     *)
(* bucket, the end of the handler, 'finish' and 'close' of the response,   *)
(* and the end of a pause.                                                 *)
(***************************************************************************)
EXTENDS TokenBucket, Sequences, FiniteSets

CONSTANTS
  Instances,      \* the servers in the order of their registration
  Callers,        \* callers of RetryPolicy.execute, with one rate limit key
  Low,            \* callers whose requests have priority LOW
  MaxConcurrent,  \* maxConcurrent of a server
  MaxAttempts,    \* maxAttempts of the RetryPolicy
  MaxPause,       \* bound on a pause with jitter, in ticks
  MaxUpsets,      \* bound on what disturbs: servers killed, broken
                  \* connections, resets, errors of Redis, clocks set back
  None            \* no server

ASSUME GatewayAssumption ==
  /\ MaxConcurrent \in Nat \ {0} /\ MaxAttempts \in Nat \ {0}
  /\ MaxPause \in Nat /\ MaxUpsets \in Nat
  /\ Low \subseteq Callers

Servers == {Instances[i] : i \in DOMAIN Instances}
Requests == Callers \X (0 .. MaxAttempts - 1)

VARIABLES
  healthy,  \* servers whose isHealthy is TRUE
  index,    \* currentIndex
  picked,   \* history: the server picked last, None after a change of health
  active,   \* activeRequests of the limiter of each server
  reset,    \* history: servers whose resetStats has been called
  req,      \* requests
  caller,   \* callers
  bucket,   \* the bucket of the key
  budget,   \* history: tokens a bucket filled tick by tick would have
  upsets    \* disturbances so far

vars == <<healthy, index, picked, active, reset, req, caller, bucket, budget,
          upsets>>
balancer == <<healthy, index, picked>>
limiter == <<active, reset>>
rate == <<bucket, budget>>

NoRequest == [pc |-> "none", server |-> None, open |-> FALSE, slot |-> FALSE]
Closed == [NoRequest EXCEPT !.pc = "closed"]

Init ==
  /\ healthy = Servers
  /\ index = 0
  /\ picked = None
  /\ active = [s \in Servers |-> 0]
  /\ reset = {}
  /\ req = [q \in Requests |-> NoRequest]
  /\ caller = [c \in Callers |-> [pc |-> "pause", attempt |-> 0, wait |-> 0, alone |-> FALSE]]
  /\ bucket = Full
  /\ budget = Capacity
  /\ upsets = 0

Upset == upsets < MaxUpsets /\ upsets' = upsets + 1

-----------------------------------------------------------------------------
(* RetryPolicy.                                                            *)

Retryable == {"429", "503", "500", "reset"}

\* Mutant: attempts are not counted.
OutcomeForever(c, outcome, retryAfter) ==
  caller' = [caller EXCEPT ![c] =
    IF outcome \in Retryable
      THEN [@ EXCEPT !.pc = "pause", !.wait = retryAfter, !.alone = outcome = "429"]
      ELSE [@ EXCEPT !.pc = "ended", !.alone = FALSE]]

\* What execute makes of the outcome of an attempt.  Retry-After is obeyed;
\* without it the pause is a random one.
Outcome(c, outcome, retryAfter) ==
  IF outcome \in Retryable /\ caller[c].attempt < MaxAttempts - 1
    THEN \E wait \in IF retryAfter > 0 THEN {retryAfter} ELSE 0 .. MaxPause :
           caller' = [caller EXCEPT ![c] =
             [pc |-> "pause", attempt |-> @.attempt + 1, wait |-> wait,
              alone |-> outcome = "429"]]
    ELSE caller' = [caller EXCEPT ![c] = [@ EXCEPT !.pc = "ended", !.alone = FALSE]]

-----------------------------------------------------------------------------
(* RoundRobinLoadBalancer.                                                 *)

HealthyInstances == SelectSeq(Instances, LAMBDA s : s \in healthy)

\* Mutant: off by one.
NextIndexOffByOne(n) == (index + 1) % (n + 1)

\* currentIndex after a pick among n servers.
NextIndex(n) == (index + 1) % n

\* The pause is over: the proxy picks a server, or answers 503 itself.
Dispatch(c) ==
  LET up == HealthyInstances
      n == Len(up)
      server == up[(index % n) + 1]
  IN
  /\ caller[c].pc = "pause" /\ caller[c].wait = 0
  /\ IF n = 0
       THEN Outcome(c, "503", 0) /\ UNCHANGED <<req, index, picked>>
       ELSE /\ index' = NextIndex(n)
            /\ picked' = server
            /\ req' = [req EXCEPT ![<<c, caller[c].attempt>>] =
                 [pc |-> "arrived", server |-> server, open |-> TRUE, slot |-> FALSE]]
            /\ caller' = [caller EXCEPT ![c].pc = "await", ![c].alone = FALSE]
  /\ UNCHANGED <<healthy, limiter, rate, upsets>>

Kill(s) ==
  /\ s \in healthy
  /\ Upset
  /\ healthy' = healthy \ {s}
  /\ picked' = None
  /\ UNCHANGED <<index, limiter, req, caller, rate>>

Restore(s) ==
  /\ s \notin healthy
  /\ healthy' = healthy \cup {s}
  /\ picked' = None
  /\ UNCHANGED <<index, limiter, req, caller, rate, upsets>>

-----------------------------------------------------------------------------
(* The end of a request.                                                   *)

\* The response of q goes to its caller, if the connection is open.
Answer(q, outcome, retryAfter) ==
  IF req[q].open THEN Outcome(q[1], outcome, retryAfter) ELSE UNCHANGED caller

\* Mutant: 'finish' and 'close' both release.
ReleaseTwice(q) ==
  active' = [active EXCEPT ![req[q].server] = IF @ > 0 THEN @ - 1 ELSE @]

\* releaseOnce, and release, which stops at 0.
ReleaseOnce(q) ==
  active' = [active EXCEPT ![req[q].server] =
    IF req[q].slot /\ @ > 0 THEN @ - 1 ELSE @]

\* 'finish': the response has been sent.
Finish(q, outcome, retryAfter) ==
  /\ Answer(q, outcome, retryAfter)
  /\ ReleaseOnce(q)
  /\ req' = [req EXCEPT ![q].pc = "sent", ![q].slot = FALSE]

\* 'close' after 'finish'.
Close(q) ==
  /\ req[q].pc = "sent"
  /\ ReleaseOnce(q)
  /\ req' = [req EXCEPT ![q] = Closed]
  /\ UNCHANGED <<balancer, reset, caller, rate, upsets>>

\* The connection breaks.  A request whose body is still being read ends; any
\* other goes on, without its slot.
Drop(q) ==
  /\ req[q].open /\ req[q].pc \in {"arrived", "limit", "handle"}
  /\ Upset
  /\ Outcome(q[1], "reset", 0)
  /\ ReleaseOnce(q)
  /\ req' = [req EXCEPT ![q] =
       IF @.pc = "arrived" THEN Closed ELSE [@ EXCEPT !.open = FALSE, !.slot = FALSE]]
  /\ UNCHANGED <<balancer, reset, rate>>

-----------------------------------------------------------------------------
(* The load shedder.                                                       *)

\* Math.floor(maxConcurrent * 0.8).
LowPriorityThreshold == (MaxConcurrent * 8) \div 10

TryAcquire(c, s) ==
  /\ active[s] < MaxConcurrent
  /\ c \in Low => active[s] < LowPriorityThreshold

Admit(q) ==
  /\ req[q].pc = "arrived"
  /\ TryAcquire(q[1], req[q].server)
  /\ active' = [active EXCEPT ![req[q].server] = @ + 1]
  /\ req' = [req EXCEPT ![q].pc = "limit", ![q].slot = TRUE]
  /\ UNCHANGED <<balancer, reset, caller, rate, upsets>>

\* 503 with Retry-After: 2.
Shed(q) ==
  /\ req[q].pc = "arrived"
  /\ ~TryAcquire(q[1], req[q].server)
  /\ Finish(q, "503", 2)
  /\ UNCHANGED <<balancer, reset, rate, upsets>>

\* resetStats forgets the requests that are under way, too.
ResetStats(s) ==
  /\ s \notin reset
  /\ Upset
  /\ reset' = reset \cup {s}
  /\ active' = [active EXCEPT ![s] = 0]
  /\ UNCHANGED <<balancer, req, caller, rate>>

-----------------------------------------------------------------------------
(* The rate limiter.                                                       *)

\* Somebody took tokens, or asked for them: nobody who pauses is alone.
Disturbed(who) == [c \in Callers |-> [who[c] EXCEPT !.alone = FALSE]]

Grant(q) ==
  /\ req[q].pc = "limit"
  /\ Allowed(bucket)
  /\ bucket' = Consumed(bucket)
  /\ budget' = budget - Cost
  /\ req' = [req EXCEPT ![q].pc = "handle"]
  /\ caller' = Disturbed(caller)
  /\ UNCHANGED <<balancer, limiter, upsets>>

\* 429 with Retry-After.  A refusal takes no tokens.
Refuse(q) ==
  /\ req[q].pc = "limit"
  /\ ~Allowed(bucket)
  /\ bucket' = Consumed(bucket)
  /\ Finish(q, "429", RetryAfter(bucket))
  /\ UNCHANGED <<balancer, reset, budget, upsets>>

\* Fail-open: Redis does not answer, having run the script or not.
FailOpen(q) ==
  /\ req[q].pc = "limit"
  /\ Upset
  /\ \/ UNCHANGED <<bucket, budget>>
     \/ /\ bucket' = Consumed(bucket)
        /\ budget' = IF Allowed(bucket) THEN budget - Cost ELSE budget
  /\ req' = [req EXCEPT ![q].pc = "handle"]
  /\ caller' = Disturbed(caller)
  /\ UNCHANGED <<balancer, limiter>>

\* The handler answers.
Handle(q, outcome) ==
  /\ req[q].pc = "handle"
  /\ Finish(q, outcome, 0)
  /\ UNCHANGED <<balancer, reset, rate, upsets>>

-----------------------------------------------------------------------------
(* Time.                                                                   *)

\* Beyond this age nothing about a bucket changes.
MaxAge == KeyTTL + MaxUpsets

Tick ==
  /\ bucket' = [bucket EXCEPT !.age = AtMost(MaxAge, @ + 1)]
  /\ budget' = AtMost(Capacity, budget + Rate)
  /\ caller' = [c \in Callers |-> [caller[c] EXCEPT !.wait = AtLeast(0, @ - 1)]]
  /\ UNCHANGED <<balancer, limiter, req, upsets>>

\* The clock of the servers is set back by a tick.
SetBack ==
  /\ Upset
  /\ bucket' = [bucket EXCEPT !.back = @ + 1]
  /\ caller' = Disturbed(caller)
  /\ UNCHANGED <<balancer, limiter, req, budget>>

\* Redis drops the key of a bucket nobody has asked.
Expire ==
  /\ bucket.age >= KeyTTL
  /\ bucket' = Full
  /\ UNCHANGED <<balancer, limiter, req, caller, budget, upsets>>

Serve(q) ==
  \/ Admit(q) \/ Shed(q) \/ Grant(q) \/ Refuse(q) \/ Close(q)
  \/ \E outcome \in {"ok", "4xx", "500"} : Handle(q, outcome)

Next ==
  \/ \E c \in Callers : Dispatch(c)
  \/ \E s \in Servers : Kill(s) \/ Restore(s) \/ ResetStats(s)
  \/ \E q \in Requests : Serve(q) \/ Drop(q) \/ FailOpen(q)
  \/ Tick \/ SetBack \/ Expire

Spec == Init /\ [][Next]_vars

\* Time passes, callers go on after a pause, servers answer.
FairSpec ==
  /\ Spec
  /\ WF_vars(Tick)
  /\ \A c \in Callers :
       WF_vars(Dispatch(c)) /\ WF_vars(\E a \in 0 .. MaxAttempts - 1 : Serve(<<c, a>>))

-----------------------------------------------------------------------------
(* Properties.                                                             *)

Holders(s) == {q \in Requests : req[q].server = s /\ req[q].slot}

\* No slot of a server is given back twice or kept for ever: the limiter counts
\* its holders, who are at most MaxConcurrent, though a response may finish,
\* close, or break off in between (loadShedderMiddleware.ts 43-52).  After a
\* resetStats (ConcurrencyLimiter.ts 65-69) it counts too few, never too many,
\* so that it agrees again once the server is idle.
SlotsAccountedFor ==
  \A s \in Servers :
    LET held == Cardinality(Holders(s)) IN
    IF s \in reset THEN active[s] <= held ELSE active[s] = held /\ held <= MaxConcurrent

\* The bucket never lets more through than one that is filled tick by tick: not
\* when its key expires, not when the clock goes back
\* (InMemoryTokenBucketStrategy.ts 40-47, RedisTokenBucketStrategy.ts 27-49).
WithinBudget == Level(bucket) <= budget

Quota == INSTANCE TokenQuota

\* The shared bucket, which is only looked at when somebody asks, implements one
\* that is filled tick by tick: each request that its tokens let through is one
\* that the quota pays for.
KeepsQuota == Quota!Spec

\* A caller that was refused, pauses for Retry-After and has the bucket for
\* itself meanwhile finds tokens for its next attempt
\* (InMemoryTokenBucketStrategy.ts 64-65, RetryPolicy.ts 63-66).
RetryAfterSuffices ==
  \A c \in Callers : caller[c].alone =>
    Level([bucket EXCEPT !.age = @ + caller[c].wait]) >= Cost

\* Two requests in a row go to different servers, as long as no server is
\* killed or restored between them and there is a choice
\* (RoundRobinLoadBalancer.ts 37-45).
TakesTurns ==
  [][\A q \in Requests :
       req[q].pc = "none" /\ req'[q].pc = "arrived" /\ Cardinality(healthy) > 1
         => req'[q].server # picked]_vars

\* Every call of execute ends, with a result or an error.
CallsEnd == \A c \in Callers : <>(caller[c].pc = "ended")
=============================================================================
