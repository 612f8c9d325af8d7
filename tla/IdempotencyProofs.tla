-------------------------- MODULE IdempotencyProofs -------------------------
(***************************************************************************)
(* The safety properties of Idempotency, for any number of clients, any    *)
(* payloads, any lock duration and any number of failures, when no server  *)
(* outlives its lock.                                                      *)
(*                                                                         *)
(* OneHolder is not inductive: it says nothing of the row, which is all    *)
(* that INSERT and the reclaiming UPDATE look at.  HInv ties the holder to *)
(* the row and the row to the clock, and counts the effect of the holder.  *)
(***************************************************************************)
EXTENDS Idempotency, TLAPS

Hashes == {Hash[r] : r \in Requests} \cup {0}
Body == [run : Nat, hash : Hashes]
Row == [status : {"NONE", "IN_PROGRESS", "COMPLETED"}, hash : Hashes, until : Nat, body : Body]
Req == [pc : PC, until : Nat, outcome : Outcome, body : Body]

Working == {"handle", "respond", "finish"}

HTypes ==
  /\ now \in Nat /\ effects \in Nat /\ faults \in Nat
  /\ rec \in Row
  /\ req \in [Requests -> Req]

\* Who works on the key has the row, and is in time.
RequestOK(r) ==
  /\ Busy(r) => now <= req[r].until
  /\ req[r].pc \in Working => rec.status = "IN_PROGRESS" /\ rec.until = req[r].until

\* The handler of r has taken effect, or refused to, without a failure.
Settled(r) == req[r].pc \in {"respond", "finish"} /\ req[r].outcome # "error"

\* An effect that is not due to a failure is stored or about to be.
Counted ==
  \/ effects <= faults
  \/ /\ effects <= faults + 1
     /\ rec.status = "COMPLETED" \/ \E r \in Requests : Settled(r)

HInv ==
  /\ HTypes
  /\ rec.status = "NONE" => rec = NoRow
  /\ \A r \in Requests : RequestOK(r)
  /\ OneHolder
  /\ Counted

LEMMA InitHInv == Init => HInv
  <1> SUFFICES ASSUME Init PROVE HInv
    OBVIOUS
  <1>1. NoBody \in Body
    BY DEF NoBody, Body, Hashes
  <1>2. NoRow \in Row /\ Fresh \in Req /\ Fresh.pc = "new"
    BY <1>1 DEF NoRow, Row, Fresh, Req, PC, Outcome, Hashes
  <1> QED
    BY <1>2 DEF Init, HInv, HTypes, RequestOK, Busy, Working, OneHolder, Counted

\* A step of r after which it does not have the key, and the row is as before.
LEMMA AsideHInv ==
  ASSUME HInv, NEW r \in Requests, NEW new \in Req, req' = [req EXCEPT ![r] = new],
         UNCHANGED <<now, rec, effects>>, new.pc \notin Working,
         new.pc \notin {"new", "done"} => now <= new.until,
         \/ faults' = faults /\ req[r].pc \notin Working
         \/ faults' = faults + 1
  PROVE  HInv'
  <1>1. HTypes'
    BY DEF HInv, HTypes
  <1>2. \A s \in Requests : req'[s] = IF s = r THEN new ELSE req[s]
    BY DEF HInv, HTypes
  <1>3. \A s \in Requests : RequestOK(s)'
    BY <1>2 DEF HInv, RequestOK, Busy
  <1>4. OneHolder'
    BY <1>2 DEF HInv, OneHolder, Working
  <1>5. CASE faults' = faults /\ req[r].pc \notin Working
    <2>1. \A s \in Requests : Settled(s) => Settled(s)'
      BY <1>2, <1>5 DEF Settled, Working
    <2> QED
      BY <1>1, <1>3, <1>4, <1>5, <2>1 DEF HInv, Counted
  <1>6. CASE faults' = faults + 1
    <2>1. effects' <= faults'
      BY <1>6 DEF HInv, HTypes, Counted
    <2> QED
      BY <1>1, <1>3, <1>4, <2>1 DEF HInv, Counted
  <1> QED
    BY <1>5, <1>6

\* A step by which r gets the key: nobody has it.
LEMMA TakenHInv ==
  ASSUME HInv, NEW r \in Requests, NEW new \in Row, rec' = new,
         req' = [req EXCEPT ![r].pc = "handle"], req[r].pc \in {"insert", "reclaim"},
         new.status = "IN_PROGRESS", new.until = req[r].until, rec.status # "COMPLETED",
         \A s \in Requests : req[s].pc \notin Working,
         UNCHANGED <<now, effects, faults>>
  PROVE  HInv'
  <1>1. \A s \in Requests : /\ s # r => req'[s] = req[s]
                            /\ s = r => req'[s] = [req[r] EXCEPT !.pc = "handle"]
    BY DEF HInv, HTypes
  <1>2. [req[r] EXCEPT !.pc = "handle"] \in Req /\ req'[r].pc = "handle" /\ req'[r].until = req[r].until
    BY <1>1 DEF HInv, HTypes, Req, PC
  <1>3. HTypes'
    BY <1>2 DEF HInv, HTypes
  <1>4. ASSUME NEW s \in Requests PROVE RequestOK(s)'
    BY <1>1, <1>2 DEF HInv, RequestOK, Busy
  <1>5. OneHolder'
    BY <1>1 DEF OneHolder, Working
  <1>6. effects <= faults
    BY DEF HInv, Counted, Settled, Working
  <1> QED
    BY <1>3, <1>4, <1>5, <1>6 DEF HInv, Counted

\* A step of r with the key, which keeps it.
LEMMA HolderHInv ==
  ASSUME HInv, NEW r \in Requests, NEW new \in Req, req' = [req EXCEPT ![r] = new],
         req[r].pc \in Working, new.pc \in Working, new.until = req[r].until,
         UNCHANGED <<now, rec>>, effects' \in Nat, faults' \in Nat,
         \/ effects' <= faults'
         \/ effects' <= faults' + 1 /\ new.pc \in {"respond", "finish"} /\ new.outcome # "error"
  PROVE  HInv'
  <1>1. HTypes'
    BY DEF HInv, HTypes
  <1>2. \A s \in Requests : req'[s] = IF s = r THEN new ELSE req[s]
    BY DEF HInv, HTypes
  <1>3. ASSUME NEW s \in Requests PROVE RequestOK(s)'
    BY <1>2 DEF HInv, RequestOK, Busy, Working
  <1>4. OneHolder'
    BY <1>2 DEF HInv, OneHolder, Working
  <1>5. Counted'
    BY <1>2 DEF Counted, Settled
  <1> QED
    BY <1>1, <1>3, <1>4, <1>5 DEF HInv

\* With r at work nobody else is, and what is not its effect is a failure's.
LEMMA HolderFacts ==
  ASSUME HInv, NEW r \in Requests, req[r].pc \in Working
  PROVE  /\ \A s \in Requests : req[s].pc \in Working => s = r
         /\ rec.status = "IN_PROGRESS"
         /\ effects <= faults \/ (effects <= faults + 1 /\ Settled(r))
  <1>1. \A s \in Requests : req[s].pc \in Working => s = r
    BY DEF HInv, OneHolder, Working
  <1>2. rec.status = "IN_PROGRESS"
    BY DEF HInv, RequestOK
  <1> QED
    BY <1>1, <1>2 DEF HInv, Counted, Settled, Working

\* acquire.
LEMMA AcquireHInv ==
  ASSUME HInv, NEW r \in Requests, StartAcquire(r) \/ Insert(r) \/ Select(r) \/ Reclaim(r)
  PROVE  HInv'
  <1> USE IdempotencyAssumption
  <1>0. /\ req \in [Requests -> Req] /\ req[r] \in Req /\ rec \in Row /\ now \in Nat
        /\ NoBody \in Body /\ Fresh \in Req /\ Fresh.pc = "new"
    BY DEF HInv, HTypes, NoBody, Body, Hashes, Fresh, Req, PC, Outcome
  <1>1. ASSUME NEW label \in {"select", "reclaim", "done"}, Goto(r, label), req[r].pc \notin Working,
               Busy(r), UNCHANGED <<now, rec, effects, faults>>
        PROVE  HInv'
    <2> DEFINE new == [req[r] EXCEPT !.pc = label]
    <2>1. new \in Req /\ new.pc = label /\ new.until = req[r].until
      BY <1>0 DEF Req, PC
    <2>2. req' = [req EXCEPT ![r] = new]
      BY <1>1 DEF Goto
    <2>3. now <= req[r].until /\ label \notin Working
      BY <1>1 DEF HInv, RequestOK, Working
    <2> HIDE DEF new
    <2> QED
      BY <1>1, <2>1, <2>2, <2>3, AsideHInv
  <1>2. ASSUME Again(r), req[r].pc \notin Working, UNCHANGED <<now, rec, effects, faults>>
        PROVE  HInv'
    BY <1>0, <1>2, AsideHInv DEF Again, Working
  <1>3. ASSUME req' = [req EXCEPT ![r].pc = "insert", ![r].until = now + Lock],
               req[r].pc \notin Working, UNCHANGED <<now, rec, effects, faults>>
        PROVE  HInv'
    <2> DEFINE until == now + Lock
               new == [req[r] EXCEPT !.pc = "insert", !.until = until]
    <2>1. until \in Nat /\ now <= until
      BY <1>0
    <2>2. req' = [req EXCEPT ![r] = new]
      BY <1>0, <1>3
    <2> HIDE DEF until
    <2>3. new \in Req /\ new.pc = "insert" /\ new.until = until
      BY <1>0, <2>1 DEF Req, PC
    <2> HIDE DEF new
    <2> QED
      BY <1>3, <2>1, <2>2, <2>3, AsideHInv DEF Working
  <1>4. CASE StartAcquire(r)
    BY <1>3, <1>4 DEF StartAcquire, Working
  <1>5. CASE Insert(r)
    <2>1. CASE rec = NoRow
      <3>1. InProgress(r) \in Row /\ InProgress(r).status = "IN_PROGRESS"
            /\ InProgress(r).until = req[r].until
        BY <1>0 DEF InProgress, Row, Req, Hashes
      <3>2. rec.status = "NONE"
        BY <2>1 DEF NoRow
      <3>3. \A s \in Requests : req[s].pc \notin Working
        BY <3>2 DEF HInv, RequestOK
      <3> QED
        BY <1>5, <2>1, <3>1, <3>2, <3>3, TakenHInv DEF Insert, Goto
    <2>2. CASE rec # NoRow
      BY <1>1, <1>5, <2>2 DEF Insert, Working, Busy
    <2> QED
      BY <2>1, <2>2
  <1>6. CASE Select(r)
    <2>1. req[r].pc \notin Working /\ Busy(r) /\ UNCHANGED <<now, rec, effects, faults>>
      BY <1>6 DEF Select, Working, Busy
    <2>2. rec = NoRow <=> rec.status = "NONE"
      BY DEF HInv, NoRow
    <2>3. rec.status \in {"NONE", "IN_PROGRESS", "COMPLETED"}
      BY <1>0 DEF Row
    <2>4. \/ req' = [req EXCEPT ![r].pc = "insert", ![r].until = now + Lock]
          \/ Goto(r, "done") \/ Goto(r, "reclaim") \/ Again(r)
      <3>1. CASE rec = NoRow
        BY <1>6, <2>2, <3>1 DEF Select
      <3>2. CASE rec # NoRow /\ rec.hash # Hash[r]
        BY <1>6, <3>2 DEF Select
      <3>3. CASE rec # NoRow /\ rec.hash = Hash[r]
        BY <1>6, <2>2, <2>3, <3>3 DEF Select
      <3> QED
        BY <3>1, <3>2, <3>3
    <2> QED
      BY <1>1, <1>2, <1>3, <2>1, <2>4
  <1>7. CASE Reclaim(r)
    <2>1. CASE rec.status = "IN_PROGRESS" /\ rec.until < now
      <3> DEFINE new == [rec EXCEPT !.until = req[r].until]
      <3>1. new \in Row /\ new.status = "IN_PROGRESS" /\ new.until = req[r].until
        BY <1>0, <2>1 DEF Row, Req
      <3>2. rec' = new /\ req' = [req EXCEPT ![r].pc = "handle"] /\ req[r].pc = "reclaim"
            /\ UNCHANGED <<now, effects, faults>>
        BY <1>7, <2>1 DEF Reclaim, Goto
      <3>3. \A s \in Requests : req[s].pc \notin Working
        BY <1>0, <2>1 DEF HInv, RequestOK, Busy, Working, Row
      <3> HIDE DEF new
      <3> QED
        BY <2>1, <3>1, <3>2, <3>3, TakenHInv
    <2>2. CASE ~(rec.status = "IN_PROGRESS" /\ rec.until < now)
      BY <1>2, <1>7, <2>2 DEF Reclaim, Working
    <2> QED
      BY <2>1, <2>2
  <1> QED
    BY <1>4, <1>5, <1>6, <1>7

\* The handler and its answer.
LEMMA HandlerHInv ==
  ASSUME HInv, NEW r \in Requests,
         Succeed(r) \/ Reject(r) \/ HandlerFails(r) \/ Respond(r) \/ Finish(r)
  PROVE  HInv'
  <1>0. /\ req \in [Requests -> Req] /\ req[r] \in Req /\ rec \in Row
        /\ effects \in Nat /\ faults \in Nat
        /\ NoBody \in Body /\ Fresh \in Req /\ Fresh.pc = "new"
    BY DEF HInv, HTypes, NoBody, Body, Hashes, Fresh, Req, PC, Outcome
  <1>1. /\ req[r].pc \in Working /\ \A s \in Requests : req[s].pc \in Working => s = r
        /\ rec.status = "IN_PROGRESS" /\ req[r].until \in Nat
        /\ effects <= faults \/ (effects <= faults + 1 /\ Settled(r))
    <2>1. req[r].pc \in Working
      BY DEF Succeed, Reject, HandlerFails, Respond, Finish, Working
    <2> QED
      BY <1>0, <2>1, HolderFacts DEF Req
  <1>2. ASSUME NEW outcome \in Outcome, NEW body \in Body, Handled(r, outcome, body),
               req[r].pc = "handle", UNCHANGED <<now, rec>>, effects' \in Nat, faults' \in Nat,
               effects' <= faults' \/ (effects' <= faults' + 1 /\ outcome # "error")
        PROVE  HInv'
    <2> DEFINE new == [req[r] EXCEPT !.pc = "respond", !.outcome = outcome, !.body = body]
    <2>1. /\ new \in Req /\ new.pc = "respond" /\ new.outcome = outcome
          /\ new.until = req[r].until
      BY <1>0 DEF Req, PC
    <2>2. req' = [req EXCEPT ![r] = new]
      BY <1>0, <1>2 DEF Handled
    <2> HIDE DEF new
    <2> QED
      BY <1>1, <1>2, <2>1, <2>2, HolderHInv DEF Working
  <1>3. ASSUME req[r].pc = "handle" PROVE effects <= faults
    BY <1>1, <1>3 DEF Settled
  <1>4. CASE Succeed(r)
    <2> DEFINE body == [run |-> effects', hash |-> Hash[r]]
    <2>1. effects' = effects + 1 /\ faults' = faults /\ effects' <= faults' + 1 /\ effects' \in Nat
      BY <1>0, <1>3, <1>4 DEF Succeed
    <2>2. body \in Body /\ "ok" \in Outcome
      BY <2>1 DEF Body, Hashes, Outcome
    <2> QED
      BY <1>0, <1>2, <1>4, <2>1, <2>2 DEF Succeed
  <1>5. CASE Reject(r)
    BY <1>0, <1>2, <1>3, <1>5 DEF Reject, Outcome
  <1>6. CASE HandlerFails(r)
    <2>1. effects' \in Nat /\ faults' \in Nat /\ effects' <= faults'
      BY <1>0, <1>3, <1>6 DEF HandlerFails
    <2> QED
      BY <1>0, <1>2, <1>6, <2>1 DEF HandlerFails, Outcome
  <1>7. CASE Respond(r)
    <2> DEFINE new == [req[r] EXCEPT !.pc = "finish"]
    <2>1. /\ new \in Req /\ new.pc = "finish" /\ new.outcome = req[r].outcome
          /\ new.until = req[r].until
      BY <1>0 DEF Req, PC
    <2>2. req' = [req EXCEPT ![r] = new] /\ UNCHANGED <<now, rec, effects, faults>>
      BY <1>7 DEF Respond, Goto
    <2> HIDE DEF new
    <2> QED
      BY <1>0, <1>1, <2>1, <2>2, HolderHInv DEF Working, Settled
  <1>8. CASE Finish(r)
    <2>1. UNCHANGED <<now, effects, faults>> /\ req[r].pc = "finish"
      BY <1>8 DEF Finish
    <2>2. PICK new \in Req : req' = [req EXCEPT ![r] = new] /\ new.pc \in {"new", "done"}
      <3>1. [req[r] EXCEPT !.pc = "done"] \in Req /\ [req[r] EXCEPT !.pc = "done"].pc = "done"
        BY <1>0 DEF Req, PC
      <3> QED
        BY <1>0, <1>8, <3>1 DEF Finish, Leave, Again, Goto
    <2>3. /\ rec' \in Row
          /\ rec'.status = "NONE" => rec' = NoRow
          /\ req[r].outcome # "error" => rec'.status = "COMPLETED"
      <3>1. CASE req[r].outcome = "error"
        <4>1. rec' = NoRow
          BY <1>1, <1>8, <3>1 DEF Finish
        <4> QED
          BY <1>0, <3>1, <4>1 DEF NoRow, Row, Hashes
      <3>2. CASE req[r].outcome # "error"
        <4>1. rec # NoRow
          BY <1>1 DEF NoRow
        <4>2. rec' = [rec EXCEPT !.status = "COMPLETED", !.until = 0, !.body = req[r].body]
          BY <1>8, <3>2, <4>1 DEF Finish
        <4>3. req[r].body \in Body
          BY <1>0 DEF Req
        <4> QED
          BY <1>0, <4>2, <4>3 DEF Row
      <3> QED
        BY <3>1, <3>2
    <2>4. \A s \in Requests : req'[s] = IF s = r THEN new ELSE req[s]
      BY <1>0, <2>2
    <2>5. \A s \in Requests : req'[s].pc \notin Working
      BY <1>1, <2>2, <2>4 DEF Working
    <2>6. HTypes'
      BY <1>0, <2>1, <2>2, <2>3 DEF HInv, HTypes
    <2>7. ASSUME NEW s \in Requests PROVE RequestOK(s)'
      BY <2>1, <2>2, <2>4, <2>5 DEF HInv, RequestOK, Busy
    <2>8. OneHolder'
      BY <2>5 DEF OneHolder, Working
    <2>9. Counted'
      BY <1>1, <2>1, <2>3 DEF Counted, Settled
    <2> QED
      BY <2>3, <2>6, <2>7, <2>8, <2>9 DEF HInv
  <1> QED
    BY <1>4, <1>5, <1>6, <1>7, <1>8

\* A request that is lost, and the clock, which waits for whoever is busy.
LEMMA LoseHInv == ASSUME HInv, NEW r \in Requests, Lose(r) PROVE HInv'
  <1>0. /\ req \in [Requests -> Req] /\ req[r] \in Req
        /\ Fresh \in Req /\ Fresh.pc = "new"
    BY DEF HInv, HTypes, NoBody, Body, Hashes, Fresh, Req, PC, Outcome
  <1>1. [req[r] EXCEPT !.pc = "done"] \in Req /\ [req[r] EXCEPT !.pc = "done"].pc = "done"
    BY <1>0 DEF Req, PC
  <1>2. PICK new \in Req : req' = [req EXCEPT ![r] = new] /\ new.pc \in {"new", "done"}
    BY <1>0, <1>1 DEF Lose, Leave, Again, Goto
  <1> QED
    BY <1>2, AsideHInv DEF Lose, Working

LEMMA TickHInv == ASSUME HInv, Timely, Tick PROVE HInv'
  <1>1. now \in Nat /\ now' = now + 1 /\ UNCHANGED <<rec, req, effects, faults>>
    BY DEF HInv, HTypes, Tick
  <1>2. ASSUME NEW r \in Requests PROVE RequestOK(r)'
    <2>1. Busy(r) => now < req[r].until
      BY DEF Tick
    <2>2. req[r].until \in Nat
      BY DEF HInv, HTypes, Req
    <2> QED
      BY <1>1, <2>1, <2>2 DEF HInv, RequestOK, Busy
  <1> QED
    BY <1>1, <1>2 DEF HInv, HTypes, OneHolder, Counted, Settled

LEMMA NextHInv == ASSUME HInv, Timely, [Next]_vars PROVE HInv'
  <1>1. CASE UNCHANGED vars
    BY <1>1 DEF vars, HInv, HTypes, RequestOK, Busy, OneHolder, Counted, Settled
  <1> QED
    BY <1>1, AcquireHInv, HandlerHInv, LoseHInv, TickHInv DEF Next, Step

\* As long as no server outlives its lock, the key is never with two at a
\* time, and the handler takes effect once and once more for each failure.
THEOREM KeyHeldByOne ==
  ASSUME Timely PROVE Spec => [](OneHolder /\ RepeatedOnlyAfterFailure)
  <1>1. HInv /\ [Next]_vars => HInv'
    BY NextHInv
  <1>2. HInv => OneHolder /\ RepeatedOnlyAfterFailure
    BY DEF HInv, HTypes, Counted, RepeatedOnlyAfterFailure
  <1> QED
    BY InitHInv, <1>1, <1>2, PTL DEF Spec

\* A stored answer is final, and the only one given from then on: with the row
\* COMPLETED nobody is left who works on the key.
THEOREM StoredAnswerIsFinal == ASSUME Timely PROVE Spec => RecordedIsFinal
  <1>1. HInv /\ [Next]_vars => HInv'
    BY NextHInv
  <1>2. ASSUME HInv, [Next]_vars, rec.status = "COMPLETED"
        PROVE  rec' = rec /\ answers' \subseteq answers \cup {rec.body}
    <2>1. \A r \in Requests : req[r].pc \notin Working
      BY <1>2 DEF HInv, RequestOK
    <2>2. rec # NoRow
      BY <1>2 DEF NoRow
    <2>3. ASSUME NEW r \in Requests, Step(r) \/ HandlerFails(r)
          PROVE  StartAcquire(r) \/ Insert(r) \/ Select(r) \/ Reclaim(r)
      BY <2>1, <2>3 DEF Step, HandlerFails, Succeed, Reject, Respond, Finish, Working
    <2>4. ASSUME NEW r \in Requests, StartAcquire(r) \/ Insert(r) \/ Reclaim(r) \/ Lose(r)
          PROVE  rec' = rec /\ answers' = answers
      BY <1>2, <2>2, <2>4 DEF StartAcquire, Insert, Reclaim, Lose
    <2>5. ASSUME NEW r \in Requests, Select(r)
          PROVE  rec' = rec /\ answers' \subseteq answers \cup {rec.body}
      BY <2>5 DEF Select
    <2>6. ASSUME Tick \/ UNCHANGED vars PROVE rec' = rec /\ answers' = answers
      BY <2>6 DEF Tick, vars
    <2> QED
      BY <1>2, <2>3, <2>4, <2>5, <2>6 DEF Next
  <1>3. HInv /\ [Next]_vars =>
          [rec.status = "COMPLETED" => rec' = rec /\ answers' \subseteq answers \cup {rec.body}]_vars
    BY <1>2
  <1> QED
    BY InitHInv, <1>1, <1>3, PTL DEF Spec, RecordedIsFinal

=============================================================================
