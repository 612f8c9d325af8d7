---------------------------- MODULE Idempotency -----------------------------
(***************************************************************************)
(* Idempotent requests: createIdempotencyMiddleware over                   *)
(* PostgresIdempotencyStore, seen through one Idempotency-Key.             *)
(*                                                                         *)
(* Each action is one statement of the store, the handler behind the       *)
(* middleware, or the sending of its answer.  The handler is not part of   *)
(* the component: it may take effect, reject the request (4xx) or fail     *)
(* (5xx, with its effect or without).  A client whose request is refused   *)
(* with 409 or 500, or is lost with its server, sends it again.            *)
(***************************************************************************)
EXTENDS Naturals

CONSTANTS
  Requests,   \* clients that use the key
  Hash,       \* Hash[r] is the fingerprint of the payload of r
  Lock,       \* lockDurationMs
  Timely,     \* TRUE: no server holds the key for longer than Lock
  MaxNow,     \* bound on the clock
  MaxFaults   \* bound on 5xx answers, crashes and failing statements

ASSUME IdempotencyAssumption ==
  Lock \in Nat /\ MaxNow \in Nat /\ MaxFaults \in Nat /\ Timely \in BOOLEAN

VARIABLES
  now,      \* the clock
  rec,      \* the row of idempotency_keys
  req,      \* the requests
  effects,  \* how often the handler has taken effect
  answers,  \* the bodies of the 2xx answers clients have been sent
  faults    \* failures so far

vars == <<now, rec, req, effects, answers, faults>>

PC == {"new", "insert", "select", "reclaim", "handle", "respond", "finish", "done"}
Outcome == {"none", "ok", "rejected", "error"}

\* A body names the execution and the payload that it answers.
NoBody == [run |-> 0, hash |-> 0]
NoRow == [status |-> "NONE", hash |-> 0, until |-> 0, body |-> NoBody]
Fresh == [pc |-> "new", until |-> 0, outcome |-> "none", body |-> NoBody]

Init ==
  /\ now = 1
  /\ rec = NoRow
  /\ req = [r \in Requests |-> Fresh]
  /\ effects = 0
  /\ answers = {}
  /\ faults = 0

\* r has the key, or asks for it.
Busy(r) == req[r].pc \notin {"new", "done"}

Tick ==
  /\ now < MaxNow
  /\ Timely => \A r \in Requests : Busy(r) => now < req[r].until
  /\ now' = now + 1
  /\ UNCHANGED <<rec, req, effects, answers, faults>>

Goto(r, label) == req' = [req EXCEPT ![r].pc = label]
Again(r) == req' = [req EXCEPT ![r] = Fresh]

-----------------------------------------------------------------------------
(* acquire.                                                                *)

\* lockedUntil is computed before the INSERT is sent.
StartAcquire(r) ==
  /\ req[r].pc = "new"
  /\ req' = [req EXCEPT ![r].pc = "insert", ![r].until = now + Lock]
  /\ UNCHANGED <<now, rec, effects, answers, faults>>

InProgress(r) ==
  [status |-> "IN_PROGRESS", hash |-> Hash[r], until |-> req[r].until, body |-> NoBody]

\* Mutant: ON CONFLICT DO UPDATE.
InsertOverwrites(r) ==
  /\ req[r].pc = "insert"
  /\ rec' = InProgress(r)
  /\ Goto(r, "handle")
  /\ UNCHANGED <<now, effects, answers, faults>>

\* INSERT ... ON CONFLICT DO NOTHING.
Insert(r) ==
  /\ req[r].pc = "insert"
  /\ IF rec = NoRow
       THEN rec' = InProgress(r) /\ Goto(r, "handle")
       ELSE UNCHANGED rec /\ Goto(r, "select")
  /\ UNCHANGED <<now, effects, answers, faults>>

\* Mutant: the fingerprint is only compared when an answer is replayed.
SelectIgnoringHash(r) ==
  /\ req[r].pc = "select"
  /\ IF rec = NoRow THEN Goto(r, "insert")
     ELSE IF rec.status = "IN_PROGRESS" /\ rec.until < now THEN Goto(r, "reclaim")
     ELSE Goto(r, "done")
  /\ UNCHANGED <<now, rec, effects, answers, faults>>

\* The row that is read decides: start over, 422, replay, reclaim or 409.
Select(r) ==
  /\ req[r].pc = "select"
  /\ CASE rec = NoRow -> req' = [req EXCEPT ![r].pc = "insert", ![r].until = now + Lock]
       [] rec # NoRow /\ rec.hash # Hash[r] -> Goto(r, "done")
       [] rec.hash = Hash[r] /\ rec.status = "COMPLETED" -> Goto(r, "done")
       [] rec.hash = Hash[r] /\ rec.status = "IN_PROGRESS" ->
            IF rec.until < now THEN Goto(r, "reclaim") ELSE Again(r)
  /\ answers' = IF rec.hash = Hash[r] /\ rec.status = "COMPLETED" /\ rec.body # NoBody
                  THEN answers \cup {rec.body} ELSE answers
  /\ UNCHANGED <<now, rec, effects, faults>>

\* Mutant: the UPDATE does not look at the lock again.
ReclaimUnchecked(r) ==
  /\ req[r].pc = "reclaim"
  /\ rec.status = "IN_PROGRESS"
  /\ rec' = [rec EXCEPT !.until = req[r].until]
  /\ Goto(r, "handle")
  /\ UNCHANGED <<now, effects, answers, faults>>

\* Mutant: an expired lock stays with the server that crashed.
ReclaimNever(r) ==
  /\ req[r].pc = "reclaim"
  /\ Again(r)
  /\ UNCHANGED <<now, rec, effects, answers, faults>>

\* The UPDATE takes over a lock that has run out, whatever its hash is now.
Reclaim(r) ==
  /\ req[r].pc = "reclaim"
  /\ IF rec.status = "IN_PROGRESS" /\ rec.until < now
       THEN rec' = [rec EXCEPT !.until = req[r].until] /\ Goto(r, "handle")
       ELSE UNCHANGED rec /\ Again(r)
  /\ UNCHANGED <<now, effects, answers, faults>>

-----------------------------------------------------------------------------
(* The handler, its answer, and the 'finish' event.                        *)

Handled(r, outcome, body) ==
  req' = [req EXCEPT ![r].pc = "respond", ![r].outcome = outcome, ![r].body = body]

Succeed(r) ==
  /\ req[r].pc = "handle"
  /\ effects' = effects + 1
  /\ Handled(r, "ok", [run |-> effects', hash |-> Hash[r]])
  /\ UNCHANGED <<now, rec, answers, faults>>

Reject(r) ==
  /\ req[r].pc = "handle"
  /\ Handled(r, "rejected", NoBody)
  /\ UNCHANGED <<now, rec, effects, answers, faults>>

HandlerFails(r) ==
  /\ req[r].pc = "handle"
  /\ faults < MaxFaults
  /\ faults' = faults + 1
  /\ effects' \in {effects, effects + 1}
  /\ Handled(r, "error", NoBody)
  /\ UNCHANGED <<now, rec, answers>>

\* The answer leaves before the store hears of it.
Respond(r) ==
  /\ req[r].pc = "respond"
  /\ answers' = IF req[r].outcome = "ok" THEN answers \cup {req[r].body} ELSE answers
  /\ Goto(r, "finish")
  /\ UNCHANGED <<now, rec, effects, faults>>

\* After a 500 the client comes again; any other answer is final.
Leave(r) == IF req[r].outcome = "error" THEN Again(r) ELSE Goto(r, "done")

\* Mutant: fail marks the row, as the comment in the code offers.
FinishMarksFailed(r) ==
  /\ req[r].pc = "finish"
  /\ rec' = [rec EXCEPT !.status = IF req[r].outcome = "error" THEN "FAILED" ELSE "COMPLETED",
                        !.until = 0, !.body = req[r].body]
  /\ Leave(r)
  /\ UNCHANGED <<now, effects, answers, faults>>

\* complete: by key alone; fail: deletes the row of a request in progress.
Finish(r) ==
  /\ req[r].pc = "finish"
  /\ rec' = CASE req[r].outcome = "error" ->
                   IF rec.status = "IN_PROGRESS" THEN NoRow ELSE rec
              [] req[r].outcome # "error" ->
                   IF rec = NoRow THEN rec
                   ELSE [rec EXCEPT !.status = "COMPLETED", !.until = 0, !.body = req[r].body]
  /\ Leave(r)
  /\ UNCHANGED <<now, effects, answers, faults>>

-----------------------------------------------------------------------------
(* Failures.                                                               *)

\* A failing statement of acquire is a 500, one of complete or fail is only
\* logged; a crash loses the request.  An answer already sent stays sent.
Lose(r) ==
  /\ Busy(r)
  /\ faults < MaxFaults
  /\ now + Lock < MaxNow
  /\ faults' = faults + 1
  /\ IF req[r].pc = "finish" THEN Leave(r) ELSE Again(r)
  /\ UNCHANGED <<now, rec, effects, answers>>

Step(r) ==
  \/ StartAcquire(r) \/ Insert(r) \/ Select(r) \/ Reclaim(r)
  \/ Succeed(r) \/ Reject(r) \/ Respond(r) \/ Finish(r)

Next ==
  \/ Tick
  \/ \E r \in Requests : Step(r) \/ HandlerFails(r) \/ Lose(r)

Spec == Init /\ [][Next]_vars

\* Servers answer, clients come again, time passes.
FairSpec == Spec /\ SF_vars(Tick) /\ \A r \in Requests : WF_vars(Step(r))
-----------------------------------------------------------------------------
(* Properties.                                                             *)

\* The row and the requests are well formed.
TypeOK ==
  /\ now \in 1 .. MaxNow
  /\ rec.status \in {"NONE", "IN_PROGRESS", "COMPLETED"}
  /\ rec.until \in 0 .. MaxNow + Lock
  /\ \A r \in Requests :
       /\ req[r].pc \in PC
       /\ req[r].until \in 0 .. MaxNow + Lock
       /\ req[r].outcome \in Outcome
       /\ req[r].body.run \in 0 .. effects
  /\ \A b \in answers : b.run \in 1 .. effects
  /\ faults \in 0 .. MaxFaults

\* A server that works on the key and can still write to it is alone: INSERT
\* (PostgresIdempotencyStore.ts 23-33) and the reclaiming UPDATE (74-84) never
\* give the key to two.  Holds when no server outlives its lock.
OneHolder ==
  \A r, s \in Requests :
    {req[r].pc, req[s].pc} \subseteq {"handle", "respond", "finish"} => r = s

\* The handler takes effect once, and once more only for each failure: a crash,
\* a lost write, a 5xx answer.  No interleaving of retries alone repeats it.
RepeatedOnlyAfterFailure == effects <= 1 + faults

\* The answer that is stored, and that the middleware (62-67) replays, is
\* the answer to the payload whose fingerprint is stored with it (48-51), unless
\* three failures come together: the UPDATE that reclaims a lock (74-84) does not
\* compare the fingerprint again, and the row it finds is another one if the row
\* read before was deleted after a 5xx answer and inserted and abandoned once
\* more, for another payload.
ReplayMatchesPayload ==
  rec.status = "COMPLETED" /\ rec.body # NoBody =>
    rec.body.hash = rec.hash \/ faults >= 3

\* A stored answer is never replaced or deleted, and from then on nobody is
\* given another one: complete (97-106) matches the row by its key alone, fail
\* (111-114) by its status too.
RecordedIsFinal ==
  [][rec.status = "COMPLETED" => rec' = rec /\ answers' \subseteq answers \cup {rec.body}]_vars

\* Every client gets a final answer in the end: a lock whose server is gone
\* runs out and is taken over (71-85).
ClientsServed == <>(\A r \in Requests : req[r].pc = "done")

=============================================================================
