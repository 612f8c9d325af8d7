-------------------------------- MODULE Inbox -------------------------------
(***************************************************************************)
(* Delivery of one event to one consumer: InMemoryMessageBroker hands it   *)
(* to ResilientMessageConsumer.consume, whose action is                    *)
(* IdempotentConsumer.processTransactional; operators replay or discard    *)
(* dead letters.  The inbox is keyed by event and consumer, so different   *)
(* events and consumers do not meet.                                       *)
(*                                                                         *)
(* A worker is a delivery of the event, or an operator's replay.  Each     *)
(* action is one SQL statement or the business side effect, which is part  *)
(* of the transaction and may fail in any of the three ways consume tells  *)
(* apart.                                                                  *)
(***************************************************************************)
EXTENDS Naturals

CONSTANTS
  Deliveries,  \* deliveries of the event: the broker may repeat it
  Operators,   \* operators who replay dead letters
  MaxAttempts, \* maxAttempts of the consumer
  MaxFaults,   \* bound on failing side effects and statements
  None         \* no worker, no dead letter

Workers == Deliveries \cup Operators

ASSUME InboxAssumption ==
  /\ Deliveries \cap Operators = {} /\ None \notin Workers
  /\ MaxAttempts \in Nat \ {0} /\ MaxFaults \in Nat

VARIABLES
  inbox,    \* committed status of the row of inbox_messages
  writer,   \* the transaction that has inserted the row and not ended
  effects,  \* how often the side effect has been committed
  dead,     \* dead_letter_messages: status by the delivery diverted
  pc,       \* the statement a worker executes next
  attempt,  \* attempt of consume
  target,   \* the dead letter an operator replays
  faults    \* failures so far

vars == <<inbox, writer, effects, dead, pc, attempt, target, faults>>

PC == {"new", "select", "insert", "effect", "commit", "replayed", "divert",
       "done", "lost"}
Dead == {"NONE", "DEAD", "REPLAYED", "DISCARDED"}

Init ==
  /\ inbox = "NONE"
  /\ writer = None
  /\ effects = 0
  /\ dead = [d \in Deliveries |-> "NONE"]
  /\ pc = [w \in Workers |-> "new"]
  /\ attempt = [w \in Workers |-> 0]
  /\ target = [o \in Operators |-> None]
  /\ faults = 0

tables == <<inbox, effects, dead>>

Goto(w, label) == pc' = [pc EXCEPT ![w] = label]
Fault == faults < MaxFaults /\ faults' = faults + 1

-----------------------------------------------------------------------------
(* How a worker starts.                                                    *)

Deliver(w) ==
  /\ w \in Deliveries
  /\ pc[w] = "new"
  /\ attempt' = [attempt EXCEPT ![w] = 1]
  /\ Goto(w, "select")
  /\ UNCHANGED <<tables, writer, target, faults>>

\* Mutant: the dead letter is marked when the replay begins.
MarkReplayedFirst(w, d) ==
  /\ w \in Operators
  /\ pc[w] = "new"
  /\ dead[d] # "NONE"
  /\ dead' = [dead EXCEPT ![d] = "REPLAYED"]
  /\ target' = [target EXCEPT ![w] = d]
  /\ Goto(w, "select")
  /\ UNCHANGED <<inbox, writer, effects, attempt, faults>>

\* replay looks the dead letter up by its id, whatever its status.
Replay(w, d) ==
  /\ w \in Operators
  /\ pc[w] = "new"
  /\ dead[d] # "NONE"
  /\ target' = [target EXCEPT ![w] = d]
  /\ Goto(w, "select")
  /\ UNCHANGED <<tables, writer, attempt, faults>>

Discard(d) ==
  /\ dead[d] # "NONE"
  /\ dead' = [dead EXCEPT ![d] = "DISCARDED"]
  /\ UNCHANGED <<inbox, writer, effects, pc, attempt, target, faults>>

-----------------------------------------------------------------------------
(* How the action ends: back in consume, or in replay.                     *)

Succeeds(w) == Goto(w, IF w \in Operators THEN "replayed" ELSE "done")

\* Mutant: an event whose attempts are used up is dropped.
ThrowsSilently(w, transient) ==
  /\ Goto(w, IF w \in Operators THEN "new" ELSE "done")
  /\ UNCHANGED attempt

\* The catch block of consume: retry a transient error while attempts remain,
\* divert the event otherwise.  replay only reports the error.
Throws(w, transient) ==
  LET again == transient /\ attempt[w] < MaxAttempts IN
  IF w \in Operators
    THEN Goto(w, "new") /\ UNCHANGED attempt
    ELSE /\ Goto(w, IF again THEN "select" ELSE "divert")
         /\ attempt' = [attempt EXCEPT ![w] = IF again THEN @ + 1 ELSE @]

-----------------------------------------------------------------------------
(* processTransactional.                                                   *)

\* SELECT ... FOR UPDATE sees, and locks, committed rows only.
Select(w) ==
  /\ pc[w] = "select"
  /\ IF inbox = "COMPLETED" THEN Succeeds(w) ELSE Goto(w, "insert")
  /\ UNCHANGED <<tables, writer, attempt, target, faults>>

\* Mutant: the table has no primary key.
InsertAnyway(w) ==
  /\ pc[w] = "insert"
  /\ writer' = w
  /\ Goto(w, "effect")
  /\ UNCHANGED <<tables, attempt, target, faults>>

\* The INSERT waits for an uncommitted row with the same key.  If that row was
\* committed the INSERT violates the primary key, which is no error that
\* isTransientError knows.
Insert(w) ==
  /\ pc[w] = "insert"
  /\ writer = None
  /\ IF inbox = "NONE"
       THEN writer' = w /\ Goto(w, "effect") /\ UNCHANGED attempt
       ELSE Throws(w, FALSE) /\ UNCHANGED writer
  /\ UNCHANGED <<tables, target, faults>>

SideEffect(w) ==
  /\ pc[w] = "effect"
  /\ Goto(w, "commit")
  /\ UNCHANGED <<tables, writer, attempt, target, faults>>

\* Mutant: the connection is released without ROLLBACK.
TransactionFailsOpen(w, transient) ==
  /\ pc[w] \in {"select", "insert", "effect"}
  /\ Fault
  /\ Throws(w, transient)
  /\ UNCHANGED <<tables, writer, target>>

\* A statement or the side effect throws: ROLLBACK, then the error, which is
\* transient, or is not (poison or unknown).
TransactionFails(w, transient) ==
  /\ pc[w] \in {"select", "insert", "effect"}
  /\ Fault
  /\ writer' = IF writer = w THEN None ELSE writer
  /\ Throws(w, transient)
  /\ UNCHANGED <<tables, target>>

\* The UPDATE to COMPLETED and COMMIT, with the side effect.
Commit(w) ==
  /\ pc[w] = "commit"
  /\ inbox' = "COMPLETED"
  /\ effects' = effects + 1
  /\ writer' = None
  /\ Succeeds(w)
  /\ UNCHANGED <<dead, attempt, target, faults>>

\* COMMIT is refused, or done with its acknowledgement lost.
CommitFails(w, transient, done) ==
  /\ pc[w] = "commit"
  /\ Fault
  /\ writer' = None
  /\ inbox' = IF done THEN "COMPLETED" ELSE inbox
  /\ effects' = IF done THEN effects + 1 ELSE effects
  /\ Throws(w, transient)
  /\ UNCHANGED <<dead, target>>

-----------------------------------------------------------------------------
(* Dead letters.                                                           *)

MoveToDeadLetter(w) ==
  /\ pc[w] = "divert"
  /\ dead' = [dead EXCEPT ![w] = "DEAD"]
  /\ Goto(w, "done")
  /\ UNCHANGED <<inbox, writer, effects, attempt, target, faults>>

\* The INSERT of the dead letter fails: consume throws, and the broker drops
\* the error.
DiversionFails(w) ==
  /\ pc[w] = "divert"
  /\ Fault
  /\ Goto(w, "lost")
  /\ UNCHANGED <<tables, writer, attempt, target>>

MarkReplayed(w) ==
  /\ pc[w] = "replayed"
  /\ dead' = [dead EXCEPT ![target[w]] = "REPLAYED"]
  /\ Goto(w, "new")
  /\ UNCHANGED <<inbox, writer, effects, attempt, target, faults>>

\* replay reports a failing UPDATE as a failed replay.
MarkReplayedFails(w) ==
  /\ pc[w] = "replayed"
  /\ Fault
  /\ Goto(w, "new")
  /\ UNCHANGED <<tables, writer, attempt, target>>

-----------------------------------------------------------------------------
Step(w) ==
  \/ Deliver(w) \/ Select(w) \/ Insert(w) \/ SideEffect(w) \/ Commit(w)
  \/ MoveToDeadLetter(w) \/ MarkReplayed(w)

Failure(w) ==
  \/ \E t \in BOOLEAN : TransactionFails(w, t)
  \/ \E t, done \in BOOLEAN : CommitFails(w, t, done)
  \/ DiversionFails(w) \/ MarkReplayedFails(w)

Next ==
  \/ \E w \in Workers : Step(w) \/ Failure(w)
  \/ \E w \in Operators, d \in Deliveries : Replay(w, d)
  \/ \E d \in Deliveries : Discard(d)

Spec == Init /\ [][Next]_vars

-----------------------------------------------------------------------------
(* Properties.                                                             *)

\* The tables and the workers are well formed.
TypeOK ==
  /\ inbox \in {"NONE", "COMPLETED"}
  /\ writer \in Workers \cup {None}
  /\ dead \in [Deliveries -> Dead]
  /\ pc \in [Workers -> PC]
  /\ attempt \in [Workers -> 0 .. MaxAttempts]
  /\ target \in [Operators -> Deliveries \cup {None}]

\* However often the event is delivered, retried and replayed, and whatever
\* fails, its side effect is committed once, with the inbox row and never
\* without it (IdempotentConsumer.ts 38-91).
EffectivelyOnce == effects = IF inbox = "COMPLETED" THEN 1 ELSE 0

\* A dead letter that says REPLAYED is an event that has been processed
\* (DeadLetterQueue.ts 222-224), though operators replay side by side, and
\* replay what was replayed or discarded before.
ReplayedWasProcessed ==
  \A d \in Deliveries : dead[d] = "REPLAYED" => inbox = "COMPLETED"

\* consume returns only when the event is processed or in the dead letter
\* queue (163-207).
ReturnedIsSettled ==
  \A d \in Deliveries : pc[d] = "done" => inbox = "COMPLETED" \/ dead[d] # "NONE"

-----------------------------------------------------------------------------
(* What the comments say and the code does not do.                         *)

\* IdempotentConsumer.ts 32: a duplicate is skipped; nothing that has not
\* failed is a dead letter.
HealthyIsNotDead == faults = 0 => \A d \in Deliveries : dead[d] = "NONE"
=============================================================================
