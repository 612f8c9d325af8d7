------------------------------- MODULE Outbox -------------------------------
(***************************************************************************)
(* The transactional outbox: PostgresOutboxRepository and the polling      *)
(* loops of OutboxPublisher, over a broker that may refuse a message.      *)
(*                                                                         *)
(* A publisher is one OutboxPublisher object.  Stopping and starting it    *)
(* can leave it with more than one polling loop, so its loops are the      *)
(* processes: a loop is <<p, i>>.  Each action is one statement, one call  *)
(* of the broker or one timer.                                             *)
(***************************************************************************)
EXTENDS Naturals, Sequences, FiniteSets

CONSTANTS
  Events,      \* domain events
  Publishers,  \* OutboxPublisher objects
  Slots,       \* numbers of the loops of a publisher
  Batch,       \* batchSize of a sweep
  RetryLimit,  \* 5 in recordFailure
  MaxOutages,  \* bound on messages the broker refuses
  MaxFaults,   \* bound on failing statements and crashes
  None         \* no loop

ASSUME OutboxAssumption == RetryLimit \in Nat

Loops == Publishers \X Slots

VARIABLES
  log,      \* the committed events in the order of created_at
  row,      \* outbox_messages: status and retry_count by event
  running,  \* isRunning of each publisher
  timer,    \* the loop whose timer the publisher remembers
  pc,       \* what a loop does next
  batch,    \* the records a loop has fetched and not dealt with
  sent,     \* how often the broker has accepted an event
  outages,  \* messages refused so far
  faults    \* failures so far

vars == <<log, row, running, timer, pc, batch, sent, outages, faults>>

PC == {"off", "sleep", "fetch", "publish", "mark", "fail", "count"}
Status == {"NONE", "PENDING", "PUBLISHED", "FAILED"}

Init ==
  /\ log = << >>
  /\ row = [e \in Events |-> [status |-> "NONE", retries |-> 0]]
  /\ running = [p \in Publishers |-> FALSE]
  /\ timer = [p \in Publishers |-> None]
  /\ pc = [l \in Loops |-> "off"]
  /\ batch = [l \in Loops |-> << >>]
  /\ sent = [e \in Events |-> 0]
  /\ outages = 0
  /\ faults = 0

database == <<log, row>>
control == <<running, timer>>

Goto(l, label) == pc' = [pc EXCEPT ![l] = label]

\* A transaction that inserts the event commits; one that rolls back leaves
\* nothing, and a second insert of an event does nothing.
Commit(e) ==
  /\ row[e].status = "NONE"
  /\ row' = [row EXCEPT ![e].status = "PENDING"]
  /\ log' = Append(log, e)
  /\ UNCHANGED <<control, pc, batch, sent, outages, faults>>

-----------------------------------------------------------------------------
(* start and stop.                                                         *)

Start(p) ==
  /\ ~running[p]
  /\ \E l \in {p} \X Slots :
       /\ pc[l] = "off"
       /\ Goto(l, "sleep")
       /\ timer' = [timer EXCEPT ![p] = l]
  /\ running' = [running EXCEPT ![p] = TRUE]
  /\ UNCHANGED <<database, batch, sent, outages, faults>>

\* clearTimeout stops the loop that set the remembered timer, if it sleeps.
Stop(p) ==
  /\ running[p]
  /\ running' = [running EXCEPT ![p] = FALSE]
  /\ timer' = [timer EXCEPT ![p] = None]
  /\ pc' = [l \in Loops |-> IF l = timer[p] /\ pc[l] = "sleep" THEN "off" ELSE pc[l]]
  /\ UNCHANGED <<database, batch, sent, outages, faults>>

\* The timer of l fires.
Wake(l) ==
  /\ pc[l] = "sleep"
  /\ Goto(l, IF running[l[1]] THEN "fetch" ELSE "off")
  /\ UNCHANGED <<database, control, batch, sent, outages, faults>>

-----------------------------------------------------------------------------
(* publishPending.                                                         *)

Pending == SelectSeq(log, LAMBDA e : row[e].status = "PENDING")

\* Mutant: the sweep forgets to look at the status.
FetchAny(l) ==
  /\ pc[l] = "fetch"
  /\ batch' = [batch EXCEPT ![l] = log]
  /\ Goto(l, IF log = << >> THEN "count" ELSE "publish")
  /\ UNCHANGED <<database, control, sent, outages, faults>>

\* The SELECT ... FOR UPDATE SKIP LOCKED commits by itself: its locks are gone
\* when the loop gets the records.
Fetch(l) ==
  LET records == SubSeq(Pending, 1, IF Len(Pending) < Batch THEN Len(Pending) ELSE Batch)
  IN
  /\ pc[l] = "fetch"
  /\ batch' = [batch EXCEPT ![l] = records]
  /\ Goto(l, IF \E e \in Events : row[e].status = "PENDING" THEN "publish" ELSE "count")
  /\ UNCHANGED <<database, control, sent, outages, faults>>

BrokerAccepts(l) ==
  LET e == Head(batch[l]) IN
  /\ pc[l] = "publish"
  /\ sent' = [sent EXCEPT ![e] = @ + 1]
  /\ Goto(l, "mark")
  /\ UNCHANGED <<database, control, batch, outages, faults>>

\* Mutant: a refused message is taken for a delivered one.
BrokerRefusalIgnored(l) ==
  /\ pc[l] = "publish"
  /\ outages < MaxOutages
  /\ outages' = outages + 1
  /\ Goto(l, "mark")
  /\ UNCHANGED <<database, control, batch, sent, faults>>

BrokerRefuses(l) ==
  /\ pc[l] = "publish"
  /\ outages < MaxOutages
  /\ outages' = outages + 1
  /\ Goto(l, "fail")
  /\ UNCHANGED <<database, control, batch, sent, faults>>

\* On with the next record.
Advance(l) ==
  /\ batch' = [batch EXCEPT ![l] = Tail(@)]
  /\ Goto(l, IF Len(batch[l]) = 1 THEN "count" ELSE "publish")

MarkPublished(l) ==
  /\ pc[l] = "mark"
  /\ row' = [row EXCEPT ![Head(batch[l])].status = "PUBLISHED"]
  /\ Advance(l)
  /\ UNCHANGED <<log, control, sent, outages, faults>>

\* The UPDATE fails, or its acknowledgement is lost: the catch block counts a
\* failure to publish.
MarkFails(l) ==
  /\ pc[l] = "mark"
  /\ faults < MaxFaults
  /\ faults' = faults + 1
  /\ row' \in {row, [row EXCEPT ![Head(batch[l])].status = "PUBLISHED"]}
  /\ Goto(l, "fail")
  /\ UNCHANGED <<log, control, batch, sent, outages>>

\* Mutant: the first failure is final.
RecordFailureGivesUp(l) ==
  LET e == Head(batch[l]) IN
  /\ pc[l] = "fail"
  /\ row' = [row EXCEPT ![e] = [status |-> "FAILED", retries |-> @.retries + 1]]
  /\ Advance(l)
  /\ UNCHANGED <<log, control, sent, outages, faults>>

\* Mutant: a record that will be retried gets a status no query knows.
RecordFailureAsRetrying(l) ==
  LET e == Head(batch[l]) IN
  /\ pc[l] = "fail"
  /\ row' = [row EXCEPT ![e] = [status |-> "RETRYING", retries |-> @.retries + 1]]
  /\ Advance(l)
  /\ UNCHANGED <<log, control, sent, outages, faults>>

RecordFailure(l) ==
  LET e == Head(batch[l]) IN
  /\ pc[l] = "fail"
  /\ row' = [row EXCEPT ![e] =
       [status  |-> IF @.retries >= RetryLimit THEN "FAILED" ELSE "PENDING",
        retries |-> @.retries + 1]]
  /\ Advance(l)
  /\ UNCHANGED <<log, control, sent, outages, faults>>

\* poll goes to sleep again, unless the publisher has been stopped meanwhile.
Repeat(l) ==
  LET p == l[1] IN
  /\ Goto(l, IF running[p] THEN "sleep" ELSE "off")
  /\ timer' = [timer EXCEPT ![p] = IF running[p] THEN l ELSE @]
  /\ batch' = [batch EXCEPT ![l] = << >>]
  /\ UNCHANGED running

\* countPending ends the sweep.
CountPending(l) ==
  /\ pc[l] = "count"
  /\ Repeat(l)
  /\ UNCHANGED <<database, sent, outages, faults>>

\* Mutant: without the catch in poll the loop ends, and isRunning stays TRUE.
SweepFailsForGood(l) ==
  /\ pc[l] \in {"fetch", "fail", "count"}
  /\ faults < MaxFaults
  /\ faults' = faults + 1
  /\ Goto(l, "off")
  /\ batch' = [batch EXCEPT ![l] = << >>]
  /\ UNCHANGED <<database, control, sent, outages>>

\* A query outside the try of the loop body throws: poll drops the batch.
SweepFails(l) ==
  /\ pc[l] \in {"fetch", "fail", "count"}
  /\ faults < MaxFaults
  /\ faults' = faults + 1
  /\ Repeat(l)
  /\ UNCHANGED <<database, sent, outages>>

\* The process ends; the database and the broker stay.
Crash(p) ==
  /\ running[p]
  /\ faults < MaxFaults
  /\ faults' = faults + 1
  /\ running' = [running EXCEPT ![p] = FALSE]
  /\ timer' = [timer EXCEPT ![p] = None]
  /\ pc' = [l \in Loops |-> IF l[1] = p THEN "off" ELSE pc[l]]
  /\ batch' = [l \in Loops |-> IF l[1] = p THEN << >> ELSE batch[l]]
  /\ UNCHANGED <<database, sent, outages>>

-----------------------------------------------------------------------------
Poll(l) ==
  \/ Wake(l) \/ Fetch(l) \/ BrokerAccepts(l) \/ MarkPublished(l)
  \/ RecordFailure(l) \/ CountPending(l)

Next ==
  \/ \E e \in Events : Commit(e)
  \/ \E p \in Publishers : Start(p) \/ Stop(p) \/ Crash(p)
  \/ \E l \in Loops : Poll(l) \/ BrokerRefuses(l) \/ MarkFails(l) \/ SweepFails(l)

Spec == Init /\ [][Next]_vars

\* A publisher that is down is started again, and nobody keeps stopping it
\* before the loop gets on: SF, as Stop may disable Wake.
FairSpec ==
  /\ Spec
  /\ \A l \in Loops : SF_vars(Poll(l))
  /\ \A p \in Publishers : SF_vars(Start(p))

-----------------------------------------------------------------------------
(* Properties.                                                             *)

\* The table and the loops are well formed.
TypeOK ==
  /\ log \in Seq(Events)
  /\ row \in [Events -> [status : Status, retries : Nat]]
  /\ running \in [Publishers -> BOOLEAN]
  /\ timer \in [Publishers -> Loops \cup {None}]
  /\ pc \in [Loops -> PC]
  /\ \A l \in Loops : batch[l] \in Seq(Events) /\ Len(batch[l]) <= Batch
  /\ sent \in [Events -> Nat]

\* A row says PUBLISHED only if the broker has the event (OutboxPublisher.ts
\* 33-36), through crashes, refusals and lost acknowledgements.
PublishedWasSent == \A e \in Events : row[e].status = "PUBLISHED" => sent[e] > 0

\* A polling loop repeats an event only after a failure, or when another loop
\* was refused and has set PUBLISHED back to PENDING (recordFailure, 112-121):
\* loops that share the table do not feed each other repetitions.  One loop
\* alone sends an event once and once more for each failure at most.
RepeatedOnlyAfterFailure ==
  LET n == Cardinality(Loops) IN
  \A e \in Events : sent[e] <= n * (1 + faults) + (n - 1) * outages

\* An event the broker never got is still waiting or has used up its retries:
\* neither a crash nor a dropped batch takes it away before.
UnsentIsPending ==
  \A e \in Events : row[e].status # "NONE" /\ sent[e] = 0 =>
    row[e].status = "PENDING" \/ row[e].retries > RetryLimit

\* Every committed event reaches the broker, as long as the broker does not
\* refuse it more often than recordFailure (115) tolerates, although publishers
\* crash, are stopped and started, and fail halfway through a sweep.
EventuallySent == \A e \in Events : row[e].status = "PENDING" ~> sent[e] > 0

=============================================================================
