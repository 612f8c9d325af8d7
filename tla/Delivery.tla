------------------------------ MODULE Delivery ------------------------------
(***************************************************************************)
(* An event on its way from the transaction that raises it to the side     *)
(* effect of its consumer: Outbox and Inbox joined by                      *)
(* InMemoryMessageBroker.                                                  *)
(*                                                                         *)
(* The broker lives in the process of the publisher: publish only queues a *)
(* call of the handler (setImmediate) and returns.  A message that the     *)
(* broker accepts is a delivery of Inbox, and what a process has queued or *)
(* under way ends with the process.  Operators work elsewhere.             *)
(***************************************************************************)
EXTENDS Inbox

CONSTANTS
  Event,       \* the event
  Publishers,  \* OutboxPublisher objects, each in its process
  Slots,       \* numbers of the polling loops of a publisher
  RetryLimit,  \* 5 in recordFailure
  MaxOutages   \* bound on messages the broker refuses

ASSUME DeliveryAssumption == None \notin Publishers

VARIABLES
  log, row, running, timer, loop, batch, sent, outages,  \* those of Outbox
  home      \* the process in which a delivery is handled, None before it is

O == INSTANCE Outbox WITH Events <- {Event}, Batch <- 1, pc <- loop

outbox == <<log, row, running, timer, loop, batch, sent, outages>>
consumer == <<inbox, writer, effects, dead, pc, attempt, target>>
all == <<outbox, home, consumer, faults>>

DInit ==
  /\ Init
  /\ O!Init
  /\ home = [d \in Deliveries |-> None]

-----------------------------------------------------------------------------
\* publish: the handler is to be called.
Publish(l, d) ==
  /\ O!BrokerAccepts(l)
  /\ home[d] = None
  /\ home' = [home EXCEPT ![d] = l[1]]
  /\ UNCHANGED consumer

\* The other steps of the publishers.
Poll(l) ==
  /\ O!Wake(l) \/ O!Fetch(l) \/ O!MarkPublished(l) \/ O!RecordFailure(l) \/ O!CountPending(l)
  /\ UNCHANGED <<home, consumer>>

Control ==
  /\ \/ O!Commit(Event)
     \/ \E p \in Publishers : O!Start(p) \/ O!Stop(p)
     \/ \E l \in O!Loops : O!BrokerRefuses(l) \/ O!MarkFails(l) \/ O!SweepFails(l)
  /\ UNCHANGED <<home, consumer>>

\* The steps of the consumer and of the operators.
Consume(w) ==
  /\ Step(w)
  /\ w \in Deliveries => home[w] # None
  /\ UNCHANGED <<outbox, home>>

Trouble ==
  /\ \/ \E w \in Workers : Failure(w)
     \/ \E w \in Operators, d \in Deliveries : Replay(w, d)
     \/ \E d \in Deliveries : Discard(d)
  /\ UNCHANGED <<outbox, home>>

\* The deliveries that end with process p.
In(p) == {d \in Deliveries : home[d] = p /\ pc[d] \notin {"done", "lost"}}

\* The process ends: the database rolls its transactions back.
Crash(p) ==
  /\ O!Crash(p)
  /\ pc' = [w \in Workers |-> IF w \in In(p) THEN "lost" ELSE pc[w]]
  /\ writer' = IF writer \in In(p) THEN None ELSE writer
  /\ UNCHANGED <<home, inbox, effects, dead, attempt, target>>

DNext ==
  \/ \E l \in O!Loops : Poll(l) \/ \E d \in Deliveries : Publish(l, d)
  \/ Control
  \/ \E w \in Workers : Consume(w)
  \/ Trouble
  \/ \E p \in Publishers : Crash(p)

DSpec == DInit /\ [][DNext]_all

\* Loops and publishers go on as in Outbox, and a worker that can go on does.
\* Nobody has to replay a dead letter.
DFairSpec ==
  /\ DSpec
  /\ \A l \in O!Loops : SF_all(Poll(l) \/ \E d \in Deliveries : Publish(l, d))
  /\ \A p \in Publishers : SF_all(O!Start(p) /\ UNCHANGED <<home, consumer>>)
  /\ \A w \in Workers : WF_all(Consume(w))

-----------------------------------------------------------------------------
(* Properties.                                                             *)

Promise == INSTANCE EffectOnce WITH committed <- row[Event].status # "NONE"

\* From end to end the side effect takes place once at most, and only for an
\* event that was committed, however often loops, crashes and lost
\* acknowledgements repeat the event (OutboxPublisher.ts 28-44,
\* MessageBroker.ts 22-46, IdempotentConsumer.ts 38-91).
KeepsPromise == Promise!Spec

\* The event is processed, a dead letter or FAILED in the outbox at last; or a
\* delivery was lost on the way, which takes a process that crashes after
\* publish has returned or a dead letter that cannot be written.
NotLostInSilence ==
  row[Event].status # "NONE" ~>
    \/ inbox = "COMPLETED" \/ row[Event].status = "FAILED"
    \/ \E d \in Deliveries : dead[d] # "NONE" \/ pc[d] = "lost"

\* A delivery that was started comes to its end: none waits for ever on the
\* inbox row of another one, and the retries of consume (163-207) are bounded.
StartedEnd == \A d \in Deliveries : home[d] # None ~> pc[d] \in {"done", "lost"}
=============================================================================
