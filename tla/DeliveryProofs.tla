--------------------------- MODULE DeliveryProofs ---------------------------
(***************************************************************************)
(* The safety properties of Inbox and of Delivery, for any numbers of      *)
(* publishers, deliveries, operators, attempts and failures.               *)
(*                                                                         *)
(* EffectivelyOnce is not inductive: it does not say who may commit.  The  *)
(* strengthening ties the workers inside a transaction to the uncommitted  *)
(* row of the inbox, of which there is one, and none once a row is         *)
(* committed; the primary key is what keeps it so.                         *)
(***************************************************************************)
EXTENDS Delivery, Sequences, TLAPS

\* The worker has inserted the row of the inbox.
Inside(w) == pc[w] \in {"effect", "commit"}

WorkerOK(w) ==
  /\ Inside(w) <=> writer = w
  /\ w \in Deliveries => pc[w] # "replayed"
  /\ w \in Operators =>
       /\ pc[w] \notin {"divert", "done", "lost"}
       /\ pc[w] # "new" => target[w] \in Deliveries
       /\ pc[w] = "replayed" => inbox = "COMPLETED"

IInv ==
  /\ TypeOK
  /\ EffectivelyOnce
  /\ writer # None => inbox = "NONE"
  /\ \A w \in Workers : WorkerOK(w)
  /\ ReplayedWasProcessed
  /\ ReturnedIsSettled

LEMMA InitIInv == Init => IInv
  <1> SUFFICES ASSUME Init PROVE IInv
    OBVIOUS
  <1> USE InboxAssumption DEF Init
  <1>1. TypeOK
    BY DEF TypeOK, PC, Dead
  <1>2. EffectivelyOnce /\ ReplayedWasProcessed /\ ReturnedIsSettled
    BY DEF EffectivelyOnce, ReplayedWasProcessed, ReturnedIsSettled, Workers
  <1>3. \A w \in Workers : WorkerOK(w)
    BY DEF WorkerOK, Inside
  <1> QED
    BY <1>1, <1>2, <1>3 DEF IInv

\* A step of worker w that keeps the tables, and ends w's part in the
\* transaction or leaves it as it was.
LEMMA WorkerMove ==
  ASSUME IInv, NEW w \in Workers, NEW label \in PC, pc' = [pc EXCEPT ![w] = label],
         UNCHANGED <<tables, target>>, attempt' \in [Workers -> 0 .. MaxAttempts],
         label \in {"effect", "commit"} <=> writer' = w,
         writer' = writer \/ (writer \in {w, None} /\ writer' \in {w, None}),
         writer' # None => inbox = "NONE",
         w \in Deliveries => label # "replayed",
         w \in Deliveries /\ label = "done" => inbox = "COMPLETED",
         w \in Operators =>
           /\ label \notin {"divert", "done", "lost"}
           /\ label # "new" => target[w] \in Deliveries
           /\ label = "replayed" => inbox = "COMPLETED"
  PROVE  IInv'
  <1> USE InboxAssumption DEF IInv, tables
  <1>1. TypeOK'
    BY DEF TypeOK
  <1>2. ASSUME NEW v \in Workers PROVE WorkerOK(v)'
    BY <1>2 DEF WorkerOK, Inside, TypeOK
  <1>3. EffectivelyOnce' /\ ReplayedWasProcessed'
    BY DEF EffectivelyOnce, ReplayedWasProcessed
  <1>4. ReturnedIsSettled'
    BY DEF ReturnedIsSettled, TypeOK, Workers
  <1> QED
    BY <1>1, <1>2, <1>3, <1>4

\* How consume and replay take an error leads to one of these labels.
LEMMA ThrowsMove ==
  ASSUME TypeOK, NEW w \in Workers, NEW t \in BOOLEAN, Throws(w, t)
  PROVE  /\ attempt' \in [Workers -> 0 .. MaxAttempts]
         /\ \E label \in {"new", "select", "divert"} :
              /\ pc' = [pc EXCEPT ![w] = label]
              /\ w \in Operators => label = "new"
  <1>1. CASE w \in Operators
    BY <1>1, Zenon DEF Throws, Goto, TypeOK
  <1>2. CASE w \notin Operators
    <2> DEFINE again == t /\ attempt[w] < MaxAttempts
    <2>1. attempt' = [attempt EXCEPT ![w] = IF again THEN attempt[w] + 1 ELSE attempt[w]]
      BY <1>2 DEF Throws
    <2>2. attempt[w] \in 0 .. MaxAttempts /\ (again => attempt[w] < MaxAttempts)
      BY DEF TypeOK
    <2>3. (IF again THEN attempt[w] + 1 ELSE attempt[w]) \in 0 .. MaxAttempts
      BY <2>2, InboxAssumption
    <2>4. attempt' \in [Workers -> 0 .. MaxAttempts]
      BY <2>1, <2>3, Zenon DEF TypeOK
    <2>5. pc' = [pc EXCEPT ![w] = IF again THEN "select" ELSE "divert"]
      BY <1>2 DEF Throws, Goto
    <2> HIDE DEF again
    <2> QED
      BY <1>2, <2>4, <2>5, Zenon
  <1> QED
    BY <1>1, <1>2

\* The transaction of w ends without having committed anything.
LEMMA AbortIInv ==
  ASSUME IInv, NEW w \in Workers, NEW t \in BOOLEAN, Throws(w, t),
         pc[w] \in {"select", "insert", "effect", "commit"},
         UNCHANGED <<tables, target>>, writer' = IF writer = w THEN None ELSE writer
  PROVE  IInv'
  <1>1. PICK label \in {"new", "select", "divert"} :
          pc' = [pc EXCEPT ![w] = label] /\ (w \in Operators => label = "new")
    BY ThrowsMove DEF IInv
  <1>2. attempt' \in [Workers -> 0 .. MaxAttempts]
    BY ThrowsMove DEF IInv
  <1>3. writer' # w /\ (writer' = writer \/ (writer = w /\ writer' = None))
    BY InboxAssumption
  <1>4. (writer' # None => inbox = "NONE") /\ label \in PC
    BY <1>3 DEF IInv, PC
  <1> QED
    BY <1>1, <1>2, <1>3, <1>4, WorkerMove, InboxAssumption DEF Workers

\* COMMIT: w is the one worker inside, so that the side effect is the first.
LEMMA CommittedIInv ==
  ASSUME IInv, NEW w \in Workers, pc[w] = "commit", inbox' = "COMPLETED",
         effects' = effects + 1, writer' = None, UNCHANGED <<dead, target>>,
         attempt' \in [Workers -> 0 .. MaxAttempts],
         NEW label \in {"new", "select", "divert", "replayed", "done"},
         pc' = [pc EXCEPT ![w] = label],
         w \in Operators => label \in {"new", "replayed"},
         w \in Deliveries => label # "replayed"
  PROVE  IInv'
  <1> USE InboxAssumption DEF IInv
  <1>1. writer = w /\ inbox = "NONE" /\ effects = 0
    BY DEF WorkerOK, Inside, EffectivelyOnce
  <1>2. TypeOK'
    BY DEF TypeOK, PC
  <1>3. ASSUME NEW v \in Workers PROVE WorkerOK(v)'
    BY <1>1, <1>3 DEF WorkerOK, Inside, TypeOK, Workers
  <1>4. EffectivelyOnce' /\ ReplayedWasProcessed' /\ ReturnedIsSettled'
    BY <1>1 DEF EffectivelyOnce, ReplayedWasProcessed, ReturnedIsSettled
  <1> QED
    BY <1>2, <1>3, <1>4

\* The steps of a worker inside consume, replay and processTransactional.
LEMMA StepIInv == ASSUME IInv, NEW w \in Workers, Step(w) PROVE IInv'
  <1> USE InboxAssumption
  <1>0. TypeOK /\ WorkerOK(w) /\ attempt \in [Workers -> 0 .. MaxAttempts]
    BY SMTT(30) DEF IInv, TypeOK
  <1>1. CASE Deliver(w)
    <2>1. attempt' \in [Workers -> 0 .. MaxAttempts]
      BY <1>0, <1>1, SMTT(30) DEF Deliver
    <2> QED
      BY <1>0, <1>1, <2>1, WorkerMove DEF Deliver, Goto, WorkerOK, Inside, PC, tables, IInv
  <1>2. CASE Select(w)
    <2>1. PICK label \in {"replayed", "done", "insert"} :
            /\ pc' = [pc EXCEPT ![w] = label]
            /\ label \in {"replayed", "done"} => inbox = "COMPLETED"
            /\ label = "replayed" => w \in Operators
            /\ label = "done" => w \notin Operators
      BY <1>2 DEF Select, Succeeds, Goto
    <2> QED
      BY <1>0, <1>2, <2>1, WorkerMove DEF Select, WorkerOK, Inside, PC, tables, IInv, Workers
  <1>3. CASE Insert(w)
    <2>1. CASE inbox = "NONE"
      BY <1>0, <1>3, <2>1, WorkerMove DEF Insert, Goto, WorkerOK, Inside, PC, tables, IInv
    <2>2. CASE inbox # "NONE"
      BY <1>3, <2>2, AbortIInv DEF Insert, tables, Workers
    <2> QED
      BY <2>1, <2>2
  <1>4. CASE SideEffect(w)
    BY <1>0, <1>4, WorkerMove DEF SideEffect, Goto, WorkerOK, Inside, PC, tables, IInv
  <1>5. CASE Commit(w)
    BY <1>0, <1>5, CommittedIInv DEF Commit, Succeeds, Goto, Workers
  <1>6. CASE MoveToDeadLetter(w)
    <2> USE DEF IInv
    <2>1. w \in Deliveries /\ writer # w /\ dead' = [dead EXCEPT ![w] = "DEAD"]
          /\ pc' = [pc EXCEPT ![w] = "done"]
          /\ UNCHANGED <<inbox, writer, effects, attempt, target>>
      BY <1>0, <1>6 DEF MoveToDeadLetter, WorkerOK, Inside, Goto, Workers
    <2>2. TypeOK'
      BY <2>1 DEF TypeOK, PC, Dead
    <2>3. ASSUME NEW v \in Workers PROVE WorkerOK(v)'
      BY <2>1, <2>3 DEF WorkerOK, Inside, TypeOK
    <2>4. EffectivelyOnce' /\ ReplayedWasProcessed' /\ ReturnedIsSettled'
      BY <2>1 DEF EffectivelyOnce, ReplayedWasProcessed, ReturnedIsSettled, TypeOK, Workers
    <2> QED
      BY <2>1, <2>2, <2>3, <2>4
  <1>7. CASE MarkReplayed(w)
    <2> USE DEF IInv
    <2>1. /\ w \in Operators /\ target[w] \in Deliveries /\ inbox = "COMPLETED"
          /\ writer # w /\ dead' = [dead EXCEPT ![target[w]] = "REPLAYED"]
          /\ pc' = [pc EXCEPT ![w] = "new"]
          /\ UNCHANGED <<inbox, writer, effects, attempt, target>>
      BY <1>0, <1>7 DEF MarkReplayed, WorkerOK, Inside, Goto, Workers
    <2>2. TypeOK'
      BY <2>1 DEF TypeOK, PC, Dead
    <2>3. ASSUME NEW v \in Workers PROVE WorkerOK(v)'
      BY <2>1, <2>3 DEF WorkerOK, Inside, TypeOK
    <2>4. EffectivelyOnce' /\ ReplayedWasProcessed' /\ ReturnedIsSettled'
      BY <2>1 DEF EffectivelyOnce, ReplayedWasProcessed, ReturnedIsSettled
    <2> QED
      BY <2>1, <2>2, <2>3, <2>4
  <1> QED
    BY <1>1, <1>2, <1>3, <1>4, <1>5, <1>6, <1>7 DEF Step

LEMMA FailureIInv == ASSUME IInv, NEW w \in Workers, Failure(w) PROVE IInv'
  <1> USE InboxAssumption
  <1>0. WorkerOK(w) /\ attempt \in [Workers -> 0 .. MaxAttempts]
    BY DEF IInv, TypeOK
  <1>1. ASSUME NEW t \in BOOLEAN, TransactionFails(w, t) PROVE IInv'
    BY <1>1, AbortIInv DEF TransactionFails, tables
  <1>2. ASSUME NEW t \in BOOLEAN, NEW done \in BOOLEAN, CommitFails(w, t, done) PROVE IInv'
    <2>1. writer = w
      BY <1>0, <1>2 DEF CommitFails, WorkerOK, Inside
    <2>2. CASE done
      <3>1. PICK label \in {"new", "select", "divert"} :
              pc' = [pc EXCEPT ![w] = label] /\ (w \in Operators => label = "new")
        BY <1>2, ThrowsMove DEF IInv, CommitFails
      <3>2. attempt' \in [Workers -> 0 .. MaxAttempts]
        BY <1>2, ThrowsMove DEF IInv, CommitFails
      <3> QED
        BY <1>2, <2>2, <3>1, <3>2, CommittedIInv DEF CommitFails
    <2>3. CASE ~done
      BY <1>2, <2>1, <2>3, AbortIInv DEF CommitFails, tables
    <2> QED
      BY <2>2, <2>3
  <1>3. CASE DiversionFails(w)
    BY <1>0, <1>3, WorkerMove, ZenonT(40)
       DEF DiversionFails, Goto, WorkerOK, Inside, PC, tables, IInv
  <1>4. CASE MarkReplayedFails(w)
    BY <1>0, <1>4, WorkerMove DEF MarkReplayedFails, Goto, WorkerOK, Inside, PC, tables, IInv, Workers
  <1> QED
    BY <1>1, <1>2, <1>3, <1>4 DEF Failure

LEMMA OperatorIInv ==
  ASSUME IInv, NEW d \in Deliveries, Discard(d) \/ \E w \in Operators : Replay(w, d)
  PROVE  IInv'
  <1> USE InboxAssumption DEF IInv
  <1>1. CASE Discard(d)
    <2>1. TypeOK'
      BY <1>1 DEF Discard, TypeOK, Dead
    <2>2. ASSUME NEW v \in Workers PROVE WorkerOK(v)'
      BY <1>1, <2>2 DEF Discard, WorkerOK, Inside
    <2>3. EffectivelyOnce' /\ ReplayedWasProcessed' /\ ReturnedIsSettled'
      BY <1>1 DEF Discard, EffectivelyOnce, ReplayedWasProcessed, ReturnedIsSettled, TypeOK
    <2> QED
      BY <1>1, <2>1, <2>2, <2>3 DEF Discard
  <1>2. ASSUME NEW w \in Operators, Replay(w, d) PROVE IInv'
    <2>1. /\ w \in Workers /\ w \notin Deliveries /\ pc[w] = "new" /\ writer # w
          /\ pc' = [pc EXCEPT ![w] = "select"] /\ target' = [target EXCEPT ![w] = d]
          /\ UNCHANGED <<inbox, effects, dead, writer, attempt>>
      BY <1>2 DEF Replay, Goto, tables, WorkerOK, Inside, Workers
    <2>2. TypeOK'
      BY <2>1 DEF TypeOK, PC
    <2>3. ASSUME NEW v \in Workers PROVE WorkerOK(v)'
      BY <2>1, <2>3 DEF WorkerOK, Inside, TypeOK
    <2>4. EffectivelyOnce' /\ ReplayedWasProcessed' /\ ReturnedIsSettled'
      BY <2>1 DEF EffectivelyOnce, ReplayedWasProcessed, ReturnedIsSettled, TypeOK, Workers
    <2> QED
      BY <2>1, <2>2, <2>3, <2>4
  <1> QED
    BY <1>1, <1>2

LEMMA StutterIInv == IInv /\ UNCHANGED vars => IInv'
  BY DEF IInv, vars, TypeOK, EffectivelyOnce, WorkerOK, Inside, ReplayedWasProcessed,
     ReturnedIsSettled

LEMMA Invariance == Spec => []IInv
  <1>1. IInv /\ [Next]_vars => IInv'
    BY StepIInv, FailureIInv, OperatorIInv, StutterIInv DEF Next
  <1> QED
    BY InitIInv, <1>1, PTL DEF Spec

\* However the event is delivered: the tables stay well formed, the side effect
\* is committed once, REPLAYED is said of processed events only, and consume
\* returns with the event processed or in the dead letter queue.
THEOREM InboxCorrect ==
  Spec => [](TypeOK /\ EffectivelyOnce /\ ReplayedWasProcessed /\ ReturnedIsSettled)
  <1>1. IInv => TypeOK /\ EffectivelyOnce /\ ReplayedWasProcessed /\ ReturnedIsSettled
    BY DEF IInv
  <1> QED
    BY Invariance, <1>1, PTL

-----------------------------------------------------------------------------
(* The composition.                                                        *)

Committed == row[Event].status # "NONE"

\* A loop has something to publish, a delivery somebody to handle it and a
\* worker something to do only when the event has been committed.
DInv ==
  /\ IInv
  /\ row \in [{Event} -> [status : O!Status, retries : Nat]]
  /\ loop \in [O!Loops -> O!PC]
  /\ home \in [Deliveries -> Publishers \cup {None}]
  /\ \A l \in O!Loops : loop[l] \in {"publish", "mark", "fail"} => Committed
  /\ \A d \in Deliveries : home[d] # None => Committed
  /\ \A d \in Deliveries : dead[d] # "NONE" \/ pc[d] # "new" => Committed
  /\ \A o \in Operators : pc[o] # "new" => Committed

LEMMA DInitDInv == DInit => DInv
  <1> SUFFICES ASSUME DInit PROVE DInv
    OBVIOUS
  <1>1. IInv
    BY InitIInv DEF DInit
  <1>2. /\ row \in [{Event} -> [status : O!Status, retries : Nat]]
        /\ loop \in [O!Loops -> O!PC] /\ \A l \in O!Loops : loop[l] = "off"
    BY DEF DInit, O!Init, O!Status, O!PC
  <1> QED
    BY <1>1, <1>2 DEF DInv, DInit, Init, Workers

\* A step of the publishers, which keeps the consumer.
LEMMA PublisherDInv ==
  ASSUME DInv, UNCHANGED <<consumer, home>>,
         row' \in [{Event} -> [status : O!Status, retries : Nat]],
         loop' \in [O!Loops -> O!PC], Committed => Committed',
         \A l \in O!Loops : loop'[l] \in {"publish", "mark", "fail"} => Committed'
  PROVE  DInv'
  <1>1. IInv'
    BY DEF DInv, consumer, IInv, TypeOK, EffectivelyOnce, WorkerOK, Inside,
       ReplayedWasProcessed, ReturnedIsSettled
  <1> QED
    BY <1>1 DEF DInv, consumer, Committed

\* The event is committed, or stays as it was.
LEMMA RowMove ==
  ASSUME DInv, NEW new \in [status : O!Status, retries : Nat], NEW e,
         row' = [row EXCEPT ![e] = new], new.status # "NONE"
  PROVE  /\ row' \in [{Event} -> [status : O!Status, retries : Nat]]
         /\ Committed => Committed'
         /\ e = Event => Committed'
  BY DEF DInv, Committed

\* The steps of a polling loop.
LEMMA LoopDInv ==
  ASSUME DInv, NEW l \in O!Loops, UNCHANGED <<home, consumer>>,
         \/ O!Wake(l) \/ O!Fetch(l) \/ O!MarkPublished(l) \/ O!RecordFailure(l)
         \/ O!CountPending(l) \/ O!BrokerRefuses(l) \/ O!MarkFails(l) \/ O!SweepFails(l)
  PROVE  DInv' /\ Committed' = Committed
  <1> USE DEF O!Goto, O!PC
  <1>0. loop \in [O!Loops -> O!PC] /\ row \in [{Event} -> [status : O!Status, retries : Nat]]
    BY DEF DInv
  <1>1. ASSUME NEW label \in O!PC, loop' = [loop EXCEPT ![l] = label], row' = row,
               label \in {"publish", "mark", "fail"} => Committed
        PROVE  DInv' /\ Committed' = Committed
    <2>1. Committed' = Committed
      BY <1>1 DEF Committed
    <2>2. loop' \in [O!Loops -> O!PC] /\
          \A m \in O!Loops : loop'[m] \in {"publish", "mark", "fail"} => Committed'
      BY <1>0, <1>1, <2>1 DEF DInv
    <2> QED
      BY <1>0, <1>1, <2>1, <2>2, PublisherDInv
  <1>2. ASSUME NEW label \in O!PC, loop' = [loop EXCEPT ![l] = label], Committed,
               NEW new \in [status : O!Status, retries : Nat], NEW e,
               row' = [row EXCEPT ![e] = new], new.status # "NONE"
        PROVE  DInv' /\ Committed' = Committed
    <2>1. Committed' /\ row' \in [{Event} -> [status : O!Status, retries : Nat]]
      BY <1>2, RowMove
    <2>2. loop' \in [O!Loops -> O!PC]
      BY <1>0, <1>2
    <2>3. DInv'
      BY <2>1, <2>2, PublisherDInv
    <2> QED
      BY <1>2, <2>1, <2>3 DEF Committed
  <1>3. CASE O!Wake(l)
    BY <1>1, <1>3 DEF O!Wake, O!database
  <1>4. CASE O!Fetch(l)
    BY <1>1, <1>4 DEF O!Fetch, O!database, Committed
  <1>5. CASE O!BrokerRefuses(l)
    BY <1>1, <1>5 DEF O!BrokerRefuses, O!database, DInv
  <1>6. CASE O!CountPending(l) \/ O!SweepFails(l)
    BY <1>1, <1>6 DEF O!CountPending, O!SweepFails, O!Repeat, O!database
  <1>7. CASE O!MarkPublished(l) \/ O!MarkFails(l)
    <2> DEFINE e == Head(batch[l])
               new == [row[e] EXCEPT !.status = "PUBLISHED"]
    <2>1. Committed
      BY <1>7 DEF O!MarkPublished, O!MarkFails, DInv
    <2>2. PICK label \in {"count", "publish", "fail"} : loop' = [loop EXCEPT ![l] = label]
      BY <1>7 DEF O!MarkPublished, O!MarkFails, O!Advance
    <2>3. CASE row' = row
      BY <1>1, <2>1, <2>2, <2>3
    <2>4. CASE row' # row
      <3>1. row' = [row EXCEPT ![e] = new]
        BY <1>7, <2>4 DEF O!MarkPublished, O!MarkFails
      <3>2. e = Event
        BY <1>0, <2>4, <3>1
      <3>3. new \in [status : O!Status, retries : Nat] /\ new.status # "NONE"
        BY <1>0, <3>2 DEF O!Status
      <3> HIDE DEF new
      <3> QED
        BY <1>2, <2>1, <2>2, <3>1, <3>3
    <2> QED
      BY <2>3, <2>4
  <1>8. CASE O!RecordFailure(l)
    <2> DEFINE e == Head(batch[l])
               new == [status  |-> IF row[e].retries >= RetryLimit THEN "FAILED" ELSE "PENDING",
                       retries |-> row[e].retries + 1]
    <2>1. Committed
      BY <1>8 DEF O!RecordFailure, DInv
    <2>2. PICK label \in {"count", "publish"} : loop' = [loop EXCEPT ![l] = label]
      BY <1>8 DEF O!RecordFailure, O!Advance
    <2>3. row' = [row EXCEPT ![e] = new]
      BY <1>8 DEF O!RecordFailure
    <2>4. CASE e # Event
      <3>1. row' = row
        BY <1>0, <2>3, <2>4
      <3> QED
        BY <1>1, <2>1, <2>2, <3>1
    <2>5. CASE e = Event
      <3>1. new \in [status : O!Status, retries : Nat] /\ new.status # "NONE"
        BY <1>0, <2>5 DEF O!Status
      <3> HIDE DEF new
      <3> QED
        BY <1>2, <2>1, <2>2, <2>3, <3>1
    <2> QED
      BY <2>4, <2>5
  <1> QED
    BY <1>3, <1>4, <1>5, <1>6, <1>7, <1>8

\* Starting and stopping a publisher, and committing the event.
LEMMA ControlDInv ==
  ASSUME DInv, UNCHANGED <<home, consumer>>,
         O!Commit(Event) \/ \E p \in Publishers : O!Start(p) \/ O!Stop(p)
  PROVE  DInv' /\ (Committed' = Committed \/ (~Committed /\ Committed'))
  <1> USE DEF O!Goto, O!PC
  <1>0. loop \in [O!Loops -> O!PC] /\ row \in [{Event} -> [status : O!Status, retries : Nat]]
    BY DEF DInv
  <1>1. CASE O!Commit(Event)
    <2> DEFINE new == [row[Event] EXCEPT !.status = "PENDING"]
    <2>1. row' = [row EXCEPT ![Event] = new] /\ loop' = loop /\ ~Committed
      BY <1>1 DEF O!Commit, Committed
    <2>2. new \in [status : O!Status, retries : Nat] /\ new.status # "NONE"
      BY <1>0 DEF O!Status
    <2> HIDE DEF new
    <2>3. Committed' /\ row' \in [{Event} -> [status : O!Status, retries : Nat]]
      BY <2>1, <2>2, RowMove
    <2> QED
      BY <1>0, <2>1, <2>3, PublisherDInv
  <1>2. ASSUME NEW p \in Publishers, O!Start(p) \/ O!Stop(p)
        PROVE  DInv' /\ Committed' = Committed
    <2>1. row' = row
      BY <1>2 DEF O!Start, O!Stop, O!database
    <2>2. /\ loop' \in [O!Loops -> O!PC]
          /\ \A l \in O!Loops : loop'[l] = loop[l] \/ loop'[l] \in {"sleep", "off"}
      BY <1>0, <1>2 DEF O!Start, O!Stop
    <2>3. Committed' = Committed
      BY <2>1 DEF Committed
    <2>4. \A l \in O!Loops : loop'[l] \in {"publish", "mark", "fail"} => Committed'
      BY <2>2, <2>3, SMTT(30) DEF DInv
    <2> QED
      BY <1>0, <2>1, <2>2, <2>3, <2>4, PublisherDInv
  <1> QED
    BY <1>1, <1>2

\* publish starts a delivery of the event, which is committed.
LEMMA PublishDInv ==
  ASSUME DInv, NEW l \in O!Loops, NEW d \in Deliveries, Publish(l, d)
  PROVE  DInv' /\ Committed' = Committed /\ effects' = effects
  <1>0. loop \in [O!Loops -> O!PC] /\ Committed
    BY DEF DInv, Publish, O!BrokerAccepts
  <1>1. /\ row' = row /\ UNCHANGED consumer
        /\ loop' = [loop EXCEPT ![l] = "mark"] /\ home' = [home EXCEPT ![d] = l[1]]
    BY DEF Publish, O!BrokerAccepts, O!Goto, O!database
  <1>2. Committed'
    BY <1>0, <1>1 DEF Committed
  <1>3. IInv'
    BY <1>1 DEF DInv, consumer, IInv, TypeOK, EffectivelyOnce, WorkerOK, Inside,
       ReplayedWasProcessed, ReturnedIsSettled
  <1>4. l[1] \in Publishers
    BY DEF O!Loops
  <1>5. loop' \in [O!Loops -> O!PC] /\ home' \in [Deliveries -> Publishers \cup {None}]
    BY <1>0, <1>1, <1>4 DEF DInv, O!PC
  <1> QED
    BY <1>0, <1>1, <1>2, <1>3, <1>5, SMTT(30) DEF DInv, consumer

\* What the consumer and the operators do, they do for a committed event.
LEMMA ConsumerDInv ==
  ASSUME DInv, UNCHANGED <<outbox, home>>, IInv', Committed
  PROVE  DInv' /\ Committed'
  BY DEF DInv, outbox, Committed

\* The process of publisher p ends, with what it has under way.
LEMMA CrashDInv ==
  ASSUME DInv, NEW p \in Publishers, Crash(p)
  PROVE  DInv' /\ Committed' = Committed /\ effects' = effects
  <1> USE InboxAssumption, DeliveryAssumption
  <1>0. loop \in [O!Loops -> O!PC] /\ row' = row /\ home' = home /\ TypeOK /\ IInv
    BY SMTT(30) DEF DInv, Crash, O!Crash, O!database, IInv
  <1>1. /\ loop' \in [O!Loops -> O!PC]
        /\ \A l \in O!Loops : loop'[l] = loop[l] \/ loop'[l] = "off"
    BY <1>0 DEF Crash, O!Crash, O!PC
  <1>2. Committed' = Committed
    BY <1>0 DEF Committed
  <1>3. \A w \in Workers :
          \/ pc'[w] = pc[w] /\ w \notin In(p)
          \/ pc'[w] = "lost" /\ w \in In(p) /\ w \in Deliveries /\ home[w] = p
    BY DEF Crash, In
  <1>4. /\ pc' \in [Workers -> PC]
        /\ UNCHANGED <<inbox, effects, dead, attempt, target>>
        /\ writer' = IF writer \in In(p) THEN None ELSE writer
    BY <1>0 DEF Crash, TypeOK, PC
  <1>5. TypeOK'
    BY <1>0, <1>4 DEF TypeOK
  <1>6. ASSUME NEW w \in Workers PROVE WorkerOK(w)'
    BY <1>0, <1>3, <1>4, <1>6 DEF IInv, WorkerOK, Inside, In
  <1>7. EffectivelyOnce' /\ ReplayedWasProcessed'
    BY <1>0, <1>4 DEF IInv, EffectivelyOnce, ReplayedWasProcessed
  <1>8. ReturnedIsSettled'
    BY <1>0, <1>3, <1>4 DEF IInv, ReturnedIsSettled, Workers
  <1>9. IInv'
    BY <1>0, <1>4, <1>5, <1>6, <1>7, <1>8 DEF IInv
  <1>10. \A w \in Workers : pc'[w] # "new" => pc[w] # "new" \/ (w \in Deliveries /\ home[w] # None)
    BY <1>3 DEF In
  <1> QED
    BY <1>0, <1>1, <1>2, <1>4, <1>9, <1>10, SMTT(30) DEF DInv, Workers

\* A step of the consumer or of an operator; a side effect is committed by a
\* worker inside a transaction, when none has been before.
LEMMA WorkDInv ==
  ASSUME DInv, UNCHANGED <<outbox, home>>,
         \/ \E w \in Workers : Step(w) /\ (w \in Deliveries => home[w] # None)
         \/ \E w \in Workers : Failure(w)
         \/ \E w \in Operators, d \in Deliveries : Replay(w, d)
         \/ \E d \in Deliveries : Discard(d)
  PROVE  /\ DInv' /\ Committed /\ Committed'
         /\ effects' = effects \/ (effects = 0 /\ effects' = 1)
  <1> USE InboxAssumption
  <1>0. IInv
    BY DEF DInv
  <1>1. IInv'
    BY <1>0, StepIInv, FailureIInv, OperatorIInv, SMTT(30)
  <1>2. ASSUME NEW w \in Workers, Step(w), w \in Deliveries => home[w] # None PROVE Committed
    BY <1>2, ZenonT(40)
       DEF DInv, Workers, Step, Deliver, Select, Insert, SideEffect, Commit,
       MoveToDeadLetter, MarkReplayed
  <1>3. ASSUME NEW w \in Workers, Failure(w) PROVE Committed
    BY <1>3 DEF DInv, Workers, Failure, TransactionFails, CommitFails, DiversionFails,
       MarkReplayedFails
  <1>4. ASSUME NEW d \in Deliveries, Discard(d) \/ \E w \in Operators : Replay(w, d)
        PROVE  Committed
    BY <1>4 DEF DInv, Discard, Replay
  <1>5. Committed
    BY <1>2, <1>3, <1>4, SMTT(30)
  <1>6. effects' = effects \/ effects' = effects + 1
    BY DEF Step, Deliver, Select, Insert, SideEffect, Commit, MoveToDeadLetter, MarkReplayed,
       Failure, TransactionFails, CommitFails, DiversionFails, MarkReplayedFails, Replay,
       Discard, tables
  <1>7. effects' = effects \/ (effects = 0 /\ effects' = 1)
    BY <1>0, <1>1, <1>6 DEF IInv, EffectivelyOnce
  <1> QED
    BY <1>1, <1>5, <1>7, ConsumerDInv

\* A step changes at most one of the two things the promise is about.
PromiseStep ==
  \/ Committed' = Committed /\ effects' = effects
  \/ ~Committed /\ Committed' /\ effects' = effects
  \/ Committed /\ Committed' /\ effects = 0 /\ effects' = 1

LEMMA StepDInv == ASSUME DInv, [DNext]_all PROVE DInv' /\ PromiseStep
  <1>1. ASSUME NEW l \in O!Loops, Poll(l) PROVE DInv' /\ PromiseStep
    BY <1>1, LoopDInv DEF Poll, PromiseStep, consumer
  <1>2. ASSUME NEW l \in O!Loops, NEW d \in Deliveries, Publish(l, d)
        PROVE  DInv' /\ PromiseStep
    BY <1>2, PublishDInv DEF PromiseStep
  <1>3. CASE Control
    BY <1>3, LoopDInv, ControlDInv DEF Control, PromiseStep, consumer
  <1>4. CASE Trouble \/ \E w \in Workers : Consume(w)
    BY <1>4, WorkDInv DEF Trouble, Consume, PromiseStep
  <1>5. ASSUME NEW p \in Publishers, Crash(p) PROVE DInv' /\ PromiseStep
    BY <1>5, CrashDInv DEF PromiseStep
  <1>6. CASE UNCHANGED all
    <2>1. UNCHANGED <<row, loop, home, consumer>>
      BY <1>6 DEF all, outbox
    <2>2. Committed' = Committed
      BY <2>1 DEF Committed
    <2>3. DInv'
      BY <2>1, <2>2, PublisherDInv DEF DInv
    <2> QED
      BY <2>1, <2>2, <2>3 DEF PromiseStep, consumer
  <1> QED
    BY <1>1, <1>2, <1>3, <1>4, <1>5, <1>6 DEF DNext

LEMMA DInvariance == DSpec => []DInv
  <1>1. DInv /\ [DNext]_all => DInv'
    BY StepDInv
  <1> QED
    BY DInitDInv, <1>1, PTL DEF DSpec

\* What the consumer promises it keeps behind the publishers and the broker
\* too, which repeat the event and crash with deliveries under way.
THEOREM DeliveryCorrect ==
  DSpec => [](TypeOK /\ EffectivelyOnce /\ ReplayedWasProcessed /\ ReturnedIsSettled)
  <1>1. DInv => TypeOK /\ EffectivelyOnce /\ ReplayedWasProcessed /\ ReturnedIsSettled
    BY DEF DInv, IInv
  <1> QED
    BY DInvariance, <1>1, PTL

\* The way from the transaction through outbox, broker and inbox implements
\* "once, and only what was committed": every step of the parts is a step of
\* EffectOnce or leaves both its variables alone.
THEOREM DeliveryKeepsPromise == DSpec => KeepsPromise
  <1>1. DInit => Promise!Init
    BY DEF DInit, Init, O!Init, Promise!Init
  <1>2. PromiseStep => [Promise!Commit \/ Promise!Apply]_(Promise!vars)
    BY DEF PromiseStep, Committed, Promise!Commit, Promise!Apply, Promise!vars
  <1>3. DInv /\ [DNext]_all => [Promise!Commit \/ Promise!Apply]_(Promise!vars)
    BY <1>2, StepDInv
  <1> QED
    BY <1>1, <1>3, DInvariance, PTL DEF DSpec, KeepsPromise, Promise!Spec

=============================================================================
