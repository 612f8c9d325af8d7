---------------------------- MODULE OutboxProofs ----------------------------
(***************************************************************************)
(* What a row of the outbox says about its event, for any numbers of       *)
(* events, publishers and loops, any batch size and retry limit, and any   *)
(* number of refusals, failing statements and crashes.                     *)
(*                                                                         *)
(* PublishedWasSent is not inductive: MarkPublished writes PUBLISHED       *)
(* without looking.  OInv adds that a loop about to mark a record has sent *)
(* it, which holds although other loops deal with the same record.         *)
(***************************************************************************)
EXTENDS Outbox, TLAPS

Row == [status : Status, retries : Nat]

\* A loop that is about to mark a record has sent it.
Marks(l) == pc[l] = "mark" /\ Head(batch[l]) \in Events => sent[Head(batch[l])] > 0

RowOK(e) ==
  /\ row[e].status = "PUBLISHED" => sent[e] > 0
  /\ row[e].status = "FAILED" => row[e].retries > RetryLimit

OInv ==
  /\ row \in [Events -> Row]
  /\ pc \in [Loops -> PC]
  /\ sent \in [Events -> Nat]
  /\ DOMAIN batch = Loops
  /\ \A l \in Loops : Marks(l)
  /\ \A e \in Events : RowOK(e)

LEMMA InitOInv == Init => OInv
  BY DEF Init, OInv, Row, Status, PC, Marks, RowOK

\* A step of the loops that writes no row, and after which nobody is about to
\* mark a record who was not before.
LEMMA LoopOInv ==
  ASSUME OInv, UNCHANGED <<row, sent>>, pc' \in [Loops -> PC], DOMAIN batch' = Loops,
         \A l \in Loops : pc'[l] = "mark" => pc[l] = "mark" /\ batch'[l] = batch[l]
  PROVE  OInv'
  BY DEF OInv, Marks, RowOK

\* A step of loop l that writes the row of a record.
LEMMA RowOInv ==
  ASSUME OInv, NEW l \in Loops, NEW e, NEW new, row' = [row EXCEPT ![e] = new],
         e \in Events => /\ new \in Row
                         /\ new.status = "PUBLISHED" => sent[e] > 0
                         /\ new.status = "FAILED" => new.retries > RetryLimit,
         UNCHANGED sent, pc' \in [Loops -> PC], DOMAIN batch' = Loops,
         \A m \in Loops : pc'[m] = "mark" => pc[m] = "mark" /\ batch'[m] = batch[m]
  PROVE  OInv'
  <1>1. row' \in [Events -> Row]
    BY DEF OInv
  <1>2. ASSUME NEW f \in Events PROVE RowOK(f)'
    BY DEF OInv, RowOK
  <1>3. ASSUME NEW m \in Loops PROVE Marks(m)'
    BY DEF OInv, Marks
  <1> QED
    BY <1>1, <1>2, <1>3 DEF OInv

\* Where a loop goes when it does not go to mark.
LEMMA LoopMove ==
  ASSUME OInv, NEW l \in Loops, NEW label \in PC \ {"mark"}, NEW rest,
         pc' = [pc EXCEPT ![l] = label], batch' = [batch EXCEPT ![l] = rest] \/ batch' = batch
  PROVE  /\ pc' \in [Loops -> PC] /\ DOMAIN batch' = Loops
         /\ \A m \in Loops : pc'[m] = "mark" => pc[m] = "mark" /\ batch'[m] = batch[m]
  BY DEF OInv

LEMMA StepOInv == ASSUME OInv, [Next]_vars PROVE OInv'
  <1> USE DEF Goto, PC
  <1>0. pc \in [Loops -> PC] /\ row \in [Events -> Row] /\ DOMAIN batch = Loops
    BY DEF OInv
  <1>1. ASSUME NEW e \in Events, Commit(e) PROVE OInv'
    <2> DEFINE new == [row[e] EXCEPT !.status = "PENDING"]
    <2>1. new \in Row /\ new.status = "PENDING"
      BY <1>0 DEF Row, Status
    <2>2. row' = [row EXCEPT ![e] = new] /\ UNCHANGED <<pc, batch, sent>>
      BY <1>1 DEF Commit
    <2> HIDE DEF new
    <2>3. row' \in [Events -> Row]
      BY <1>0, <2>1, <2>2
    <2>4. ASSUME NEW f \in Events PROVE RowOK(f)'
      BY <1>0, <2>1, <2>2 DEF OInv, RowOK
    <2> QED
      BY <2>2, <2>3, <2>4 DEF OInv, Marks
  <1>2. ASSUME NEW p \in Publishers, Start(p) \/ Stop(p) \/ Crash(p) PROVE OInv'
    <2>1. /\ pc' \in [Loops -> PC] /\ DOMAIN batch' = Loops /\ UNCHANGED <<row, sent>>
          /\ \A l \in Loops : pc'[l] = "mark" => pc[l] = "mark" /\ batch'[l] = batch[l]
      BY <1>0, <1>2 DEF Start, Stop, Crash, database
    <2> QED
      BY <2>1, LoopOInv
  <1>3. ASSUME NEW l \in Loops, Wake(l) \/ Fetch(l) \/ CountPending(l) \/ BrokerRefuses(l) \/ SweepFails(l)
        PROVE  OInv'
    <2>1. /\ UNCHANGED <<row, sent>>
          /\ \E label \in PC \ {"mark"} : pc' = [pc EXCEPT ![l] = label]
          /\ batch' = batch \/ \E rest : batch' = [batch EXCEPT ![l] = rest]
      BY <1>3 DEF Wake, Fetch, CountPending, BrokerRefuses, SweepFails, Repeat, database
    <2> QED
      BY <2>1, LoopMove, LoopOInv
  <1>4. ASSUME NEW l \in Loops, BrokerAccepts(l) PROVE OInv'
    <2> DEFINE e == Head(batch[l])
    <2>1. /\ sent' = [sent EXCEPT ![e] = @ + 1] /\ pc' = [pc EXCEPT ![l] = "mark"]
          /\ UNCHANGED <<row, batch>>
      BY <1>4 DEF BrokerAccepts, database
    <2> HIDE DEF e
    <2>2. sent' \in [Events -> Nat] /\ \A f \in Events : sent'[f] >= sent[f]
      <3>1. sent \in [Events -> Nat]
        BY DEF OInv
      <3>2. \A f \in Events : sent[f] \in Nat /\ sent'[f] = IF f = e THEN sent[f] + 1 ELSE sent[f]
        BY <2>1, <3>1
      <3>3. sent' = [f \in Events |-> sent'[f]]
        BY <2>1, <3>1
      <3>4. \A f \in Events : sent'[f] \in Nat /\ sent'[f] >= sent[f]
        BY <3>2
      <3> QED
        BY <3>3, <3>4
    <2>3. ASSUME e \in Events PROVE sent'[e] > 0
      <3>1. sent[e] \in Nat /\ sent'[e] = sent[e] + 1
        BY <2>1, <2>3 DEF OInv
      <3> QED
        BY <3>1
    <2>4. ASSUME NEW m \in Loops PROVE Marks(m)'
      <3>1. CASE m = l
        BY <2>1, <2>3, <3>1 DEF Marks, e
      <3>2. CASE m # l
        BY <1>0, <2>1, <2>2, <3>2 DEF OInv, Marks
      <3> QED
        BY <3>1, <3>2
    <2>5. ASSUME NEW f \in Events PROVE RowOK(f)'
      BY <2>1, <2>2 DEF OInv, RowOK
    <2> QED
      BY <1>0, <2>1, <2>2, <2>4, <2>5 DEF OInv
  <1>5. ASSUME NEW l \in Loops, MarkPublished(l) \/ MarkFails(l) PROVE OInv'
    <2> DEFINE e == Head(batch[l])
               new == [row[e] EXCEPT !.status = "PUBLISHED"]
    <2>1. e \in Events => new \in Row /\ new.status = "PUBLISHED" /\ sent[e] > 0
      BY <1>0, <1>5 DEF Row, Status, OInv, Marks, MarkPublished, MarkFails
    <2>2. /\ sent' = sent
          /\ \E label \in PC \ {"mark"} : pc' = [pc EXCEPT ![l] = label]
          /\ batch' = batch \/ \E rest : batch' = [batch EXCEPT ![l] = rest]
          /\ row' = row \/ row' = [row EXCEPT ![e] = new]
      BY <1>5 DEF MarkPublished, MarkFails, Advance
    <2> HIDE DEF e, new
    <2>3. /\ pc' \in [Loops -> PC] /\ DOMAIN batch' = Loops
          /\ \A m \in Loops : pc'[m] = "mark" => pc[m] = "mark" /\ batch'[m] = batch[m]
      BY <2>2, LoopMove
    <2>4. CASE row' = row
      BY <2>2, <2>3, <2>4, LoopOInv
    <2>5. CASE row' = [row EXCEPT ![e] = new]
      BY <2>1, <2>2, <2>3, <2>5, RowOInv
    <2> QED
      BY <2>2, <2>4, <2>5
  <1>6. ASSUME NEW l \in Loops, RecordFailure(l) PROVE OInv'
    <2> DEFINE e == Head(batch[l])
               new == [status  |-> IF row[e].retries >= RetryLimit THEN "FAILED" ELSE "PENDING",
                       retries |-> row[e].retries + 1]
    <2>1. e \in Events => /\ new \in Row /\ new.status # "PUBLISHED"
                          /\ new.status = "FAILED" => new.retries > RetryLimit
      BY <1>0, OutboxAssumption DEF Row, Status
    <2>2. /\ sent' = sent
          /\ \E label \in PC \ {"mark"} : pc' = [pc EXCEPT ![l] = label]
          /\ \E rest : batch' = [batch EXCEPT ![l] = rest]
          /\ row' = [row EXCEPT ![e] = new]
      BY <1>6 DEF RecordFailure, Advance
    <2> HIDE DEF e, new
    <2>3. /\ pc' \in [Loops -> PC] /\ DOMAIN batch' = Loops
          /\ \A m \in Loops : pc'[m] = "mark" => pc[m] = "mark" /\ batch'[m] = batch[m]
      BY <2>2, LoopMove
    <2> QED
      BY <2>1, <2>2, <2>3, RowOInv
  <1>7. CASE UNCHANGED vars
    BY <1>7 DEF vars, OInv, Marks, RowOK
  <1> QED
    BY <1>1, <1>2, <1>3, <1>4, <1>5, <1>6, <1>7 DEF Next, Poll

LEMMA Invariance == Spec => []OInv
  <1>1. OInv /\ [Next]_vars => OInv'
    BY StepOInv
  <1> QED
    BY InitOInv, <1>1, PTL DEF Spec

\* A row that says PUBLISHED is the row of an event the broker has accepted
\* (OutboxPublisher.ts 33-36), however many loops share the table.
THEOREM PublishedIsSent == Spec => []PublishedWasSent
  <1>1. OInv => PublishedWasSent
    BY DEF OInv, PublishedWasSent, RowOK
  <1> QED
    BY Invariance, <1>1, PTL

\* An event that the broker has never accepted is found by the next sweep, or
\* was refused more often than recordFailure tolerates.
THEOREM UnsentStaysPending == Spec => []UnsentIsPending
  <1>1. OInv => UnsentIsPending
    BY DEF OInv, UnsentIsPending, RowOK, Row, Status
  <1> QED
    BY Invariance, <1>1, PTL
=============================================================================
