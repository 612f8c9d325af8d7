------------------------- MODULE OrderPaymentSteps --------------------------
(***************************************************************************)
(* The steps of payment and of compensation keep the inductive invariant   *)
(* of OrderPayment.                                                        *)
(***************************************************************************)
EXTENDS OrderPaymentInvariant

LEMMA ProcessPaymentIInv ==
  ASSUME IInv, NEW c \in Calls, NEW o \in Orders, NEW k \in Keys,
         ProcessPayment(c, o, k)
  PROVE  IInv'
  <1> DEFINE new == RetryPayment(order[o])
             l == [call[c] EXCEPT !.order = o, !.key = k]
  <1>1. /\ order' = [order EXCEPT ![o] = new]
        /\ call' = [call EXCEPT ![c] = l]
        /\ charge' = [charge EXCEPT ![c] = "requested"]
        /\ pc' = [pc EXCEPT ![c] = "charging"]
        /\ pc[c] = "idle"
        /\ Exists(o)
        /\ order[o].status # "CONFIRMED"
        /\ UNCHANGED <<now, resv, processed, refunds>>
    BY Zenon DEF ProcessPayment, MayStart, Goto
  <1>2. order[o] \in OrderRecord /\ call[c] \in CallRecord
    BY DEF IInv, TypeOK
  <1>3. /\ new \in OrderRecord
        /\ new.reservation = order[o].reservation
        /\ new.attempts = order[o].attempts
    BY <1>2, OrderOperations
  <1>4. /\ new.txn = order[o].txn
        /\ new.status \in {order[o].status, "PAYMENT_PENDING"}
    BY <1>2, Zenon DEF RetryPayment, OrderRecord
  <1>5. l \in CallRecord /\ l.order = o /\ l.key = k /\ l.txn = call[c].txn
    BY <1>2, Zenon DEF CallRecord
  <1> HIDE DEF new, l
  <1>6. /\ order'[o] = new /\ call'[c] = l
        /\ charge'[c] = "requested" /\ pc'[c] = "charging"
        /\ \A p \in Orders : p # o => order'[p] = order[p]
        /\ \A d \in Calls : d # c =>
             pc'[d] = pc[d] /\ call'[d] = call[d] /\ charge'[d] = charge[d]
    BY <1>1 DEF IInv, TypeOK
  <1>7. charge[c] = "none"
    BY <1>1 DEF IInv, CallOK
  <1>8. TypeOK'
    BY <1>1, <1>3, <1>5 DEF IInv, TypeOK, PC, ChargeState
  <1>9. Frame(c, o)
    BY <1>1, <1>3, <1>4, <1>6, <1>7 DEF Frame, Exists
  <1>10. HoldsMove(o) /\ RefundsMove(o)
    BY <1>1 DEF HoldsMove, RefundsMove
  <1>11. CallOK(c)'
    BY <1>4, <1>5, <1>6, <1>9 DEF CallOK, Active, Exists, Compensating, Frame
  <1>12. \A t \in Calls : PaidBy(o, t) => t # c /\ PaidBy(o, t)'
    BY <1>6, <1>7, SMTT(30) DEF PaidBy
  <1>13. OrderOK(o)'
    <2>1. OrderOK(o)
      BY DEF IInv
    <2>2. /\ order'[o].txn = order[o].txn /\ order'[o].attempts = order[o].attempts
          /\ order'[o].reservation = order[o].reservation
          /\ order'[o].status \in {order[o].status, "PAYMENT_PENDING"}
      BY <1>3, <1>4, <1>6
    <2>3. \A t \in Calls : PaidBy(o, t) /\ Pending(t) => Pending(t)'
      BY <1>6, <1>12 DEF Pending, Compensating
    <2> QED
      BY <1>1, <1>12, <2>1, <2>2, <2>3 DEF OrderOK, Exists, HoldOf, PaidBy
  <1> QED
    BY <1>8, <1>9, <1>10, <1>11, <1>13, StepIInv

LEMMA ChargeSucceededIInv ==
  ASSUME IInv, NEW c \in Calls, ChargeSucceeded(c)
  PROVE  IInv'
  <1>1. PICK o \in Orders : o = call[c].order /\ Exists(o) /\ OrderOK(o)
    BY DEF ChargeSucceeded, IInv, CallOK, Active
  <1>2. PICK k \in Keys : k = call[c].key
    BY DEF ChargeSucceeded, IInv, CallOK
  <1> DEFINE new == RecordPaymentAttempt(order[o], k, c)
  <1>3. order[o] \in OrderRecord
    BY DEF IInv, TypeOK
  <1>4. /\ new \in OrderRecord
        /\ new.reservation = order[o].reservation
        /\ new.status = order[o].status
        /\ new.txn = order[o].txn
        /\ \A i \in DOMAIN new.attempts :
             \/ new.attempts[i].txn = c
             \/ /\ i \in DOMAIN order[o].attempts
                /\ new.attempts[i] = order[o].attempts[i]
    BY <1>3, AttemptRecorded
  <1>5. /\ order' = [order EXCEPT ![o] = new]
        /\ pc' = [pc EXCEPT ![c] = "issuing"]
    BY <1>1, <1>2 DEF ChargeSucceeded, Goto
  <1>6. /\ pc[c] = "charging"
        /\ charge[c] = "captured"
        /\ UNCHANGED <<now, resv, call, processed, charge, refunds>>
    BY DEF ChargeSucceeded, provider
  <1> HIDE DEF new
  <1>7. TypeOK'
    BY <1>4, <1>5, <1>6 DEF IInv, TypeOK, PC
  <1>8. /\ order'[o] = new /\ pc'[c] = "issuing"
        /\ \A p \in Orders : p # o => order'[p] = order[p]
        /\ \A d \in Calls : d # c => pc'[d] = pc[d]
    BY <1>5 DEF IInv, TypeOK
  <1>9. Frame(c, o)
    BY <1>1, <1>4, <1>6, <1>8 DEF Frame, Exists
  <1>10. HoldsMove(o) /\ RefundsMove(o)
    BY <1>4, <1>6, <1>8 DEF HoldsMove, RefundsMove
  <1>11. CallOK(c)'
    BY <1>1, <1>4, <1>6, <1>8 DEF CallOK, Active, Exists, Compensating
  <1>12. OrderOK(o)'
    <2>1. \A t \in Calls : PaidBy(o, t) => PaidNow(o, t)
      BY <1>6 DEF PaidBy, PaidNow
    <2>2. \A i \in DOMAIN order'[o].attempts :
            \/ /\ i \in DOMAIN order[o].attempts
               /\ order'[o].attempts[i].txn = order[o].attempts[i].txn
            \/ /\ PaidNow(o, order'[o].attempts[i].txn)
               /\ PendingNow(order'[o].attempts[i].txn)
      BY <1>1, <1>4, <1>6, <1>8 DEF PaidNow, PendingNow
    <2>3. \A t \in Calls : PaidBy(o, t) /\ Pending(t) => PendingNow(t)
      BY <1>6, <1>8 DEF Pending, PendingNow, Compensating
    <2>4. order'[o].status = "CONFIRMED" => order'[o].txn # None
      BY <1>1, <1>4, <1>8 DEF OrderOK
    <2>9. OrderMove(o)
      BY <1>1, <1>4, <1>6, <1>8, <2>1, <2>2, <2>3, <2>4, Zenon DEF OrderMove, Exists
    <2> QED
      BY <1>1, <2>9, OrderTouched
  <1> QED
    BY <1>7, <1>9, <1>10, <1>11, <1>12, StepIInv

LEMMA ChargeTimedOutIInv ==
  ASSUME IInv, NEW c \in Calls, ChargeTimedOut(c)
  PROVE  IInv'
  <1>1. PICK o \in Orders : o = call[c].order /\ Exists(o) /\ OrderOK(o)
    BY DEF ChargeTimedOut, IInv, CallOK, Active
  <1>2. PICK k \in Keys : k = call[c].key
    BY DEF ChargeTimedOut, IInv, CallOK
  <1> DEFINE new == RecordPaymentAttempt(order[o], k, None)
  <1>3. order[o] \in OrderRecord
    BY DEF IInv, TypeOK
  <1>4. /\ new \in OrderRecord
        /\ new.reservation = order[o].reservation
        /\ new.status = order[o].status
        /\ new.txn = order[o].txn
        /\ \A i \in DOMAIN new.attempts :
             \/ new.attempts[i].txn = None
             \/ /\ i \in DOMAIN order[o].attempts
                /\ new.attempts[i] = order[o].attempts[i]
    BY <1>3, AttemptRecorded
  <1>5. /\ order' = [order EXCEPT ![o] = new]
        /\ pc' = [pc EXCEPT ![c] = "done"]
    BY <1>1, <1>2 DEF ChargeTimedOut, Goto
  <1>6. /\ pc[c] = "charging"
        /\ UNCHANGED <<now, resv, call, processed, charge, refunds>>
    BY DEF ChargeTimedOut, provider
  <1> HIDE DEF new
  <1>7. TypeOK'
    BY <1>4, <1>5, <1>6 DEF IInv, TypeOK, PC
  <1>8. /\ order'[o] = new /\ pc'[c] = "done"
        /\ \A p \in Orders : p # o => order'[p] = order[p]
        /\ \A d \in Calls : d # c => pc'[d] = pc[d]
    BY <1>5 DEF IInv, TypeOK
  <1>9. Frame(c, o)
    BY <1>1, <1>4, <1>6, <1>8 DEF Frame, Exists
  <1>10. HoldsMove(o) /\ RefundsMove(o)
    BY <1>4, <1>6, <1>8 DEF HoldsMove, RefundsMove
  <1>11. CallOK(c)'
    BY <1>1, <1>4, <1>6, <1>8 DEF CallOK, Active, Exists, Compensating
  <1>12. OrderOK(o)'
    <2>1. \A t \in Calls : PaidBy(o, t) => PaidNow(o, t)
      BY <1>6 DEF PaidBy, PaidNow
    <2>2. \A i \in DOMAIN order'[o].attempts :
            \/ order'[o].attempts[i].txn = None
            \/ /\ i \in DOMAIN order[o].attempts
               /\ order'[o].attempts[i].txn = order[o].attempts[i].txn
      BY <1>4, <1>8
    <2>3. \A t \in Calls : PaidBy(o, t) /\ Pending(t) => PendingNow(t)
      BY <1>6, <1>8, SMTT(30) DEF Pending, PendingNow, Compensating
    <2>4. order'[o].status = "CONFIRMED" => order'[o].txn # None
      BY <1>1, <1>4, <1>8 DEF OrderOK
    <2>9. OrderMove(o)
      BY <1>1, <1>4, <1>6, <1>8, <2>1, <2>2, <2>3, <2>4, Zenon DEF OrderMove, Exists
    <2> QED
      BY <1>1, <2>9, OrderTouched
  <1> QED
    BY <1>7, <1>9, <1>10, <1>11, <1>12, StepIInv

LEMMA ChargeRefusedIInv ==
  ASSUME IInv, NEW c \in Calls, ChargeRefused(c)
  PROVE  IInv'
  <1>1. PICK o \in Orders : o = call[c].order /\ Exists(o) /\ OrderOK(o)
    BY DEF ChargeRefused, IInv, CallOK, Active
  <1>2. PICK k \in Keys : k = call[c].key
    BY SMTT(30) DEF ChargeRefused, IInv, CallOK
  <1> DEFINE ord == RecordPaymentAttempt(order[o], k, None)
  <1>3. order[o] \in OrderRecord /\ order[o].reservation \in Reservations
    BY <1>1 DEF IInv, TypeOK, OrderOK, HoldOf
  <1>4. /\ ord \in OrderRecord
        /\ ord.reservation = order[o].reservation
        /\ ord.status = order[o].status
        /\ ord.txn = order[o].txn
        /\ \A i \in DOMAIN ord.attempts :
             \/ ord.attempts[i].txn = None
             \/ /\ i \in DOMAIN order[o].attempts
                /\ ord.attempts[i] = order[o].attempts[i]
    BY <1>3, AttemptRecorded
  <1>5. /\ Decline(o, ord)
        /\ pc' = [pc EXCEPT ![c] = "done"]
        /\ pc[c] = "charging"
        /\ UNCHANGED <<now, call, processed, charge, refunds>>
    BY <1>1, <1>2 DEF ChargeRefused, Goto, provider
  <1> HIDE DEF ord
  <1>6. PICK new \in OrderRecord :
           /\ order' = [order EXCEPT ![o] = new]
           /\ new.reservation = ord.reservation
           /\ new.attempts = ord.attempts
           /\ new.txn = ord.txn
           /\ \/ new.status = ord.status
              \/ ord.status = "PAYMENT_PENDING" /\ new.status = "PAYMENT_DECLINED"
           /\ resv' \in [Reservations -> ReservationStatus]
           /\ \A r \in Reservations : resv'[r] = resv[r] \/
                (resv[r] = "PAYMENT_PENDING" /\ resv'[r] = "PENDING")
    BY <1>3, <1>4, <1>5, DeclineEffect DEF IInv
  <1>7. /\ order'[o] = new /\ pc'[c] = "done"
        /\ \A p \in Orders : p # o => order'[p] = order[p]
        /\ \A d \in Calls : d # c => pc'[d] = pc[d]
    BY <1>5, <1>6 DEF IInv, TypeOK
  <1>8. TypeOK'
    BY <1>5, <1>6 DEF IInv, TypeOK, PC
  <1>9. Frame(c, o)
    BY <1>1, <1>4, <1>5, <1>6, <1>7 DEF Frame, Exists
  <1>10. HoldsMove(o) /\ RefundsMove(o)
    BY <1>4, <1>5, <1>6, <1>7, SMTT(30) DEF HoldsMove, RefundsMove, Released
  <1>11. CallOK(c)'
    BY <1>1, <1>5, <1>7, <1>9 DEF CallOK, Active, Exists, Compensating, Frame
  <1>12. OrderOK(o)'
    <2>1. \A t \in Calls : PaidBy(o, t) => PaidNow(o, t)
      BY <1>5 DEF PaidBy, PaidNow
    <2>2. \A i \in DOMAIN order'[o].attempts :
            \/ order'[o].attempts[i].txn = None
            \/ /\ i \in DOMAIN order[o].attempts
               /\ order'[o].attempts[i].txn = order[o].attempts[i].txn
      BY <1>4, <1>6, <1>7
    <2>3. \A t \in Calls : PaidBy(o, t) /\ Pending(t) => PendingNow(t)
      BY <1>5, <1>7 DEF Pending, PendingNow, Compensating
    <2>0. Exists(o) /\ (order[o].status = "CONFIRMED" => order[o].txn # None)
      BY <1>1 DEF OrderOK
    <2>4. /\ order'[o].status # "NONE" /\ order'[o].txn = order[o].txn
          /\ order'[o].reservation = order[o].reservation
          /\ order'[o].status = "CONFIRMED" => order'[o].txn # None
          /\ order'[o].status = "CANCELLED" => order[o].status = "CANCELLED"
      BY <1>4, <1>6, <1>7, <2>0 DEF Exists
    <2>5. \A r \in Reservations : resv[r] \in Released => resv'[r] \in Released
      BY <1>10 DEF HoldsMove
    <2>9. OrderMove(o)
      BY <1>1, <2>1, <2>2, <2>3, <2>4, <2>5, Zenon DEF OrderMove
    <2> QED
      BY <1>1, <2>9, OrderTouched
  <1> QED
    BY <1>8, <1>9, <1>10, <1>11, <1>12, StepIInv

\* The tickets are sold, or the call goes on to compensate.
LEMMA IssueTicketsIInv ==
  ASSUME IInv, NEW c \in Calls, IssueTickets(c)
  PROVE  IInv'
  <1>1. PICK o \in Orders :
          o = call[c].order /\ Exists(o) /\ OrderOK(o) /\ charge[c] = "captured"
    BY DEF IssueTickets, IInv, CallOK, Active
  <1> DEFINE l == [call[c] EXCEPT !.txn = c]
             label == IF ConfirmThrows(o) THEN "compensating" ELSE "done"
  <1>2. call[c] \in CallRecord
    BY DEF IInv, TypeOK
  <1>3. l \in CallRecord /\ l.order = o /\ l.txn = c
    BY <1>1, <1>2, Zenon DEF CallRecord
  <1>4. /\ call' = [call EXCEPT ![c] = l]
        /\ pc' = [pc EXCEPT ![c] = label]
        /\ Confirm(o, c)
        /\ pc[c] = "issuing"
        /\ UNCHANGED <<now, processed, charge, refunds>>
    BY <1>1 DEF IssueTickets, Goto, provider
  <1>5. PICK new \in OrderRecord :
           /\ order' = [order EXCEPT ![o] = new]
           /\ new.reservation = order[o].reservation
           /\ new.attempts = order[o].attempts
           /\ \/ new = order[o]
              \/ new.status = "CONFIRMED" /\ new.txn = c
           /\ resv' \in [Reservations -> ReservationStatus]
           /\ \A r \in Reservations : resv'[r] = resv[r] \/
                ( /\ r = HoldOf(o) /\ new.status = "CONFIRMED"
                  /\ resv[r] \in Held /\ resv'[r] = "CONFIRMED" )
           /\ ~ConfirmThrows(o) => new.status = "CONFIRMED"
    BY <1>1, <1>4, ConfirmEffect DEF IInv, OrderOK
  <1>6. label \in {"compensating", "done"} /\ (label = "done" => new.status = "CONFIRMED")
    BY <1>5
  <1> HIDE DEF l, label
  <1>7. /\ order'[o] = new /\ pc'[c] = label /\ call'[c] = l
        /\ \A p \in Orders : p # o => order'[p] = order[p]
        /\ \A d \in Calls : d # c => pc'[d] = pc[d] /\ call'[d] = call[d]
    BY <1>4, <1>5 DEF IInv, TypeOK
  <1>8. TypeOK'
    BY <1>3, <1>4, <1>5, <1>6, SMTT(30) DEF IInv, TypeOK, PC
  <1>9. Frame(c, o)
    BY <1>1, <1>3, <1>4, <1>5, <1>7 DEF Frame, Exists
  <1>10. HoldsMove(o) /\ RefundsMove(o)
    BY <1>4, <1>5, <1>7 DEF HoldsMove, RefundsMove, Released, Held, HoldOf
  <1>11. PaidNow(o, c)
    BY <1>1, <1>3, <1>4, <1>7 DEF PaidNow
  <1>12. CallOK(c)'
    BY <1>3, <1>6, <1>7, <1>9, <1>11 DEF CallOK, Active, Exists, Compensating, Frame,
       PaidBy, PaidNow
  <1>13. OrderOK(o)'
    <2>1. \A t \in Calls : PaidBy(o, t) => PaidNow(o, t)
      BY <1>4, <1>7, <1>11 DEF PaidBy, PaidNow
    <2>2. order'[o].attempts = order[o].attempts
      BY <1>5, <1>7
    <2>3. order'[o].status = "CANCELLED" =>
            /\ order[o].status = "CANCELLED"
            /\ \A t \in Calls : PaidBy(o, t) /\ Pending(t) => PendingNow(t)
      BY <1>5, <1>6, <1>7, SMTT(30) DEF Pending, PendingNow, Compensating
    <2>0. Exists(o) /\ (order[o].status = "CONFIRMED" => order[o].txn # None)
      BY <1>1 DEF OrderOK
    <2>4. /\ order'[o].status # "NONE"
          /\ order'[o].txn = order[o].txn \/ PaidNow(o, order'[o].txn)
          /\ order'[o].reservation = order[o].reservation
          /\ order'[o].status = "CONFIRMED" => order'[o].txn # None
      BY <1>5, <1>7, <1>11, <2>0, CallsAssumption DEF Exists
    <2>5. \A r \in Reservations : resv[r] \in Released => resv'[r] \in Released
      BY <1>10 DEF HoldsMove
    <2>9. OrderMove(o)
      BY <1>1, <2>1, <2>2, <2>3, <2>4, <2>5, Zenon DEF OrderMove
    <2> QED
      BY <1>1, <2>9, OrderTouched
  <1> QED
    BY <1>8, <1>9, <1>10, <1>12, <1>13, StepIInv

-----------------------------------------------------------------------------
(* Compensation.                                                           *)

\* Call c moves to the await named label with the locals l, and nothing else
\* happens.  What the locals are good for depends on the await.
CallMove(c, l, label) ==
  /\ call' = [call EXCEPT ![c] = l]
  /\ pc' = [pc EXCEPT ![c] = label]
  /\ l.order \in Orders /\ Exists(l.order)
  /\ charge[c] # "none" => l.order = call[c].order
  /\ label = "compensating" =>
       /\ pc[c] \in {"idle", "issuing"}
       /\ l.txn # None => PaidBy(l.order, l.txn)
  /\ label = "hook" =>
       /\ pc[c] = "idle"
       /\ l.txn \in Calls /\ charge[l.txn] # "none"
       /\ call[l.txn].order = l.order
  /\ label = "refunding" =>
       /\ pc[c] \in {"refund", "releasing"}
       /\ l.txn # None /\ PaidBy(l.order, l.txn)
       /\ resv[HoldOf(l.order)] \in Released
  /\ UNCHANGED <<now, resv, order, processed, charge, refunds>>

LEMMA CallMoveIInv ==
  ASSUME IInv, NEW c \in Calls, NEW l \in CallRecord,
         NEW label \in {"compensating", "hook", "refunding"}, CallMove(c, l, label)
  PROVE  IInv'
  <1>1. PICK o \in Orders : o = l.order /\ Exists(o) /\ OrderOK(o)
    BY DEF CallMove, IInv
  <1>2. /\ call'[c] = l /\ pc'[c] = label
        /\ \A d \in Calls : d # c => pc'[d] = pc[d] /\ call'[d] = call[d]
        /\ UNCHANGED <<now, resv, order, processed, charge, refunds>>
    BY DEF CallMove, IInv, TypeOK
  <1>3. TypeOK'
    BY DEF CallMove, IInv, TypeOK, PC
  <1>4. Frame(c, o)
    BY <1>1, <1>2 DEF Frame, Exists, CallMove
  <1>5. HoldsMove(o) /\ RefundsMove(o)
    BY <1>2 DEF HoldsMove, RefundsMove
  <1>6. CallOK(c)'
    <2>1. pc'[c] # "idle" /\ pc'[c] # "charging" /\ pc'[c] # "issuing" /\ pc'[c] # "refund"
      BY <1>2
    <2>2. /\ label # "hook" /\ l.txn # None => PaidBy(o, l.txn)
          /\ label = "refunding" => l.txn # None /\ resv[HoldOf(o)] \in Released
      BY <1>1 DEF CallMove
    <2>3. label = "hook" => /\ l.txn \in Calls /\ l.txn # c
                            /\ charge[l.txn] # "none" /\ call[l.txn].order = o
      BY <1>1 DEF CallMove, IInv, CallOK
    <2>4. \A t \in Calls : PaidBy(o, t) => PaidNow(o, t)
      BY <1>1, <1>2 DEF PaidBy, PaidNow, CallMove
    <2>5. Compensating(c)' => label # "hook"
      BY <1>2 DEF Compensating
    <2>6. (Compensating(c) /\ call[c].txn # None => PaidBy(call[c].order, call[c].txn))'
      BY <1>1, <1>2, <2>2, <2>4, <2>5 DEF PaidBy, PaidNow
    <2> QED
      BY <1>1, <1>2, <2>1, <2>2, <2>3, <2>6 DEF CallOK, Exists, HoldOf
  <1>7. OrderOK(o)'
    <2>1. \A t \in Calls : Pending(t) => Pending(t)'
      BY <1>2 DEF Pending, Compensating, CallMove
    <2>2. \A t \in Calls : charge[t] = "captured" /\ call[t].order = o => call'[t].order = o
      BY <1>1, <1>2 DEF CallMove
    <2> QED
      BY <1>1, <1>2, <2>1, <2>2, OrderUntouched
  <1> QED
    BY <1>3, <1>4, <1>5, <1>6, <1>7, StepIInv

\* The steps that only start a call or move it on.
LEMMA CallStepIInv ==
  ASSUME IInv, NEW c \in Calls,
         \/ IssuerFails(c)
         \/ \E o \in Orders, txn \in Calls \cup {None} : CompensateOrder(c, o, txn)
         \/ \E o \in Orders : RetryCompensation(c, o)
         \/ \E txn \in Calls : ReceiveWebhook(c, txn)
         \/ \E txn \in Calls : RequestRefund(c, txn)
  PROVE  IInv'
  <1> DEFINE Labels == {"compensating", "hook", "refunding"}
  <1>1. PICK l \in CallRecord, label \in Labels : CallMove(c, l, label)
    <2>0. call[c] \in CallRecord
      BY DEF IInv, TypeOK
    <2>1. CASE IssuerFails(c)
      <3> DEFINE l == [call[c] EXCEPT !.txn = c]
      <3>1. l \in CallRecord /\ l.order = call[c].order /\ l.txn = c
        BY <2>0 DEF CallRecord
      <3>2. call' = [call EXCEPT ![c] = l]
        BY <2>1 DEF IssuerFails
      <3>3. /\ pc[c] = "issuing"
            /\ call[c].order \in Orders /\ Exists(call[c].order)
            /\ PaidBy(call[c].order, c)
        BY <2>1 DEF IssuerFails, IInv, CallOK, Active, PaidBy
      <3> HIDE DEF l
      <3>4. CallMove(c, l, "compensating")
        BY <2>1, <3>1, <3>2, <3>3, Zenon DEF CallMove, IssuerFails, Goto, entities, provider
      <3> QED
        BY <3>1, <3>4
    <2>2. ASSUME NEW o \in Orders, NEW txn \in Calls \cup {None},
                 CompensateOrder(c, o, txn)
          PROVE  \E l \in CallRecord, label \in Labels : CallMove(c, l, label)
      <3> DEFINE l == [call[c] EXCEPT !.order = o, !.txn = txn]
      <3>1. l \in CallRecord /\ l.order = o /\ l.txn = txn
        BY <2>0, Zenon DEF CallRecord
      <3>2. call' = [call EXCEPT ![c] = l]
        BY <2>2, Zenon DEF CompensateOrder
      <3> HIDE DEF l
      <3>3. CallMove(c, l, "compensating")
        BY <2>2, <3>1, <3>2, Zenon DEF CallMove, CompensateOrder, MayStart, Goto, entities,
           provider, IInv, CallOK, PaidBy
      <3> QED
        BY <3>1, <3>3
    <2>3. ASSUME NEW o \in Orders, RetryCompensation(c, o)
          PROVE  \E l \in CallRecord, label \in Labels : CallMove(c, l, label)
      <3> DEFINE l == [call[c] EXCEPT !.order = o]
      <3>1. l \in CallRecord /\ l.order = o /\ l.txn = call[c].txn
        BY <2>0 DEF CallRecord
      <3>2. call' = [call EXCEPT ![c] = l]
        BY <2>3 DEF RetryCompensation
      <3> HIDE DEF l
      <3>3. CallMove(c, l, "compensating")
        BY <2>3, <3>1, <3>2, Zenon DEF CallMove, RetryCompensation, MayStart, Goto,
           entities, provider, IInv, CallOK, Exists
      <3> QED
        BY <3>1, <3>3
    <2>4. ASSUME NEW txn \in Calls, ReceiveWebhook(c, txn)
          PROVE  \E l \in CallRecord, label \in Labels : CallMove(c, l, label)
      <3> DEFINE l == [call[c] EXCEPT !.order = call[txn].order, !.txn = txn]
      <3>1. call[txn].order \in Orders /\ Exists(call[txn].order)
        BY <2>4 DEF ReceiveWebhook, IInv, CallOK
      <3>2. l \in CallRecord /\ l.order = call[txn].order /\ l.txn = txn
        BY <2>0, <3>1, Zenon DEF CallRecord
      <3>3. call' = [call EXCEPT ![c] = l]
        BY <2>4, Zenon DEF ReceiveWebhook
      <3> HIDE DEF l
      <3>4. CallMove(c, l, "hook")
        BY <2>4, <3>1, <3>2, <3>3, Zenon DEF CallMove, ReceiveWebhook, MayStart, Goto,
           entities, provider, IInv, CallOK
      <3> QED
        BY <3>2, <3>4
    <2>5. ASSUME NEW txn \in Calls, RequestRefund(c, txn)
          PROVE  \E l \in CallRecord, label \in Labels : CallMove(c, l, label)
      <3> DEFINE o == call[c].order
                 n == order[o].compensations + 1
                 l == [call[c] EXCEPT !.txn = txn, !.attempt = n]
      <3>1. /\ o \in Orders /\ Exists(o)
            /\ pc[c] \in {"refund", "releasing"}
            /\ resv[HoldOf(o)] \in Released
        BY <2>5 DEF RequestRefund, HoldReleased, IInv, CallOK, Active
      <3>2. n \in Nat
        BY <3>1 DEF IInv, TypeOK, OrderRecord
      <3>3. l \in CallRecord /\ l.order = o /\ l.txn = txn
        <4> HIDE DEF n
        <4> QED BY <2>0, <3>2, Zenon DEF CallRecord
      <3>4. call' = [call EXCEPT ![c] = l]
        BY <2>5, Zenon DEF RequestRefund
      <3> HIDE DEF l
      <3>5. PaidBy(o, txn)
        <4>1. CallOK(c) /\ OrderOK(o) /\ txn # None /\ Compensating(c)
          BY <3>1, CallsAssumption DEF IInv, Compensating
        <4>2. CASE call[c].txn # None
          BY <2>5, <4>1, <4>2, Zenon DEF RequestRefund, RefundTarget, CallOK
        <4>3. CASE call[c].txn = None /\ order[o].txn # None
          BY <2>5, <4>1, <4>3, ZenonT(40) DEF RequestRefund, RefundTarget, OrderOK
        <4>4. CASE call[c].txn = None /\ order[o].txn = None
          <5>1. FirstSuccess(order[o], txn)
            BY <2>5, <4>1, <4>4 DEF RequestRefund, RefundTarget
          <5> QED
            BY <4>1, <5>1 DEF FirstSuccess, OrderOK
        <4> QED
          BY <4>2, <4>3, <4>4
      <3>6. CallMove(c, l, "refunding")
        BY <2>5, <3>1, <3>3, <3>4, <3>5, CallsAssumption, Zenon DEF CallMove,
           RequestRefund, Goto, entities, provider
      <3> QED
        BY <3>3, <3>6
    <2> QED
      BY <2>1, <2>2, <2>3, <2>4, <2>5
  <1> QED
    BY <1>1, CallMoveIInv

LEMMA CheckCompensatedIInv ==
  ASSUME IInv, NEW c \in Calls, CheckCompensated(c)
  PROVE  IInv'
  <1>1. PICK o \in Orders : o = call[c].order /\ Exists(o) /\ OrderOK(o)
    BY DEF CheckCompensated, IInv, CallOK, Active
  <1>2. /\ pc[c] = "compensating"
        /\ \/ pc' = [pc EXCEPT ![c] = "releasing"]
           \/ /\ pc' = [pc EXCEPT ![c] = "done"]
              /\ order[o].status = "CANCELLED_REFUNDED"
        /\ UNCHANGED <<now, resv, order, call, processed, charge, refunds>>
    BY <1>1, Zenon DEF CheckCompensated, Goto, entities, provider
  <1>3. /\ \/ pc'[c] = "releasing"
           \/ pc'[c] = "done" /\ order[o].status = "CANCELLED_REFUNDED"
        /\ \A d \in Calls : d # c => pc'[d] = pc[d]
    BY <1>2 DEF IInv, TypeOK
  <1>4. TypeOK'
    BY <1>2 DEF IInv, TypeOK, PC
  <1>5. Frame(c, o)
    BY <1>1, <1>2, <1>3 DEF Frame, Exists, IInv, CallOK
  <1>6. HoldsMove(o) /\ RefundsMove(o)
    BY <1>2, SMTT(30) DEF HoldsMove, RefundsMove
  <1>7. CallOK(c)'
    BY <1>1, <1>2, <1>3, SMTT(30) DEF CallOK, Active, Exists, Compensating, PaidBy, IInv
  <1>8. OrderOK(o)'
    <2>1. \A t \in Calls : order[o].status = "CANCELLED" /\ Pending(t) => Pending(t)'
      BY <1>2, <1>3 DEF Pending, Compensating
    <2> QED
      BY <1>1, <1>2, <2>1, OrderUntouched
  <1> QED
    BY <1>4, <1>5, <1>6, <1>7, <1>8, StepIInv

\* A hold that cannot be cancelled ends the call; it is then sold, so the
\* order is not CANCELLED and its attempts may be left without a call.
LEMMA ReleaseHoldIInv ==
  ASSUME IInv, NEW c \in Calls, ReleaseHold(c)
  PROVE  IInv'
  <1>1. PICK o \in Orders : o = call[c].order /\ Exists(o) /\ OrderOK(o)
    BY SMTT(30) DEF ReleaseHold, IInv, CallOK, Active
  <1>2. PICK r \in Reservations : r = HoldOf(o)
    BY <1>1 DEF OrderOK
  <1>3. /\ pc[c] = "releasing"
        /\ resv[r] \notin Released
        /\ UNCHANGED <<now, order, call, processed, charge, refunds>>
        /\ \/ /\ resv[r] \in Held
              /\ resv' = [resv EXCEPT ![r] = "CANCELLED"]
              /\ pc' = [pc EXCEPT ![c] = "refund"]
           \/ /\ resv' = resv
              /\ pc' = [pc EXCEPT ![c] = "done"]
    BY <1>1, <1>2 DEF ReleaseHold, CanCancelReservation, Goto, provider
  <1>4. /\ \A h \in Reservations : \/ resv'[h] = resv[h]
                                   \/ resv[h] \in Held /\ resv'[h] = "CANCELLED"
        /\ \/ pc'[c] = "refund" /\ resv'[r] = "CANCELLED"
           \/ pc'[c] = "done"
        /\ \A d \in Calls : d # c => pc'[d] = pc[d]
    BY <1>3 DEF IInv, TypeOK
  <1>5. TypeOK'
    BY <1>3 DEF IInv, TypeOK, PC, ReservationStatus
  <1>6. Frame(c, o)
    BY <1>1, <1>3, <1>4 DEF Frame, Exists
  <1>7. HoldsMove(o) /\ RefundsMove(o)
    BY <1>3, <1>4, SMTT(30) DEF HoldsMove, RefundsMove, Held, Released
  <1>8. CallOK(c)'
    BY <1>1, <1>2, <1>3, <1>4, ZenonT(40)
       DEF CallOK, Active, Exists, Compensating, PaidBy, IInv,
       HoldOf, Released
  <1>9. OrderOK(o)'
    <2>1. order[o].status # "CANCELLED"
      BY <1>1, <1>2, <1>3 DEF OrderOK
    <2>2. \A h \in Reservations : resv[h] \in Released => resv'[h] \in Released
      BY <1>7 DEF HoldsMove
    <2>3. order'[o] = order[o] /\ charge' = charge /\ call' = call
      BY <1>3
    <2>4. \A t \in Calls : charge[t] = "captured" /\ call[t].order = o =>
            /\ charge'[t] = "captured" /\ call'[t].order = o
            /\ order[o].status = "CANCELLED" /\ Pending(t) => Pending(t)'
      BY <2>1, <2>3, SMTT(30)
    <2> QED
      BY <1>1, <2>2, <2>3, <2>4, OrderUntouched, SMTT(30)
  <1> QED
    BY <1>5, <1>6, <1>7, <1>8, <1>9, StepIInv

\* Nothing to refund: the order has no SUCCESS attempt when it is cancelled.
LEMMA CancelUnpaidIInv ==
  ASSUME IInv, NEW c \in Calls, CancelUnpaid(c)
  PROVE  IInv'
  <1>1. PICK o \in Orders : o = call[c].order /\ Exists(o) /\ OrderOK(o)
    BY SMTT(30) DEF CancelUnpaid, HoldReleased, IInv, CallOK, Active
  <1> DEFINE new == IF CanCancelOrder(order[o]) THEN CancelOrder(order[o]) ELSE order[o]
  <1>2. pc[c] \in {"refund", "releasing"} /\ resv[order[o].reservation] \in Released
    BY <1>1 DEF CancelUnpaid, HoldReleased, IInv, CallOK, HoldOf
  <1>3. NoSuccess(order[o])
    BY <1>1, SMTT(30) DEF CancelUnpaid, RefundTarget, FirstSuccess
  <1>4. order[o] \in OrderRecord /\ order[o].reservation \in Reservations
    BY <1>1 DEF IInv, TypeOK, OrderOK, HoldOf
  <1>5. /\ new \in OrderRecord
        /\ new.reservation = order[o].reservation
        /\ new.attempts = order[o].attempts
    BY <1>4, OrderOperations
  <1>6. /\ new.txn = order[o].txn
        /\ \/ new = order[o]
           \/ order[o].status # "CONFIRMED" /\ new.status = "CANCELLED"
    BY <1>4 DEF CanCancelOrder, CancelOrder, OrderRecord
  <1>7. /\ order' = [order EXCEPT ![o] = new]
        /\ pc' = [pc EXCEPT ![c] = "done"]
        /\ UNCHANGED <<now, resv, call, processed, charge, refunds>>
    BY <1>1 DEF CancelUnpaid, Goto, provider
  <1> HIDE DEF new
  <1>8. /\ order'[o] = new /\ pc'[c] = "done"
        /\ \A p \in Orders : p # o => order'[p] = order[p]
        /\ \A d \in Calls : d # c => pc'[d] = pc[d]
    BY <1>7 DEF IInv, TypeOK
  <1>9. TypeOK'
    BY <1>5, <1>7 DEF IInv, TypeOK, PC
  <1>10. Frame(c, o)
    BY <1>1, <1>5, <1>6, <1>7, <1>8, SMTT(30) DEF Frame, Exists
  <1>11. HoldsMove(o) /\ RefundsMove(o)
    BY <1>6, <1>7, <1>8, SMTT(30) DEF HoldsMove, RefundsMove
  <1>12. CallOK(c)'
    BY <1>1, <1>7, <1>8, <1>10 DEF CallOK, Active, Exists, Compensating, Frame
  <1>13. OrderOK(o)'
    <2>1. \A t \in Calls : PaidBy(o, t) => PaidNow(o, t)
      BY <1>7 DEF PaidBy, PaidNow
    <2>2. NoSuccess(order'[o]) /\ resv'[order[o].reservation] \in Released
      <3>1. order'[o].attempts = order[o].attempts /\ resv' = resv
        BY <1>5, <1>7, <1>8, SMTT(30)
      <3> QED
        BY <1>2, <1>3, <3>1 DEF NoSuccess
    <2>3. Exists(o) /\ (order[o].status = "CONFIRMED" => order[o].txn # None)
      BY <1>1 DEF OrderOK
    <2>4. /\ order'[o].status # "NONE" /\ order'[o].txn = order[o].txn
          /\ order'[o].reservation = order[o].reservation
          /\ order'[o].attempts = order[o].attempts
          /\ order'[o].status = "CONFIRMED" => order'[o].txn # None
      BY <1>5, <1>6, <1>8, <2>3 DEF Exists
    <2>5. \A r \in Reservations : resv[r] \in Released => resv'[r] \in Released
      BY <1>7
    <2>6. OrderMove(o)
      BY <2>1, <2>2, <2>4, <2>5, Zenon DEF OrderMove
    <2> QED
      BY <1>1, <2>6, OrderTouched, SMTT(30)
  <1> QED
    BY <1>9, <1>10, <1>11, <1>12, <1>13, StepIInv

\* The answer to a refund: the money is back, or will be asked for again.
LEMMA RefundAnswerIInv ==
  ASSUME IInv, NEW c \in Calls, RefundSucceeded(c) \/ RefundFailed(c)
  PROVE  IInv'
  <1>1. PICK o \in Orders :
          /\ o = call[c].order /\ Exists(o) /\ OrderOK(o)
          /\ pc[c] = "refunding"
          /\ resv[order[o].reservation] \in Released
          /\ PaidBy(o, call[c].txn)
    BY DEF RefundSucceeded, RefundFailed, IInv, CallOK, Active, Compensating, HoldOf
  <1> DEFINE x == [txn |-> call[c].txn, order |-> o, attempt |-> call[c].attempt]
  <1>2. order[o] \in OrderRecord
    BY DEF IInv, TypeOK
  <1>3. PICK new \in OrderRecord :
          /\ order' = [order EXCEPT ![o] = new]
          /\ new.reservation = order[o].reservation
          /\ new.attempts = order[o].attempts
          /\ new.txn = order[o].txn
          /\ new.status \in {"CANCELLED_REFUNDED", "COMPENSATION_PENDING"}
    <2>1. CASE RefundSucceeded(c)
      <3>1. /\ Compensated(order[o]).txn = order[o].txn
            /\ Compensated(order[o]).status = "CANCELLED_REFUNDED"
        BY <1>2 DEF Compensated, OrderRecord
      <3> QED
        BY <1>1, <1>2, <2>1, <3>1, OrderOperations, Zenon DEF RefundSucceeded
    <2>2. CASE RefundFailed(c)
      <3>1. /\ CompensationFailed(order[o]).txn = order[o].txn
            /\ CompensationFailed(order[o]).status = "COMPENSATION_PENDING"
        BY <1>2 DEF CompensationFailed, OrderRecord
      <3> QED
        BY <1>1, <1>2, <2>2, <3>1, OrderOperations, Zenon DEF RefundFailed
    <2> QED
      BY <2>1, <2>2
  <1>4. /\ refunds' \in {refunds, refunds \cup {x}}
        /\ pc' = [pc EXCEPT ![c] = "done"]
        /\ UNCHANGED <<now, resv, call, processed, charge>>
    BY <1>1 DEF RefundSucceeded, RefundFailed, Execute, Goto
  <1>5. x \in Refund /\ x.txn = call[c].txn /\ x.order = o
    BY <1>1 DEF IInv, TypeOK, CallRecord, Refund, PaidBy
  <1> HIDE DEF x
  <1>6. /\ order'[o] = new /\ pc'[c] = "done"
        /\ \A p \in Orders : p # o => order'[p] = order[p]
        /\ \A d \in Calls : d # c => pc'[d] = pc[d]
    BY <1>3, <1>4 DEF IInv, TypeOK
  <1>7. TypeOK'
    BY <1>3, <1>4, <1>5, SMTT(30) DEF IInv, TypeOK, PC
  <1>8. Frame(c, o)
    BY <1>1, <1>3, <1>4, <1>6, SMTT(30) DEF Frame, Exists
  <1>9. HoldsMove(o) /\ RefundsMove(o)
    BY <1>1, <1>4, <1>5, <1>6, SMTT(30) DEF HoldsMove, RefundsMove, Released
  <1>10. CallOK(c)'
    BY <1>1, <1>4, <1>6, <1>8 DEF CallOK, Active, Exists, Compensating, Frame
  <1>11. OrderOK(o)'
    <2>1. \A t \in Calls : PaidBy(o, t) => PaidNow(o, t)
      BY <1>4 DEF PaidBy, PaidNow
    <2>2. /\ order'[o].status \notin {"NONE", "CANCELLED", "CONFIRMED"}
          /\ order'[o].txn = order[o].txn
          /\ order'[o].reservation = order[o].reservation
          /\ order'[o].attempts = order[o].attempts
      BY <1>3, <1>6, SMTT(30)
    <2>3. OrderMove(o)
      BY <1>4, <2>1, <2>2 DEF OrderMove
    <2> QED
      BY <1>1, <2>3, OrderTouched
  <1> QED
    BY <1>7, <1>8, <1>9, <1>10, <1>11, StepIInv
=============================================================================
