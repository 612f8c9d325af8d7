------------------------- MODULE OrderPaymentProofs -------------------------
(***************************************************************************)
(* The safety properties of OrderPayment, for any numbers of reservations, *)
(* orders, calls and keys.                                                 *)
(***************************************************************************)
EXTENDS OrderPaymentSteps

\* What a webhook about transaction t may do to its order and to the holds.
WebhookMove(o, t, new) ==
  /\ order' = [order EXCEPT ![o] = new]
  /\ new.reservation = order[o].reservation
  /\ new.attempts = order[o].attempts
  /\ \/ new.txn = order[o].txn
     \/ new.txn = t /\ charge[t] = "captured"
  /\ \/ new.status = order[o].status
     \/ /\ order[o].status # "CONFIRMED"
        /\ \/ new.status \in {"PAYMENT_DECLINED", "REFUND_REQUIRED"}
           \/ new.status = "CONFIRMED" /\ new.txn = t
  /\ \A r \in Reservations :
       \/ resv'[r] = resv[r]
       \/ resv[r] = "PAYMENT_PENDING" /\ resv'[r] = "PENDING"
       \/ /\ r = HoldOf(o) /\ new.status = "CONFIRMED"
          /\ resv[r] \in Held /\ resv'[r] = "CONFIRMED"
  /\ resv' \in [Reservations -> ReservationStatus]

\* A webhook ends in the step that handles it.  Whatever it does to its order
\* (nothing, a decline, a confirmation, REFUND_REQUIRED), it keeps the
\* reservation and the attempts, and a transaction it writes was captured.
LEMMA WebhookIInv ==
  ASSUME IInv, NEW c \in Calls,
         WebhookAfterConfirmation(c) \/ WebhookSuccess(c) \/ WebhookDecline(c)
  PROVE  IInv'
  <1>0. pc[c] = "hook"
    BY DEF WebhookAfterConfirmation, WebhookSuccess, WebhookDecline
  <1>1. PICK o \in Orders, t \in Calls :
          /\ o = call[c].order /\ Exists(o) /\ OrderOK(o)
          /\ t = call[c].txn /\ call[t].order = o
    BY <1>0 DEF IInv, CallOK, Active
  <1>2. /\ pc' = [pc EXCEPT ![c] = "done"]
        /\ processed' \in {processed, processed \cup {t}}
        /\ UNCHANGED <<now, call, charge, refunds>>
    BY <1>1 DEF WebhookAfterConfirmation, WebhookSuccess, WebhookDecline, WebhookEnds,
       Goto, MarkProcessed, provider
  <1>3. order[o] \in OrderRecord
    BY DEF IInv, TypeOK
  <1>4. PICK new \in OrderRecord : WebhookMove(o, t, new)
    <2>1. CASE WebhookAfterConfirmation(c)
      <3>1. WebhookMove(o, t, order[o])
        BY <1>1, <1>3, <2>1 DEF WebhookMove, WebhookAfterConfirmation, entities, IInv, TypeOK
      <3> QED
        BY <1>3, <3>1
    <2>2. CASE WebhookDecline(c)
      <3>1. Decline(o, order[o]) /\ order[o].status # "CONFIRMED"
        BY <1>1, <2>2, Zenon DEF WebhookDecline
      <3>2. TypeOK /\ order[o].reservation \in Reservations
        BY <1>1 DEF IInv, OrderOK, HoldOf
      <3>3. PICK new \in OrderRecord :
               /\ order' = [order EXCEPT ![o] = new]
               /\ new.reservation = order[o].reservation
               /\ new.attempts = order[o].attempts
               /\ new.txn = order[o].txn
               /\ \/ new.status = order[o].status
                  \/ order[o].status = "PAYMENT_PENDING" /\ new.status = "PAYMENT_DECLINED"
               /\ resv' \in [Reservations -> ReservationStatus]
               /\ \A r \in Reservations : resv'[r] = resv[r] \/
                    (resv[r] = "PAYMENT_PENDING" /\ resv'[r] = "PENDING")
        BY <1>3, <3>1, <3>2, DeclineEffect
      <3>4. WebhookMove(o, t, new)
        BY <3>1, <3>3, Zenon DEF WebhookMove
      <3> QED
        BY <3>4
    <2>3. CASE WebhookSuccess(c)
      <3>1. charge[t] = "captured" /\ order[o].status # "CONFIRMED"
        BY <1>1, <2>3, Zenon DEF WebhookSuccess
      <3>2. CASE order' = [order EXCEPT ![o] = MarkRefundRequired(order[o], t)] /\ resv' = resv
        <4> DEFINE new == MarkRefundRequired(order[o], t)
        <4>1. /\ new \in OrderRecord
              /\ new.reservation = order[o].reservation
              /\ new.attempts = order[o].attempts
          BY <1>3, OrderOperations
        <4>2. new.txn = t /\ new.status = "REFUND_REQUIRED"
          BY <1>3 DEF MarkRefundRequired, OrderRecord
        <4>3. resv' \in [Reservations -> ReservationStatus]
          BY <3>2 DEF IInv, TypeOK
        <4> HIDE DEF new
        <4>4. WebhookMove(o, t, new)
          BY <3>1, <3>2, <4>1, <4>2, <4>3, Zenon DEF WebhookMove, new
        <4> QED
          BY <4>1, <4>4
      <3>3. CASE Confirm(o, t)
        <4>1. TypeOK /\ HoldOf(o) \in Reservations
          BY <1>1 DEF IInv, OrderOK
        <4>2. PICK new \in OrderRecord :
                 /\ order' = [order EXCEPT ![o] = new]
                 /\ new.reservation = order[o].reservation
                 /\ new.attempts = order[o].attempts
                 /\ \/ new = order[o]
                    \/ new.status = "CONFIRMED" /\ new.txn = t
                 /\ resv' \in [Reservations -> ReservationStatus]
                 /\ \A r \in Reservations : resv'[r] = resv[r] \/
                      ( /\ r = HoldOf(o) /\ new.status = "CONFIRMED"
                        /\ resv[r] \in Held /\ resv'[r] = "CONFIRMED" )
          BY <3>3, <4>1, ConfirmEffect
        <4>3. WebhookMove(o, t, new)
          BY <3>1, <4>2, Zenon DEF WebhookMove
        <4> QED
          BY <4>3
      <3> QED
        BY <1>1, <2>3, <3>2, <3>3, Zenon DEF WebhookSuccess
    <2> QED
      BY <2>1, <2>2, <2>3
  <1>5. /\ order'[o] = new /\ pc'[c] = "done"
        /\ \A p \in Orders : p # o => order'[p] = order[p]
        /\ \A d \in Calls : d # c => pc'[d] = pc[d]
    BY <1>2, <1>4 DEF WebhookMove, IInv, TypeOK
  <1>6. TypeOK'
    BY <1>2, <1>4 DEF WebhookMove, IInv, TypeOK, PC
  <1>7. Frame(c, o)
    BY <1>1, <1>2, <1>4, <1>5 DEF WebhookMove, Frame, Exists
  <1>8. HoldsMove(o) /\ RefundsMove(o)
    BY <1>2, <1>4, <1>5 DEF WebhookMove, HoldsMove, RefundsMove, Released, Held, HoldOf
  <1>9. CallOK(c)'
    BY <1>1, <1>2, <1>5, <1>7 DEF CallOK, Active, Exists, Compensating, Frame
  <1>10. OrderOK(o)'
    <2>1. \A d \in Calls : PaidBy(o, d) => PaidNow(o, d)
      BY <1>2 DEF PaidBy, PaidNow
    <2>2. order'[o].attempts = order[o].attempts
      BY <1>4, <1>5 DEF WebhookMove
    <2>3. order'[o].status = "CANCELLED" =>
            /\ order[o].status = "CANCELLED"
            /\ \A d \in Calls : PaidBy(o, d) /\ Pending(d) => PendingNow(d)
      BY <1>0, <1>4, <1>5 DEF WebhookMove, Pending, PendingNow, Compensating
    <2>4. charge[t] = "captured" => PaidNow(o, t)
      BY <1>1, <1>2, SMTT(30) DEF PaidNow
    <2>5. Exists(o) /\ (order[o].status = "CONFIRMED" => order[o].txn # None)
      BY <1>1 DEF OrderOK
    <2>6. /\ order'[o].status # "NONE"
          /\ order'[o].txn = order[o].txn \/ PaidNow(o, order'[o].txn)
          /\ order'[o].reservation = order[o].reservation
          /\ order'[o].status = "CONFIRMED" => order'[o].txn # None
      BY <1>4, <1>5, <2>4, <2>5, CallsAssumption DEF WebhookMove, Exists
    <2>7. \A r \in Reservations : resv[r] \in Released => resv'[r] \in Released
      BY <1>8 DEF HoldsMove
    <2>8. OrderMove(o)
      BY <2>1, <2>2, <2>3, <2>6, <2>7, Zenon DEF OrderMove
    <2> QED
      BY <1>1, <2>8, OrderTouched
  <1> QED
    BY <1>6, <1>7, <1>8, <1>9, <1>10, StepIInv

-----------------------------------------------------------------------------
LEMMA NextIInv == IInv /\ [Next]_vars => IInv'
  <1> SUFFICES ASSUME IInv, [Next]_vars PROVE IInv'
    OBVIOUS
  <1>1. CASE Tick
    BY <1>1, TickIInv
  <1>2. CASE \E r \in Reservations : Expire(r)
    BY <1>2, ExpireIInv
  <1>3. CASE \E o \in Orders, r \in Reservations : InitiateCheckout(o, r)
    BY <1>3, InitiateCheckoutIInv
  <1>4. CASE \E c \in Calls, outcome \in {"captured", "refused"} : DecideCharge(c, outcome)
    BY <1>4, DecideChargeIInv
  <1>5. CASE \E c \in Calls : Start(c)
    BY <1>5, ProcessPaymentIInv, CallStepIInv DEF Start
  <1>6. CASE \E c \in Calls : Resume(c)
    BY <1>6, ChargeSucceededIInv, ChargeRefusedIInv, ChargeTimedOutIInv,
       IssueTicketsIInv, CallStepIInv, CheckCompensatedIInv, ReleaseHoldIInv,
       CancelUnpaidIInv, RefundAnswerIInv, WebhookIInv, SMTT(30) DEF Resume
  <1>7. CASE UNCHANGED vars
    <2> USE <1>7 DEF vars
    <2>1. TypeOK' /\ RefundIsOwed' /\ SoldHasOrder'
      BY DEF IInv, TypeOK, RefundIsOwed, SoldHasOrder, HoldOf, PaidBy
    <2>2. ASSUME NEW c \in Calls PROVE CallOK(c)'
      BY SMTT(30) DEF IInv, CallOK, Active, Exists, HoldOf, Compensating, PaidBy
    <2>3. ASSUME NEW o \in Orders PROVE OrderOK(o)'
      BY DEF IInv, OrderOK, Exists, HoldOf, Pending, Compensating, PaidBy
    <2> QED
      BY <2>1, <2>2, <2>3 DEF IInv
  <1> QED
    BY <1>1, <1>2, <1>3, <1>4, <1>5, <1>6, <1>7 DEF Next

LEMMA Invariance == Spec => []IInv
  BY InitIInv, NextIInv, PTL DEF Spec

\* Every field keeps its type, in particular a throw in the middle of a handler
\* leaves statuses the entities know.
THEOREM TypeCorrect == Spec => []TypeOK
  <1>1. IInv => TypeOK
    BY DEF IInv
  <1> QED
    BY Invariance, <1>1, PTL

\* Sold tickets are paid for, and no refund of their order is or was under way.
THEOREM SoldTicketsArePaid == Spec => []SoldIsPaid
  <1>1. IInv => SoldIsPaid
    <2> SUFFICES ASSUME IInv, NEW r \in Reservations, resv[r] = "CONFIRMED"
                 PROVE  \E o \in Orders :
                          /\ HoldOf(o) = r
                          /\ order[o].status = "CONFIRMED"
                          /\ PaidBy(o, order[o].txn)
                          /\ \A x \in refunds : x.order # o
                          /\ \A c \in Calls : call[c].order = o => pc[c] # "refunding"
      BY DEF SoldIsPaid
    <2>1. PICK o \in Orders : HoldOf(o) = r /\ order[o].status = "CONFIRMED"
      BY DEF IInv, SoldHasOrder
    <2>2. PaidBy(o, order[o].txn)
      BY <2>1 DEF IInv, OrderOK
    <2>3. \A x \in refunds : x.order # o
      BY <2>1 DEF IInv, RefundIsOwed, Released
    <2>4. \A c \in Calls : call[c].order = o => pc[c] # "refunding"
      BY <2>1 DEF IInv, CallOK, Released
    <2> QED
      BY <2>1, <2>2, <2>3, <2>4
  <1> QED
    BY Invariance, <1>1, PTL

\* Every executed refund returns money captured for the same order, whose hold
\* has been released.
THEOREM RefundsAreOwed == Spec => []RefundIsOwed
  <1>1. IInv => RefundIsOwed
    BY DEF IInv
  <1> QED
    BY Invariance, <1>1, PTL

\* An order at rest in CANCELLED has taken no money.
THEOREM CancelledOrdersOweNothing == Spec => []CancelledOwesNothing
  <1>1. IInv => CancelledOwesNothing
    <2> SUFFICES ASSUME IInv, NEW o \in Orders, order[o].status = "CANCELLED",
                        Quiet(o), NEW i \in DOMAIN order[o].attempts,
                        order[o].attempts[i].txn # None
                 PROVE  FALSE
      BY DEF CancelledOwesNothing, NoSuccess
    <2>1. PaidBy(o, order[o].attempts[i].txn)
      BY DEF IInv, OrderOK
    <2> QED
      BY <2>1 DEF IInv, OrderOK, PaidBy, Quiet, Pending, Compensating
  <1> QED
    BY Invariance, <1>1, PTL

\* No step undoes a sale or changes a released hold; the entities only change
\* in the steps named here.
LEMMA NextSaleKept == IInv /\ Next => SaleKept
  <1> SUFFICES ASSUME IInv, Next PROVE SaleKept
    OBVIOUS
  <1> USE DEF IInv
  <1>1. ASSUME resv' = resv, order' = order
        PROVE  SaleKept
    BY <1>1 DEF SaleKept
  <1>2. ASSUME NEW r \in Reservations, Expire(r)
        PROVE  SaleKept
    BY <1>2 DEF Expire, CanExpire, SaleKept, Held, TypeOK
  <1>3. ASSUME NEW o \in Orders, NEW r \in Reservations, InitiateCheckout(o, r)
        PROVE  SaleKept
    BY <1>3 DEF InitiateCheckout, CanStartPayment, SaleKept, Held, TypeOK, Exists
  <1>4. ASSUME NEW o \in Orders, NEW new, order' = [order EXCEPT ![o] = new],
               \/ new.status = order[o].status /\ new.txn = order[o].txn
               \/ order[o].status # "CONFIRMED"
               \/ resv[HoldOf(o)] # "CONFIRMED",
               \A r \in Reservations : resv[r] \notin Held => resv'[r] = resv[r]
        PROVE  SaleKept
    BY <1>4 DEF SaleKept, TypeOK
  <1>5. ASSUME NEW o \in Orders, NEW ord \in OrderRecord, Decline(o, ord),
               ord.reservation \in Reservations,
               ord.status = order[o].status, ord.txn = order[o].txn
        PROVE  SaleKept
    <2>1. PICK new \in OrderRecord :
           /\ order' = [order EXCEPT ![o] = new]
           /\ new.txn = ord.txn
           /\ \/ new.status = ord.status
              \/ ord.status = "PAYMENT_PENDING" /\ new.status = "PAYMENT_DECLINED"
           /\ \A r \in Reservations : resv'[r] = resv[r] \/
                (resv[r] = "PAYMENT_PENDING" /\ resv'[r] = "PENDING")
      BY <1>5, DeclineEffect
    <2>2. \A r \in Reservations : resv[r] \notin Held => resv'[r] = resv[r]
      BY <2>1 DEF Held
    <2> QED
      BY <1>4, <1>5, <2>1, <2>2, Zenon
  <1>6. ASSUME NEW o \in Orders, NEW t \in Calls, Confirm(o, t)
        PROVE  SaleKept
    <2> DEFINE new == IF CanConfirmOrder(order[o]) THEN ConfirmOrder(order[o], t) ELSE order[o]
    <2>1. order' = [order EXCEPT ![o] = new]
      BY <1>6 DEF Confirm
    <2>2. order[o].status = "CONFIRMED" => new = order[o]
      BY DEF ConfirmOrder
    <2>3. \A r \in Reservations : resv[r] \notin Held => resv'[r] = resv[r]
      BY <1>6 DEF Confirm, ConfirmThrows, CanConfirmReservation, TypeOK
    <2> HIDE DEF new
    <2> QED
      BY <1>4, <2>1, <2>2, <2>3, Zenon
  <1>7. ASSUME NEW c \in Calls, Start(c)
        PROVE  SaleKept
    <2>1. ASSUME NEW o \in Orders, NEW k \in Keys, ProcessPayment(c, o, k)
          PROVE  SaleKept
      BY <1>4, <2>1, Zenon DEF ProcessPayment
    <2> QED
      BY <1>1, <1>7, <2>1, Zenon DEF Start, CompensateOrder, RetryCompensation,
         ReceiveWebhook, entities
  <1>8. ASSUME NEW c \in Calls, Resume(c)
        PROVE  SaleKept
    <2> DEFINE o == call[c].order
    <2>1. CASE ChargeSucceeded(c) \/ ChargeTimedOut(c)
      <3>1. o \in Orders /\ call[c].key \in Keys
        BY <2>1 DEF ChargeSucceeded, ChargeTimedOut, CallOK, Active
      <3>2. order[o] \in OrderRecord
        BY <3>1 DEF TypeOK
      <3>3. PICK t \in Calls \cup {None} :
              order' = [order EXCEPT ![o] = RecordPaymentAttempt(order[o], call[c].key, t)]
        BY <2>1 DEF ChargeSucceeded, ChargeTimedOut
      <3>4. /\ RecordPaymentAttempt(order[o], call[c].key, t).status = order[o].status
            /\ RecordPaymentAttempt(order[o], call[c].key, t).txn = order[o].txn
        BY <3>1, <3>2, AttemptRecorded
      <3>5. resv' = resv
        BY <2>1 DEF ChargeSucceeded, ChargeTimedOut
      <3> QED
        BY <1>4, <3>1, <3>3, <3>4, <3>5, Zenon
    <2>2. CASE ChargeRefused(c)
      <3>1. /\ o \in Orders /\ call[c].key \in Keys
            /\ order[o].reservation \in Reservations
        BY <2>2 DEF ChargeRefused, CallOK, OrderOK, Active, HoldOf
      <3>2. order[o] \in OrderRecord
        BY <3>1 DEF TypeOK
      <3> DEFINE ord == RecordPaymentAttempt(order[o], call[c].key, None)
      <3>3. /\ ord \in OrderRecord
            /\ ord.reservation = order[o].reservation
            /\ ord.status = order[o].status
            /\ ord.txn = order[o].txn
        BY <3>1, <3>2, AttemptRecorded
      <3>4. Decline(o, ord)
        BY <2>2 DEF ChargeRefused
      <3> HIDE DEF ord
      <3> QED
        BY <1>5, <3>1, <3>3, <3>4
    <2>3. CASE IssueTickets(c)
      BY <1>6, <2>3 DEF IssueTickets, CallOK, Active
    <2>4. CASE ReleaseHold(c)
      BY <2>4 DEF ReleaseHold, CanCancelReservation, SaleKept, TypeOK
    <2>5. CASE CancelUnpaid(c)
      <3>1. o \in Orders
        BY <2>5 DEF CancelUnpaid, HoldReleased, CallOK, Active
      <3> QED
        BY <1>4, <2>5, <3>1, Zenon DEF CancelUnpaid, CanCancelOrder
    <2>6. CASE RefundSucceeded(c) \/ RefundFailed(c)
      <3>1. o \in Orders /\ resv[HoldOf(o)] # "CONFIRMED"
        BY <2>6 DEF RefundSucceeded, RefundFailed, CallOK, Active, Released
      <3> QED
        BY <1>4, <2>6, <3>1, Zenon DEF RefundSucceeded, RefundFailed
    <2>7. CASE WebhookSuccess(c)
      <3>1. /\ o \in Orders /\ call[c].txn \in Calls
            /\ order[o].status # "CONFIRMED"
        BY <2>7 DEF WebhookSuccess, CallOK, Active
      <3> QED
        BY <1>4, <1>6, <2>7, <3>1, Zenon DEF WebhookSuccess
    <2>8. CASE WebhookDecline(c)
      <3>1. /\ o \in Orders /\ order[o] \in OrderRecord
            /\ order[o].reservation \in Reservations
        BY <2>8 DEF WebhookDecline, CallOK, OrderOK, Active, HoldOf, TypeOK
      <3> QED
        BY <1>5, <2>8, <3>1, SMTT(30) DEF WebhookDecline
    <2>9. CASE \/ IssuerFails(c) \/ CheckCompensated(c)
               \/ WebhookAfterConfirmation(c)
               \/ \E txn \in Calls : RequestRefund(c, txn)
      BY <1>1, <2>9, Zenon DEF IssuerFails, CheckCompensated, WebhookAfterConfirmation,
         RequestRefund, entities
    <2> QED
      BY <1>8, <2>1, <2>2, <2>3, <2>4, <2>5, <2>6, <2>7, <2>8, <2>9 DEF Resume
  <1>9. CASE Tick \/ \E c \in Calls, outcome \in {"captured", "refused"} : DecideCharge(c, outcome)
    BY <1>1, <1>9 DEF Tick, DecideCharge, entities
  <1> QED
    BY <1>2, <1>3, <1>7, <1>8, <1>9 DEF Next

\* A sale and a release are final: no later webhook, decline, retry or
\* compensation changes the hold, or the order that bought it.
THEOREM SalesAreFinal == Spec => SaleIsFinal
  <1>1. IInv /\ [Next]_vars => [SaleKept]_vars
    BY NextSaleKept
  <1> QED
    BY Invariance, <1>1, PTL DEF Spec, SaleIsFinal
-----------------------------------------------------------------------------
(* The record of compensation attempts.                                    *)

\* A refund under way is the next attempt, or one recorded meanwhile.
RefundCounted(c) ==
  pc[c] = "refunding" => call[c].attempt \in 1 .. order[call[c].order].compensations + 1

RInv == RefundIsRecorded /\ \A c \in Calls : RefundCounted(c)

\* Every refund, executed or under way, is of an order that exists.
LEMMA RefundsExist ==
  ASSUME IInv
  PROVE  /\ \A x \in refunds : x.order \in Orders /\ Exists(x.order)
         /\ \A c \in Calls : pc[c] = "refunding" =>
              call[c].order \in Orders /\ Exists(call[c].order)
  <1>1. ASSUME NEW x \in refunds PROVE x.order \in Orders /\ Exists(x.order)
    <2>1. x.txn \in Calls /\ charge[x.txn] = "captured" /\ call[x.txn].order = x.order
      BY DEF IInv, RefundIsOwed, PaidBy
    <2> QED
      BY <2>1 DEF IInv, CallOK
  <1> QED
    BY <1>1 DEF IInv, CallOK, Active

\* A step that executes and requests no refund, and keeps the record.
LEMMA RecordKept ==
  ASSUME IInv, RInv, refunds' = refunds,
         \A c \in Calls : pc'[c] = "refunding" => pc[c] = "refunding" /\ call'[c] = call[c],
         \A o \in Orders : Exists(o) => order'[o].compensations = order[o].compensations
  PROVE  RInv'
  BY RefundsExist DEF RInv, RefundIsRecorded, RefundCounted

\* The same, when the step changes an order.
LEMMA OrderRecordKept ==
  ASSUME IInv, RInv, refunds' = refunds,
         \A c \in Calls : pc'[c] = "refunding" => pc[c] = "refunding" /\ call'[c] = call[c],
         NEW o \in Orders, NEW new, order' = [order EXCEPT ![o] = new],
         Exists(o) => new.compensations = order[o].compensations
  PROVE  RInv'
  <1>1. \A p \in Orders : Exists(p) => order'[p].compensations = order[p].compensations
    BY DEF IInv, TypeOK
  <1> QED
    BY <1>1, RecordKept

LEMMA NextRInv == IInv /\ RInv /\ Next => RInv'
  <1> SUFFICES ASSUME IInv, RInv, Next PROVE RInv'
    OBVIOUS
  <1>0. /\ pc \in [Calls -> PC] /\ call \in [Calls -> CallRecord]
        /\ order \in [Orders -> OrderRecord] /\ refunds \subseteq Refund
    BY DEF IInv, TypeOK
  <1>1. ASSUME NEW o \in Orders
        PROVE  /\ RetryPayment(order[o]).compensations = order[o].compensations
               /\ \A ord \in OrderRecord :
                    MarkPaymentDeclined(ord).compensations = ord.compensations
               /\ CancelOrder(order[o]).compensations = order[o].compensations
               /\ \A t \in Calls :
                    /\ ConfirmOrder(order[o], t).compensations = order[o].compensations
                    /\ MarkRefundRequired(order[o], t).compensations = order[o].compensations
    BY <1>0 DEF RetryPayment, MarkPaymentDeclined, CancelOrder, ConfirmOrder,
       MarkRefundRequired, OrderRecord
  <1>2. CASE \/ Tick \/ \E r \in Reservations : Expire(r)
             \/ \E c \in Calls, outcome \in {"captured", "refused"} : DecideCharge(c, outcome)
    BY <1>2, RecordKept DEF Tick, Expire, DecideCharge, entities, provider
  <1>3. ASSUME NEW o \in Orders, NEW r \in Reservations, InitiateCheckout(o, r)
        PROVE  RInv'
    BY <1>3, OrderRecordKept, Zenon DEF InitiateCheckout, provider
  <1>4. ASSUME NEW c \in Calls, Start(c)
        PROVE  RInv'
    <2>0. \A d \in Calls : pc'[d] = "refunding" => pc[d] = "refunding" /\ call'[d] = call[d]
      BY <1>0, <1>4 DEF Start, ProcessPayment, CompensateOrder, RetryCompensation,
         ReceiveWebhook, Goto, MayStart
    <2>1. ASSUME NEW o \in Orders, NEW k \in Keys, ProcessPayment(c, o, k)
          PROVE  RInv'
      BY <1>1, <2>0, <2>1, OrderRecordKept, Zenon DEF ProcessPayment
    <2> QED
      BY <1>4, <2>0, <2>1, RecordKept, Zenon DEF Start, CompensateOrder,
         RetryCompensation, ReceiveWebhook, entities, provider
  <1>5. ASSUME NEW c \in Calls, Resume(c)
        PROVE  RInv'
    <2> DEFINE o == call[c].order
    <2>1. pc[c] \notin {"idle", "done"} => o \in Orders /\ order[o] \in OrderRecord
      BY <1>0 DEF IInv, CallOK, Active
    <2>2. CASE \E txn \in Calls : RequestRefund(c, txn)
      <3>1. /\ o \in Orders /\ order' = order /\ refunds' = refunds
            /\ pc' = [pc EXCEPT ![c] = "refunding"]
            /\ \E txn \in Calls :
                 call' = [call EXCEPT ![c].txn = txn,
                                      ![c].attempt = order[o].compensations + 1]
        BY <2>1, <2>2 DEF RequestRefund, HoldReleased, Goto, entities, provider
      <3>2. order[o].compensations \in Nat
        BY <1>0, <3>1 DEF OrderRecord
      <3>3. call'[c].order = o /\ call'[c].attempt = order[o].compensations + 1
        BY <1>0, <3>1 DEF CallRecord
      <3>4. ASSUME NEW d \in Calls PROVE RefundCounted(d)'
        BY <1>0, <3>1, <3>2, <3>3, <3>4 DEF RInv, RefundCounted
      <3> QED
        BY <3>1, <3>4 DEF RInv, RefundIsRecorded
    <2>3. CASE RefundSucceeded(c) \/ RefundFailed(c)
      <3>1. /\ pc[c] = "refunding" /\ o \in Orders /\ call' = call
            /\ pc' = [pc EXCEPT ![c] = "done"]
            /\ \A x \in refunds' : x \in refunds \/ (x.order = o /\ x.attempt = call[c].attempt)
        BY <2>1, <2>3 DEF RefundSucceeded, RefundFailed, Execute, Goto
      <3>2. PICK new \in {Compensated(order[o]), CompensationFailed(order[o])} :
              order' = [order EXCEPT ![o] = new]
        BY <2>3 DEF RefundSucceeded, RefundFailed
      <3>3. new.compensations = order[o].compensations + 1
        BY <1>0, <3>1, <3>2 DEF Compensated, CompensationFailed, OrderRecord
      <3>4. \A p \in Orders :
              /\ order[p].compensations \in Nat
              /\ order'[p].compensations = IF p = o THEN order[p].compensations + 1
                                                   ELSE order[p].compensations
        BY <1>0, <3>1, <3>2, <3>3 DEF OrderRecord
      <3>5. RefundIsRecorded'
        BY <3>1, <3>4, RefundsExist DEF RInv, RefundIsRecorded, RefundCounted
      <3>6. ASSUME NEW d \in Calls PROVE RefundCounted(d)'
        BY <1>0, <3>1, <3>4, <3>6, RefundsExist DEF RInv, RefundCounted
      <3> QED
        BY <3>5, <3>6 DEF RInv
    <2>5. CASE \/ IssuerFails(c) \/ CheckCompensated(c) \/ ReleaseHold(c)
               \/ WebhookAfterConfirmation(c)
      <3>1. refunds' = refunds /\ order' = order
        BY <2>5 DEF IssuerFails, CheckCompensated, ReleaseHold, WebhookAfterConfirmation,
           WebhookEnds, entities, provider
      <3>2. \A d \in Calls : pc'[d] = "refunding" => pc[d] = "refunding" /\ call'[d] = call[d]
        BY <1>0, <2>5 DEF IssuerFails, CheckCompensated, ReleaseHold,
           WebhookAfterConfirmation, WebhookEnds, Goto
      <3> QED
        BY <3>1, <3>2, RecordKept
    <2>6. CASE \/ ChargeSucceeded(c) \/ ChargeTimedOut(c) \/ ChargeRefused(c)
               \/ IssueTickets(c) \/ CancelUnpaid(c) \/ WebhookSuccess(c) \/ WebhookDecline(c)
      <3>1. o \in Orders /\ order[o] \in OrderRecord /\ (pc[c] = "charging" => call[c].key \in Keys)
        BY <2>1, <2>6 DEF ChargeSucceeded, ChargeTimedOut, ChargeRefused, IssueTickets,
           CancelUnpaid, HoldReleased, WebhookSuccess, WebhookDecline, IInv, CallOK
      <3>2. refunds' = refunds
        BY <2>6 DEF ChargeSucceeded, ChargeTimedOut, ChargeRefused, IssueTickets,
           CancelUnpaid, WebhookSuccess, WebhookDecline, WebhookEnds, provider
      <3>3. \A d \in Calls : pc'[d] = "refunding" => pc[d] = "refunding" /\ call'[d] = call[d]
        BY <1>0, <2>6 DEF ChargeSucceeded, ChargeTimedOut, ChargeRefused, IssueTickets,
           CancelUnpaid, WebhookSuccess, WebhookDecline, WebhookEnds, Goto
      <3>4. ASSUME NEW t \in Calls \cup {None}, pc[c] = "charging"
            PROVE  LET ord == RecordPaymentAttempt(order[o], call[c].key, t) IN
                   ord \in OrderRecord /\ ord.compensations = order[o].compensations
        BY <3>1, <3>4, AttemptRecorded
      <3>5. \E new : order' = [order EXCEPT ![o] = new]
                     /\ new.compensations = order[o].compensations
        <4>1. CASE ChargeSucceeded(c) \/ ChargeTimedOut(c)
          BY <3>4, <4>1 DEF ChargeSucceeded, ChargeTimedOut
        <4>2. CASE ChargeRefused(c)
          <5> DEFINE ord == RecordPaymentAttempt(order[o], call[c].key, None)
                     new == IF CanMarkPaymentDeclined(ord) THEN MarkPaymentDeclined(ord) ELSE ord
          <5>1. ord \in OrderRecord /\ ord.compensations = order[o].compensations
            BY <3>4, <4>2 DEF ChargeRefused
          <5>2. order' = [order EXCEPT ![o] = new]
            BY <4>2 DEF ChargeRefused, Decline
          <5>3. new.compensations = order[o].compensations
            BY <1>1, <3>1, <5>1
          <5> HIDE DEF new
          <5> QED
            BY <5>2, <5>3
        <4>3. CASE IssueTickets(c)
          <5> DEFINE new == IF CanConfirmOrder(order[o]) THEN ConfirmOrder(order[o], c) ELSE order[o]
          <5>1. order' = [order EXCEPT ![o] = new]
            BY <4>3 DEF IssueTickets, Confirm
          <5>2. new.compensations = order[o].compensations
            BY <1>1, <3>1
          <5> HIDE DEF new
          <5> QED
            BY <5>1, <5>2
        <4>6. CASE CancelUnpaid(c)
          BY <1>1, <3>1, <4>6, Zenon DEF CancelUnpaid
        <4>4. CASE WebhookSuccess(c)
          <5>1. call[c].txn \in Calls
            BY <4>4 DEF WebhookSuccess, IInv, CallOK
          <5> QED
            BY <1>1, <3>1, <4>4, <5>1, ZenonT(40) DEF WebhookSuccess, Confirm
        <4>5. CASE WebhookDecline(c)
          BY <1>1, <3>1, <4>5, Zenon DEF WebhookDecline, Decline
        <4> QED
          BY <2>6, <4>1, <4>2, <4>3, <4>4, <4>5, <4>6, SMTT(30)
      <3> QED
        BY <3>1, <3>2, <3>3, <3>5, OrderRecordKept
    <2> QED
      BY <1>5, <2>2, <2>3, <2>5, <2>6 DEF Resume
  <1> QED
    BY <1>2, <1>3, <1>4, <1>5 DEF Next

\* Every refund that the provider executes is on the order's record of
\* compensation attempts, whichever compensations overlap.
THEOREM RefundsAreRecorded == Spec => []RefundIsRecorded
  <1>1. Init => RInv
    BY DEF Init, RInv, RefundIsRecorded, RefundCounted
  <1>2. IInv /\ RInv /\ [Next]_vars => RInv'
    <2>1. RInv /\ UNCHANGED vars => RInv'
      BY DEF vars, RInv, RefundIsRecorded, RefundCounted
    <2> QED
      BY <2>1, NextRInv
  <1>3. RInv => RefundIsRecorded
    BY DEF RInv
  <1> QED
    BY Invariance, <1>1, <1>2, <1>3, PTL DEF Spec
=============================================================================
