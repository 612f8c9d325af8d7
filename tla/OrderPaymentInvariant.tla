----------------------- MODULE OrderPaymentInvariant ------------------------
(***************************************************************************)
(* The inductive invariant behind the safety properties of OrderPayment.   *)
(*                                                                         *)
(* SoldIsPaid is not inductive: nothing in it forbids a refund that is     *)
(* already under way for the order being confirmed.  The strengthening     *)
(* says where the transactions that the entities and the calls remember    *)
(* come from, that a call past the release of the hold finds the hold      *)
(* released, and that a sold hold has a confirmed order.  A released hold  *)
(* is never confirmed and a sold one never released, so no refund can meet *)
(* a sale.  CallOK and OrderOK collect what holds of one call and of one   *)
(* order; a step of the workflow touches one of each (StepIInv).           *)
(***************************************************************************)
EXTENDS OrderPayment, TLAPS

\* The call is between its first await and its end.
Active(c) == pc[c] \notin {"idle", "done"}

\* The calls in the compensation part of the workflow.
Compensating(c) == pc[c] \in {"compensating", "releasing", "refund", "refunding"}

\* A call in flight, and a charge, belong to an order that exists; the
\* transaction it confirms or refunds was captured for that order, a webhook is
\* about a charge for its order; and the hold is given back before money is.
CallOK(c) ==
  /\ Active(c) \/ charge[c] # "none" =>
       call[c].order \in Orders /\ Exists(call[c].order)
  /\ pc[c] = "idle" => charge[c] = "none" /\ call[c].txn = None
  /\ pc[c] = "charging" => call[c].key \in Keys
  /\ pc[c] = "issuing" => charge[c] = "captured"
  /\ Compensating(c) /\ call[c].txn # None => PaidBy(call[c].order, call[c].txn)
  /\ pc[c] = "refunding" => call[c].txn # None
  /\ pc[c] = "hook" =>
       /\ call[c].txn \in Calls
       /\ charge[call[c].txn] # "none"
       /\ call[call[c].txn].order = call[c].order
  /\ pc[c] \in {"refund", "refunding"} => resv[HoldOf(call[c].order)] \in Released

\* The charge of call t is still being looked after by that call.
Pending(t) == pc[t] = "issuing" \/ Compensating(t)

\* Every transaction an order remembers was captured for it; a cancelled
\* order's hold is released, and the call of each of its SUCCESS attempts has
\* not ended.
OrderOK(o) ==
  /\ Exists(o) => HoldOf(o) \in Reservations
  /\ ~Exists(o) => order[o] = NoOrder
  /\ order[o].txn # None => PaidBy(o, order[o].txn)
  /\ order[o].status = "CONFIRMED" => order[o].txn # None
  /\ \A i \in DOMAIN order[o].attempts :
       order[o].attempts[i].txn # None => PaidBy(o, order[o].attempts[i].txn)
  /\ order[o].status = "CANCELLED" =>
       /\ resv[HoldOf(o)] \in Released
       /\ \A i \in DOMAIN order[o].attempts :
            order[o].attempts[i].txn # None => Pending(order[o].attempts[i].txn)

SoldHasOrder ==
  \A r \in Reservations : resv[r] = "CONFIRMED" =>
    \E o \in Orders : HoldOf(o) = r /\ order[o].status = "CONFIRMED"

IInv ==
  /\ TypeOK
  /\ \A c \in Calls : CallOK(c)
  /\ \A o \in Orders : OrderOK(o)
  /\ RefundIsOwed
  /\ SoldHasOrder

-----------------------------------------------------------------------------
(* What the operations of the order entity leave alone.                    *)

\* Appending to the audit trail of attempts (Order.recordPaymentAttempt).
LEMMA AttemptRecorded ==
  ASSUME NEW ord \in OrderRecord, NEW k \in Keys, NEW t \in Calls \cup {None}
  PROVE  LET new == RecordPaymentAttempt(ord, k, t) IN
         /\ new \in OrderRecord
         /\ new.reservation = ord.reservation
         /\ new.status = ord.status
         /\ new.txn = ord.txn
         /\ new.compensations = ord.compensations
         /\ \A i \in DOMAIN new.attempts :
              \/ new.attempts[i].txn = t
              \/ i \in DOMAIN ord.attempts /\ new.attempts[i] = ord.attempts[i]
  <1> DEFINE A == [key : Keys, txn : Calls \cup {None}]
             a == [key |-> k, txn |-> t]
             new == RecordPaymentAttempt(ord, k, t)
  <1>1. a \in A /\ ord.attempts \in Seq(A)
    BY DEF OrderRecord
  <1>2. /\ Append(ord.attempts, a) \in Seq(A)
        /\ \A i \in DOMAIN Append(ord.attempts, a) :
             \/ Append(ord.attempts, a)[i] = a
             \/ /\ i \in DOMAIN ord.attempts
                /\ Append(ord.attempts, a)[i] = ord.attempts[i]
    <2> HIDE DEF A, a
    <2> QED BY <1>1
  <1>3. new = [ord EXCEPT !.attempts = Append(ord.attempts, a)]
    BY DEF RecordPaymentAttempt
  <1>4. new.attempts = Append(ord.attempts, a)
    BY <1>3 DEF OrderRecord
  <1>5. /\ new \in OrderRecord
        /\ new.reservation = ord.reservation
        /\ new.status = ord.status
        /\ new.txn = ord.txn
        /\ new.compensations = ord.compensations
    BY <1>2, <1>3, Zenon DEF OrderRecord
  <1>6. a.txn = t
    OBVIOUS
  <1> HIDE DEF a, new
  <1> QED
    BY <1>2, <1>4, <1>5, <1>6 DEF new

\* The other operations keep the reservation and the attempts.
LEMMA OrderOperations ==
  ASSUME NEW ord \in OrderRecord, NEW t \in Calls,
         NEW new \in {MarkPaymentDeclined(ord), RetryPayment(ord),
                      Compensated(ord), CompensationFailed(ord),
                      CancelOrder(ord), ConfirmOrder(ord, t),
                      MarkRefundRequired(ord, t)}
  PROVE  /\ new \in OrderRecord
         /\ new.reservation = ord.reservation
         /\ new.attempts = ord.attempts
         /\ new.txn \in {t, ord.txn}
  <1> USE DEF OrderRecord, OrderStatus
  <1>1. CASE new = MarkPaymentDeclined(ord)
    BY <1>1 DEF MarkPaymentDeclined
  <1>2. CASE new = RetryPayment(ord)
    BY <1>2 DEF RetryPayment
  <1>3. CASE new = Compensated(ord)
    <2>1. new = [ord EXCEPT !.status = "CANCELLED_REFUNDED",
                            !.compensations = ord.compensations + 1]
      BY <1>3 DEF Compensated
    <2>2. ord.compensations + 1 \in Nat
      OBVIOUS
    <2>3. new \in OrderRecord
      BY <2>1, <2>2, Zenon
    <2> QED
      BY <2>1, <2>3
  <1>4. CASE new = CompensationFailed(ord)
    <2>1. new = [ord EXCEPT !.status = "COMPENSATION_PENDING",
                            !.compensations = ord.compensations + 1]
      BY <1>4 DEF CompensationFailed
    <2>2. ord.compensations + 1 \in Nat
      OBVIOUS
    <2>3. new \in OrderRecord
      BY <2>1, <2>2, Zenon
    <2> QED
      BY <2>1, <2>3
  <1>5. CASE new = CancelOrder(ord)
    BY <1>5 DEF CancelOrder
  <1>6. CASE new = ConfirmOrder(ord, t)
    <2>1. CASE ord.status = "CONFIRMED"
      BY <1>6, <2>1 DEF ConfirmOrder
    <2>2. CASE ord.status # "CONFIRMED"
      <3>1. new = [ord EXCEPT !.status = "CONFIRMED", !.txn = t]
        BY <1>6, <2>2 DEF ConfirmOrder
      <3>2. new \in OrderRecord
        BY <3>1, Zenon
      <3> QED
        BY <3>1, <3>2
    <2> QED
      BY <2>1, <2>2
  <1>7. CASE new = MarkRefundRequired(ord, t)
    <2>1. new = [ord EXCEPT !.status = "REFUND_REQUIRED", !.txn = t]
      BY <1>7 DEF MarkRefundRequired
    <2>2. new \in OrderRecord
      BY <2>1, Zenon
    <2> QED
      BY <2>1, <2>2
  <1> QED
    BY <1>1, <1>2, <1>3, <1>4, <1>5, <1>6, <1>7

\* What a decline does to the entities, through the gateway's answer (233-258,
\* 281-304) or through a webhook (388-394).
LEMMA DeclineEffect ==
  ASSUME TypeOK, NEW o \in Orders, NEW ord \in OrderRecord,
         ord.reservation \in Reservations, Decline(o, ord)
  PROVE  \E new \in OrderRecord :
           /\ order' = [order EXCEPT ![o] = new]
           /\ new.reservation = ord.reservation
           /\ new.attempts = ord.attempts
           /\ new.txn = ord.txn
           /\ \/ new.status = ord.status
              \/ ord.status = "PAYMENT_PENDING" /\ new.status = "PAYMENT_DECLINED"
           /\ resv' \in [Reservations -> ReservationStatus]
           /\ \A r \in Reservations : resv'[r] = resv[r] \/
                (resv[r] = "PAYMENT_PENDING" /\ resv'[r] = "PENDING")
  <1> DEFINE new == IF CanMarkPaymentDeclined(ord)
                      THEN MarkPaymentDeclined(ord) ELSE ord
  <1>1. order' = [order EXCEPT ![o] = new]
    BY DEF Decline
  <1>2. /\ resv' \in [Reservations -> ReservationStatus]
        /\ \A r \in Reservations : resv'[r] = resv[r] \/
             (resv[r] = "PAYMENT_PENDING" /\ resv'[r] = "PENDING")
    BY DEF Decline, DeclineThrows, CanRevertPaymentDecline, TypeOK, ReservationStatus
  <1>3. CASE CanMarkPaymentDeclined(ord)
    <2>1. new = [ord EXCEPT !.status = "PAYMENT_DECLINED"]
      BY <1>3 DEF MarkPaymentDeclined
    <2>2. /\ new \in OrderRecord
          /\ new.reservation = ord.reservation
          /\ new.attempts = ord.attempts
          /\ new.txn = ord.txn
          /\ ord.status = "PAYMENT_PENDING" /\ new.status = "PAYMENT_DECLINED"
      BY <1>3, <2>1 DEF CanMarkPaymentDeclined, OrderRecord, OrderStatus
    <2> HIDE DEF new
    <2> QED
      BY <1>1, <1>2, <2>2, Zenon
  <1>4. CASE ~CanMarkPaymentDeclined(ord)
    <2>1. new = ord
      BY <1>4
    <2> QED
      BY <1>1, <1>2, <2>1, Zenon
  <1> QED
    BY <1>3, <1>4

\* What confirming does to the entities (201-202, 371-372): an entity that
\* throws is left as it was, and only a valid hold is sold.
LEMMA ConfirmEffect ==
  ASSUME TypeOK, NEW o \in Orders, NEW t \in Calls, Confirm(o, t),
         HoldOf(o) \in Reservations
  PROVE  \E new \in OrderRecord :
           /\ order' = [order EXCEPT ![o] = new]
           /\ new.reservation = order[o].reservation
           /\ new.attempts = order[o].attempts
           /\ \/ new = order[o]
              \/ new.status = "CONFIRMED" /\ new.txn = t
           /\ resv' \in [Reservations -> ReservationStatus]
           /\ \A r \in Reservations : resv'[r] = resv[r] \/
                ( /\ r = HoldOf(o) /\ new.status = "CONFIRMED"
                  /\ resv[r] \in Held /\ resv'[r] = "CONFIRMED" )
           /\ ~ConfirmThrows(o) => new.status = "CONFIRMED"
  <1> DEFINE new == IF CanConfirmOrder(order[o])
                      THEN ConfirmOrder(order[o], t) ELSE order[o]
  <1>1. order[o] \in OrderRecord
    BY DEF TypeOK
  <1>2. order' = [order EXCEPT ![o] = new]
    BY DEF Confirm
  <1>3. /\ new \in OrderRecord
        /\ new.reservation = order[o].reservation
        /\ new.attempts = order[o].attempts
    BY <1>1, OrderOperations
  <1>4. \/ new = order[o]
        \/ new.status = "CONFIRMED" /\ new.txn = t
    BY <1>1 DEF ConfirmOrder, OrderRecord
  <1>5. CanConfirmOrder(order[o]) => new.status = "CONFIRMED"
    BY <1>1 DEF ConfirmOrder, OrderRecord
  <1>6. ~ConfirmThrows(o) => CanConfirmOrder(order[o]) /\ resv[HoldOf(o)] \in Held
    BY DEF ConfirmThrows, CanConfirmReservation
  <1>7. /\ resv' \in [Reservations -> ReservationStatus]
        /\ \A r \in Reservations : resv'[r] = resv[r] \/
             ( /\ r = HoldOf(o) /\ ~ConfirmThrows(o)
               /\ resv[r] \in Held /\ resv'[r] = "CONFIRMED" )
    BY <1>6 DEF Confirm, TypeOK, ReservationStatus
  <1> HIDE DEF new
  <1> QED
    BY <1>2, <1>3, <1>4, <1>5, <1>6, <1>7, Zenon

LEMMA InitIInv == Init => IInv
  <1> SUFFICES ASSUME Init PROVE IInv
    OBVIOUS
  <1>0. /\ NoOrder.status = "NONE" /\ NoOrder.txn = None
        /\ NoOrder.attempts = << >> /\ DOMAIN NoOrder.attempts = {}
    BY DEF NoOrder, NewOrder
  <1>1. TypeOK
    <2>1. << >> \in Seq([key : Keys, txn : Calls \cup {None}])
      OBVIOUS
    <2>2. NoOrder \in OrderRecord
      BY <2>1, Zenon DEF OrderRecord, OrderStatus, NoOrder, NewOrder
    <2> QED
      BY <2>2 DEF Init, TypeOK, ReservationStatus, PC, CallRecord, ChargeState
  <1>2. ASSUME NEW c \in Calls PROVE CallOK(c)
    BY DEF Init, CallOK, Active, Compensating
  <1>3. ASSUME NEW o \in Orders PROVE OrderOK(o)
    BY <1>0 DEF Init, OrderOK, Exists
  <1>4. RefundIsOwed /\ SoldHasOrder
    BY DEF Init, RefundIsOwed, SoldHasOrder
  <1> QED
    BY <1>1, <1>2, <1>3, <1>4 DEF IInv

\* What keeps OrderOK of an order that a step does not touch.
LEMMA OrderUntouched ==
  ASSUME NEW o \in Orders, OrderOK(o), order'[o] = order[o],
         \A r \in Reservations : resv[r] \in Released => resv'[r] \in Released,
         \A t \in Calls : charge[t] = "captured" /\ call[t].order = o =>
           /\ charge'[t] = "captured" /\ call'[t].order = o
           /\ order[o].status = "CANCELLED" /\ Pending(t) => Pending(t)'
  PROVE  OrderOK(o)'
  <1>1. (Exists(o) => HoldOf(o) \in Reservations)' /\ (~Exists(o) => order[o] = NoOrder)'
    BY DEF OrderOK, Exists, HoldOf
  <1>2. (order[o].txn # None => PaidBy(o, order[o].txn))'
    BY DEF OrderOK, PaidBy
  <1>3. (order[o].status = "CONFIRMED" => order[o].txn # None)'
    BY SMTT(30) DEF OrderOK
  <1>4. ASSUME NEW i \in DOMAIN order[o].attempts, order[o].attempts[i].txn # None
        PROVE  /\ PaidBy(o, order[o].attempts[i].txn)'
               /\ order[o].status = "CANCELLED" => Pending(order[o].attempts[i].txn)'
    <2>1. PICK t \in Calls : t = order[o].attempts[i].txn /\ PaidBy(o, t)
      BY <1>4 DEF OrderOK, PaidBy
    <2>2. order[o].status = "CANCELLED" => Pending(t)
      BY <1>4, <2>1 DEF OrderOK
    <2>3. t = order'[o].attempts[i].txn
      BY <2>1
    <2> QED
      BY <2>1, <2>2, <2>3 DEF PaidBy, Pending, Compensating
  <1>5. (order[o].status = "CANCELLED" => resv[HoldOf(o)] \in Released)'
    BY SMTT(30) DEF OrderOK, HoldOf, Exists
  <1> QED
    BY <1>1, <1>2, <1>3, <1>4, <1>5 DEF OrderOK

\* PaidBy and Pending of the next state, of a transaction given by its value.
PaidNow(o, t) == t \in Calls /\ charge'[t] = "captured" /\ call'[t].order = o
PendingNow(t) == pc'[t] \in {"issuing", "compensating", "releasing", "refund", "refunding"}

\* What a step may do to the order it touches.
OrderMove(o) ==
  /\ order'[o].status # "NONE"
  /\ order'[o].reservation = order[o].reservation
  /\ order'[o].status = "CONFIRMED" => order'[o].txn # None
  /\ order'[o].txn = order[o].txn \/ PaidNow(o, order'[o].txn)
  /\ \A i \in DOMAIN order'[o].attempts :
       \/ order'[o].attempts[i].txn = None
       \/ /\ i \in DOMAIN order[o].attempts
          /\ order'[o].attempts[i].txn = order[o].attempts[i].txn
       \/ /\ PaidNow(o, order'[o].attempts[i].txn)
          /\ PendingNow(order'[o].attempts[i].txn)
  /\ \A t \in Calls : PaidBy(o, t) => PaidNow(o, t)
  /\ \A r \in Reservations : resv[r] \in Released => resv'[r] \in Released
  /\ order'[o].status = "CANCELLED" =>
       \/ NoSuccess(order'[o]) /\ resv'[order[o].reservation] \in Released
       \/ /\ order[o].status = "CANCELLED"
          /\ \A t \in Calls : PaidBy(o, t) /\ Pending(t) => PendingNow(t)

LEMMA OrderTouched ==
  ASSUME NEW o \in Orders, OrderOK(o), Exists(o), OrderMove(o)
  PROVE  OrderOK(o)'
  <1> USE DEF OrderMove
  <1>1. order[o].reservation \in Reservations
    BY DEF OrderOK, HoldOf
  <1>2. order'[o].txn # None => PaidNow(o, order'[o].txn)
    BY DEF OrderOK, PaidBy
  <1>3. ASSUME NEW i \in DOMAIN order'[o].attempts, order'[o].attempts[i].txn # None
        PROVE  /\ PaidNow(o, order'[o].attempts[i].txn)
               /\ order'[o].status = "CANCELLED" => PendingNow(order'[o].attempts[i].txn)
    <2>1. CASE /\ i \in DOMAIN order[o].attempts
               /\ order'[o].attempts[i].txn = order[o].attempts[i].txn
      <3>1. PICK t \in Calls : t = order[o].attempts[i].txn /\ PaidBy(o, t)
        BY <1>3, <2>1, SMTT(30) DEF OrderOK, PaidBy
      <3>2. order[o].status = "CANCELLED" => Pending(t)
        BY <1>3, <2>1, <3>1 DEF OrderOK
      <3>3. ~NoSuccess(order'[o])
        BY <1>3 DEF NoSuccess
      <3> QED
        BY <2>1, <3>1, <3>2, <3>3, SMTT(30)
    <2> QED
      BY <1>3, <2>1
  <1>4. order'[o].status = "CANCELLED" => resv'[order[o].reservation] \in Released
    BY <1>1 DEF OrderOK, HoldOf
  <1>5. (order[o].status = "CANCELLED" =>
           /\ resv[HoldOf(o)] \in Released
           /\ \A i \in DOMAIN order[o].attempts :
                order[o].attempts[i].txn # None => Pending(order[o].attempts[i].txn))'
    BY <1>3, <1>4, SMTT(30) DEF HoldOf, PendingNow, Pending, Compensating
  <1>6. (\A i \in DOMAIN order[o].attempts :
           order[o].attempts[i].txn # None => PaidBy(o, order[o].attempts[i].txn))'
    BY <1>3 DEF PaidNow, PaidBy
  <1> QED
    BY <1>1, <1>2, <1>5, <1>6 DEF OrderOK, PaidBy, PaidNow, Exists, HoldOf

-----------------------------------------------------------------------------
(* A step of the workflow or of the provider is about one call and one     *)
(* order, which exists before and after it.                                *)

\* What the step must leave alone, and what it may change but not take back.
Frame(c, o) ==
  /\ \A p \in Orders : p # o => order'[p] = order[p]
  /\ \A d \in Calls : d # c =>
       pc'[d] = pc[d] /\ call'[d] = call[d] /\ charge'[d] = charge[d]
  /\ order[o].status # "NONE" /\ order'[o].status # "NONE"
  /\ order'[o].reservation = order[o].reservation
  /\ charge[c] # "none" =>
       charge'[c] # "none" /\ call[c].order = o /\ call'[c].order = o
  /\ charge[c] = "captured" => charge'[c] = "captured"

\* Holds go their way: what was released stays so, and a hold is sold only to
\* the order of the step, which keeps a sale it already has.
HoldsMove(o) ==
  /\ \A r \in Reservations : resv[r] \in Released => resv'[r] \in Released
  /\ \A r \in Reservations : resv'[r] = "CONFIRMED" =>
       \/ resv[r] = "CONFIRMED"
       \/ r = order[o].reservation /\ order'[o].status = "CONFIRMED"
  /\ resv[order[o].reservation] = "CONFIRMED" /\ order[o].status = "CONFIRMED"
       => order'[o].status = "CONFIRMED"

\* A refund executed in this step is owed by the order of the step.
RefundsMove(o) ==
  \A x \in refunds' : x \in refunds \/
    (x.order = o /\ PaidBy(o, x.txn) /\ resv[order[o].reservation] \in Released)

LEMMA StepIInv ==
  ASSUME IInv, TypeOK', NEW c \in Calls, NEW o \in Orders,
         Frame(c, o), HoldsMove(o), RefundsMove(o), CallOK(c)', OrderOK(o)'
  PROVE  IInv'
  <1>1. \A p \in Orders, t \in Calls : PaidBy(p, t) => PaidBy(p, t)'
    BY DEF Frame, PaidBy
  <1>2. \A p \in Orders : Exists(p) =>
          order'[p].status # "NONE" /\ order'[p].reservation = HoldOf(p)
    BY DEF Frame, Exists, HoldOf
  <1>3. \A p \in Orders : Exists(p) => HoldOf(p) \in Reservations
    BY DEF IInv, OrderOK
  <1>4. ASSUME NEW d \in Calls, d # c PROVE CallOK(d)'
    <2>1. pc'[d] = pc[d] /\ call'[d] = call[d] /\ charge'[d] = charge[d]
      BY <1>4 DEF Frame
    <2>2. CallOK(d) /\ call[d] \in CallRecord
      BY DEF IInv, TypeOK
    <2>3. Active(d) \/ charge[d] # "none" =>
            /\ call[d].order \in Orders
            /\ order'[call[d].order].status # "NONE"
            /\ order'[call[d].order].reservation = HoldOf(call[d].order)
            /\ HoldOf(call[d].order) \in Reservations
      BY <1>2, <1>3, <2>2 DEF CallOK
    <2>4. (Active(d) \/ charge[d] # "none" =>
             call[d].order \in Orders /\ Exists(call[d].order))'
      BY <2>1, <2>3, SMTT(30) DEF Active, Exists
    <2>5. (Compensating(d) /\ call[d].txn # None => PaidBy(call[d].order, call[d].txn))'
      BY <1>1, <2>1, <2>2, <2>3, SMTT(30) DEF CallOK, Compensating, Active, PaidBy
    <2>6. (pc[d] = "hook" =>
             /\ call[d].txn \in Calls
             /\ charge[call[d].txn] # "none"
             /\ call[call[d].txn].order = call[d].order)'
      BY <2>1, <2>2 DEF CallOK, Frame
    <2>7. (pc[d] \in {"refund", "refunding"} => resv[HoldOf(call[d].order)] \in Released)'
      BY <2>1, <2>2, <2>3 DEF CallOK, HoldsMove, HoldOf, Active
    <2> QED
      BY <2>1, <2>2, <2>4, <2>5, <2>6, <2>7 DEF CallOK
  <1>5. ASSUME NEW p \in Orders, p # o PROVE OrderOK(p)'
    <2>1. order'[p] = order[p] /\ OrderOK(p)
      BY <1>5 DEF Frame, IInv
    <2>2. \A t \in Calls : charge[t] = "captured" /\ call[t].order = p =>
            t # c /\ charge'[t] = "captured" /\ call'[t].order = p /\ pc'[t] = pc[t]
      BY <1>5 DEF Frame
    <2>3. \A r \in Reservations : resv[r] \in Released => resv'[r] \in Released
      BY DEF HoldsMove
    <2> QED
      BY <2>1, <2>2, <2>3, OrderUntouched DEF Pending, Compensating
  <1>6. RefundIsOwed'
    <2> SUFFICES ASSUME NEW x \in refunds'
                 PROVE  /\ PaidBy(x.order, x.txn)'
                        /\ resv'[order'[x.order].reservation] \in Released
      BY DEF RefundIsOwed, HoldOf
    <2>1. /\ x.order \in Orders /\ PaidBy(x.order, x.txn)
          /\ resv[HoldOf(x.order)] \in Released /\ Exists(x.order)
      <3>1. CASE x \in refunds
        <4>1. PaidBy(x.order, x.txn) /\ resv[HoldOf(x.order)] \in Released
          BY <3>1 DEF IInv, RefundIsOwed
        <4>2. charge[x.txn] # "none" /\ call[x.txn].order = x.order /\ x.txn \in Calls
          BY <4>1, SMTT(30) DEF PaidBy
        <4>3. x.order \in Orders /\ Exists(x.order)
          BY <4>2 DEF IInv, CallOK
        <4> QED
          BY <4>1, <4>3
      <3>2. CASE x \notin refunds
        BY <3>2 DEF RefundsMove, Frame, Exists, HoldOf
      <3> QED
        BY <3>1, <3>2
    <2> QED
      BY <1>1, <1>2, <1>3, <2>1 DEF HoldsMove, PaidBy
  <1>7. SoldHasOrder'
    <2> SUFFICES ASSUME NEW r \in Reservations, resv'[r] = "CONFIRMED"
                 PROVE  \E p \in Orders :
                          order'[p].reservation = r /\ order'[p].status = "CONFIRMED"
      BY DEF SoldHasOrder, HoldOf
    <2>1. CASE resv[r] = "CONFIRMED"
      <3>1. PICK p \in Orders : order[p].reservation = r /\ order[p].status = "CONFIRMED"
        BY <2>1 DEF IInv, SoldHasOrder, HoldOf
      <3> QED
        BY <2>1, <3>1 DEF Frame, HoldsMove
    <2>2. CASE resv[r] # "CONFIRMED"
      BY <2>2 DEF Frame, HoldsMove
    <2> QED
      BY <2>1, <2>2
  <1> QED
    BY <1>4, <1>5, <1>6, <1>7 DEF IInv

-----------------------------------------------------------------------------
(* Steps that are not of a call: the clock, the scanner, the checkout and   *)
(* the provider.                                                           *)

LEMMA TickIInv == IInv /\ Tick => IInv'
  <1> SUFFICES ASSUME IInv, Tick PROVE IInv'
    OBVIOUS
  <1> USE DEF Tick, entities, provider
  <1>1. TypeOK'
    BY DEF IInv, TypeOK
  <1>2. ASSUME NEW c \in Calls PROVE CallOK(c)'
    BY SMTT(30) DEF IInv, CallOK, Active, Exists, Compensating, PaidBy, HoldOf
  <1>3. ASSUME NEW o \in Orders PROVE OrderOK(o)'
    BY DEF IInv, OrderOK, Exists, Pending, Compensating, PaidBy, HoldOf
  <1>4. RefundIsOwed' /\ SoldHasOrder'
    BY DEF IInv, RefundIsOwed, SoldHasOrder, HoldOf, PaidBy
  <1> QED
    BY <1>1, <1>2, <1>3, <1>4 DEF IInv

\* A hold that expires was neither sold nor released.
LEMMA ExpireIInv ==
  ASSUME IInv, NEW r \in Reservations, Expire(r)
  PROVE  IInv'
  <1>1. /\ \A h \in Reservations : resv[h] \in Released => resv'[h] \in Released
        /\ \A h \in Reservations : resv'[h] = "CONFIRMED" => resv[h] = "CONFIRMED"
        /\ UNCHANGED <<now, order, pc, call, processed, charge, refunds>>
    BY DEF Expire, CanExpire, Held, Released, IInv, TypeOK, provider
  <1>2. TypeOK'
    BY DEF Expire, IInv, TypeOK, ReservationStatus, provider
  <1>3. \A o \in Orders : Exists(o) => HoldOf(o) \in Reservations
    BY DEF IInv, OrderOK
  <1>4. ASSUME NEW c \in Calls PROVE CallOK(c)'
    BY <1>1, <1>3, SMTT(30) DEF IInv, CallOK, Active, Exists, Compensating, PaidBy, HoldOf
  <1>5. ASSUME NEW o \in Orders PROVE OrderOK(o)'
    BY <1>1, <1>3, SMTT(30)
       DEF IInv, OrderOK, Exists, Pending, Compensating, PaidBy, HoldOf
  <1>6. RefundIsOwed'
    <2> SUFFICES ASSUME NEW x \in refunds
                 PROVE  PaidBy(x.order, x.txn) /\ resv'[HoldOf(x.order)] \in Released
      BY <1>1 DEF RefundIsOwed, PaidBy, HoldOf
    <2>1. PaidBy(x.order, x.txn) /\ resv[HoldOf(x.order)] \in Released
      BY DEF IInv, RefundIsOwed
    <2>2. x.order \in Orders /\ Exists(x.order)
      BY <2>1 DEF IInv, CallOK, PaidBy
    <2> QED
      BY <1>1, <1>3, <2>1, <2>2
  <1>7. SoldHasOrder'
    BY <1>1 DEF IInv, SoldHasOrder, HoldOf
  <1> QED
    BY <1>2, <1>4, <1>5, <1>6, <1>7 DEF IInv

\* Nothing refers to an order before its checkout.
LEMMA InitiateCheckoutIInv ==
  ASSUME IInv, NEW o \in Orders, NEW r \in Reservations, InitiateCheckout(o, r)
  PROVE  IInv'
  <1>1. /\ order' = [order EXCEPT ![o] = NewOrder(r)]
        /\ resv' = [resv EXCEPT ![r] = "PAYMENT_PENDING"]
        /\ resv[r] = "PENDING"
        /\ order[o].status = "NONE"
        /\ UNCHANGED <<now, pc, call, processed, charge, refunds>>
    BY DEF InitiateCheckout, CanStartPayment, Exists, provider
  <1>2. /\ NewOrder(r) \in OrderRecord
        /\ NewOrder(r).reservation = r
        /\ NewOrder(r).status = "PAYMENT_PENDING"
        /\ NewOrder(r).txn = None
        /\ DOMAIN NewOrder(r).attempts = {}
    BY DEF NewOrder, OrderRecord, OrderStatus
  <1>3. TypeOK'
    BY <1>1, <1>2 DEF IInv, TypeOK, ReservationStatus
  <1>4. /\ order'[o] = NewOrder(r)
        /\ \A p \in Orders : p # o => order'[p] = order[p]
        /\ \A h \in Reservations : resv[h] \in Released => resv'[h] \in Released
        /\ \A h \in Reservations : resv'[h] = "CONFIRMED" => resv[h] = "CONFIRMED"
    BY <1>1 DEF IInv, TypeOK, Released
  <1>5. \A p \in Orders : Exists(p) =>
          p # o /\ order'[p] = order[p] /\ HoldOf(p) \in Reservations
    BY <1>1, <1>4 DEF IInv, OrderOK, Exists
  <1>6. ASSUME NEW c \in Calls PROVE CallOK(c)'
    <2>1. CallOK(c)
      BY DEF IInv
    <2> QED
      BY <1>1, <1>4, <1>5, <2>1 DEF CallOK, Active, Exists, Compensating, PaidBy, HoldOf
  <1>7. ASSUME NEW p \in Orders PROVE OrderOK(p)'
    <2>1. CASE p = o
      BY <1>2, <1>4, <2>1, SMTT(30) DEF OrderOK, Exists, HoldOf
    <2>2. CASE p # o
      <3>1. OrderOK(p) /\ order'[p] = order[p]
        BY <1>4, <2>2 DEF IInv
      <3>2. order[p].status = "CANCELLED" => resv'[HoldOf(p)] \in Released
        BY <1>4, <1>5, <3>1 DEF OrderOK, Exists
      <3> QED
        BY <1>1, <3>1, <3>2, ZenonT(40)
           DEF OrderOK, Exists, Pending, Compensating, PaidBy, HoldOf
    <2> QED
      BY <2>1, <2>2, SMTT(30)
  <1>8. RefundIsOwed'
    <2> SUFFICES ASSUME NEW x \in refunds
                 PROVE  /\ PaidBy(x.order, x.txn)
                        /\ resv'[order'[x.order].reservation] \in Released
      BY <1>1 DEF RefundIsOwed, PaidBy, HoldOf
    <2>1. PaidBy(x.order, x.txn) /\ resv[HoldOf(x.order)] \in Released
      BY DEF IInv, RefundIsOwed
    <2>2. x.order \in Orders /\ Exists(x.order)
      BY <2>1 DEF IInv, CallOK, PaidBy
    <2> QED
      BY <1>4, <1>5, <2>1, <2>2 DEF HoldOf
  <1>9. SoldHasOrder'
    <2> SUFFICES ASSUME NEW h \in Reservations, resv'[h] = "CONFIRMED"
                 PROVE  \E p \in Orders :
                          order'[p].reservation = h /\ order'[p].status = "CONFIRMED"
      BY DEF SoldHasOrder, HoldOf
    <2>1. PICK p \in Orders : order[p].reservation = h /\ order[p].status = "CONFIRMED"
      BY <1>4 DEF IInv, SoldHasOrder, HoldOf
    <2> QED
      BY <1>5, <2>1 DEF Exists
  <1> QED
    BY <1>3, <1>6, <1>7, <1>8, <1>9 DEF IInv

\* The provider decides about a charge (external).
LEMMA DecideChargeIInv ==
  ASSUME IInv, NEW c \in Calls, NEW outcome \in {"captured", "refused"},
         DecideCharge(c, outcome)
  PROVE  IInv'
  <1>0. charge' = [charge EXCEPT ![c] = outcome]
    BY DEF DecideCharge
  <1>1. /\ charge[c] = "requested" /\ charge'[c] = outcome
        /\ UNCHANGED <<now, resv, order, pc, call, processed, refunds>>
    BY DEF DecideCharge, entities, IInv, TypeOK
  <1>2. CallOK(c)
    BY SMTT(30) DEF IInv
  <1>3. PICK o \in Orders : o = call[c].order /\ Exists(o) /\ OrderOK(o)
    BY <1>1, <1>2 DEF IInv, CallOK
  <1>4. TypeOK'
    BY <1>0, <1>1 DEF IInv, TypeOK, ChargeState
  <1>5. Frame(c, o)
    BY <1>0, <1>1, <1>3 DEF Frame, Exists, IInv, TypeOK
  <1>6. HoldsMove(o) /\ RefundsMove(o)
    BY <1>1 DEF HoldsMove, RefundsMove
  <1>7. /\ \A p, t : PaidBy(p, t) => charge'[t] = "captured"
        /\ \A t \in Calls : charge[t] # "none" => charge'[t] # "none"
    BY <1>1, <1>5, SMTT(30) DEF Frame, PaidBy
  <1>8. CallOK(c)'
    <2>1. (Compensating(c) /\ call[c].txn # None => PaidBy(call[c].order, call[c].txn))'
      BY <1>1, <1>2, <1>7, SMTT(30) DEF CallOK, Compensating, PaidBy
    <2>2. (pc[c] = "hook" =>
             /\ call[c].txn \in Calls
             /\ charge[call[c].txn] # "none"
             /\ call[call[c].txn].order = call[c].order)'
      BY <1>1, <1>2, <1>7 DEF CallOK
    <2>3. pc[c] \notin {"idle", "issuing"}
      BY <1>1, <1>2 DEF CallOK
    <2> QED
      BY <1>1, <1>2, <1>3, <2>1, <2>2, <2>3, SMTT(30) DEF CallOK, Active, Exists, HoldOf
  <1>9. OrderOK(o)'
    BY <1>1, <1>3, <1>7, OrderUntouched DEF Pending, Compensating, PaidBy
  <1> QED
    BY <1>4, <1>5, <1>6, <1>8, <1>9, StepIInv
=============================================================================
