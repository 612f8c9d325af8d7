---------------------------- MODULE OrderDomain ----------------------------
(***************************************************************************)
(* The order entity (src/src/modules/order/domain/Order.ts).  An order is  *)
(* a record: the reservation it was opened for, its status, the provider   *)
(* transaction it remembers, the payment attempts in the order in which    *)
(* they were recorded, and the number of compensation attempts.  An        *)
(* attempt keeps its idempotency key and the provider transaction; only an *)
(* attempt with status SUCCESS has one (txn # None).                       *)
(***************************************************************************)
EXTENDS Naturals, Sequences

CONSTANT None   \* an undefined field of the code

\* "NONE" is the status of an order that has not been created.  No code
\* produces "CREATED" and "EXPIRED": Order.expire has no caller.
OrderStatus ==
  {"NONE", "CREATED", "PAYMENT_PENDING", "CONFIRMED", "PAYMENT_DECLINED",
   "EXPIRED", "CANCELLED", "REFUND_REQUIRED", "COMPENSATION_PENDING",
   "CANCELLED_REFUNDED"}

NewOrder(r) ==
  [reservation |-> r, status |-> "PAYMENT_PENDING", txn |-> None,
   attempts |-> << >>, compensations |-> 0]

NoOrder == [NewOrder(None) EXCEPT !.status = "NONE"]

RecordPaymentAttempt(ord, key, txn) ==
  [ord EXCEPT !.attempts = Append(@, [key |-> key, txn |-> txn])]

\* Order.confirm does not throw.
CanConfirmOrder(ord) ==
  ord.status \in {"CONFIRMED", "PAYMENT_PENDING", "CREATED", "PAYMENT_DECLINED"}

\* A second confirmation returns false and keeps the first transaction.
ConfirmOrder(ord, txn) ==
  IF ord.status = "CONFIRMED"
    THEN ord
    ELSE [ord EXCEPT !.status = "CONFIRMED", !.txn = txn]

CanMarkPaymentDeclined(ord) == ord.status = "PAYMENT_PENDING"

MarkPaymentDeclined(ord) == [ord EXCEPT !.status = "PAYMENT_DECLINED"]

RetryPayment(ord) ==
  IF ord.status = "PAYMENT_DECLINED"
    THEN [ord EXCEPT !.status = "PAYMENT_PENDING"]
    ELSE ord

MarkRefundRequired(ord, txn) ==
  [ord EXCEPT !.status = "REFUND_REQUIRED", !.txn = txn]

\* recordCompensationAttempt followed by markCompensationPending.
CompensationFailed(ord) ==
  [ord EXCEPT !.status = "COMPENSATION_PENDING", !.compensations = @ + 1]

\* Mutant: a refund that succeeds is not recorded.
CompensatedUnrecorded(ord) == [ord EXCEPT !.status = "CANCELLED_REFUNDED"]

\* recordCompensationAttempt followed by markCompensated.
Compensated(ord) ==
  [ord EXCEPT !.status = "CANCELLED_REFUNDED", !.compensations = @ + 1]

CanCancelOrder(ord) == ord.status # "CONFIRMED"

CancelOrder(ord) == [ord EXCEPT !.status = "CANCELLED"]

\* paymentAttempts.find(a => a.idempotencyKey === key) is a SUCCESS: only the
\* first attempt recorded under the key counts.
AlreadySucceeded(ord, key) ==
  \E i \in DOMAIN ord.attempts :
    /\ ord.attempts[i].key = key
    /\ ord.attempts[i].txn # None
    /\ \A j \in 1 .. (i - 1) : ord.attempts[j].key # key

\* txn is the transaction of the first SUCCESS attempt.
FirstSuccess(ord, txn) ==
  \E i \in DOMAIN ord.attempts :
    /\ ord.attempts[i].txn = txn
    /\ txn # None
    /\ \A j \in 1 .. (i - 1) : ord.attempts[j].txn = None

NoSuccess(ord) ==
  \A i \in DOMAIN ord.attempts : ord.attempts[i].txn = None
=============================================================================
