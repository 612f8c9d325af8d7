---------------------------- MODULE OrderPayment ----------------------------
(***************************************************************************)
(* The checkout saga of src/src/modules/order/application/                 *)
(* OrderPaymentWorkflow.ts: checkout, payment, provider webhooks and       *)
(* compensation, over the in-memory order and reservation repositories.    *)
(*                                                                         *)
(* A member of Calls is one invocation of processPayment, compensateOrder, *)
(* retryCompensation or handlePaymentWebhook.  Node runs the code between  *)
(* two awaits without interruption, so an action is the code from one      *)
(* await to the next and pc[c] names the await at which call c is parked.  *)
(* The repositories hand out references to the stored entities: a change   *)
(* is visible to the other calls at once and save() adds nothing to it.    *)
(*                                                                         *)
(* A payment call makes one charge, so the call also names the provider's  *)
(* transaction and the webhook event about it.                             *)
(***************************************************************************)
EXTENDS OrderDomain, ReservationDomain

CONSTANTS
  Reservations,  \* reservations created by Reservation.create
  Orders,        \* order ids randomUUID may return
  Calls,         \* invocations of the workflow
  Keys,          \* idempotency keys the buyers use
  ExpiresAt,     \* ExpiresAt[r] is the last instant at which r is valid
  MaxNow,        \* bound on the clock
  Overlap        \* FALSE: a call starts only when no other is in flight

ASSUME CallsAssumption == None \notin Calls
ASSUME ClockAssumption == MaxNow \in Nat /\ ExpiresAt \in [Reservations -> Nat]
ASSUME OverlapAssumption == Overlap \in BOOLEAN

VARIABLES
  now,        \* the clock
  resv,       \* resv[r] is the status of reservation r
  order,      \* order[o] is the order entity, NoOrder before checkout
  pc,         \* where call c is suspended
  call,       \* arguments and locals of call c
  processed,  \* processedWebhookEvents
  charge,     \* provider: what became of the charge made by call c
  refunds     \* provider: the refunds executed, with their idempotency key

vars == <<now, resv, order, pc, call, processed, charge, refunds>>
entities == <<resv, order>>
provider == <<charge, refunds>>

PC == {"idle", "charging", "issuing", "compensating", "releasing", "refund",
       "refunding", "hook", "done"}

\* The order and key of a payment; the order and transaction a compensation
\* or a webhook is about; the attempt number of the refund under way.
CallRecord == [order : Orders \cup {None}, key : Keys \cup {None},
               txn : Calls \cup {None}, attempt : Nat]

OrderRecord == [reservation : Reservations \cup {None}, status : OrderStatus,
                txn : Calls \cup {None},
                attempts : Seq([key : Keys, txn : Calls \cup {None}]),
                compensations : Nat]

\* refund_${order.id}_${attempt} is the idempotency key of a refund.
Refund == [txn : Calls, order : Orders, attempt : Nat]

ChargeState == {"none", "requested", "captured", "refused"}

Exists(o) == order[o].status # "NONE"
Lapsed(r) == now > ExpiresAt[r]
HoldOf(o) == order[o].reservation

Init ==
  /\ now = 1
  /\ resv = [r \in Reservations |-> "PENDING"]
  /\ order = [o \in Orders |-> NoOrder]
  /\ pc = [c \in Calls |-> "idle"]
  /\ call = [c \in Calls |->
               [order |-> None, key |-> None, txn |-> None, attempt |-> 0]]
  /\ processed = {}
  /\ charge = [c \in Calls |-> "none"]
  /\ refunds = {}

\* Call c has not been made yet, and may be made now.
MayStart(c) ==
  /\ pc[c] = "idle"
  /\ Overlap \/ \A d \in Calls : pc[d] \in {"idle", "done"}

Goto(c, label) == pc' = [pc EXCEPT ![c] = label]

-----------------------------------------------------------------------------
(* Checkout, the clock and expiry.                                         *)

InitiateCheckout(o, r) ==
  /\ ~Exists(o)
  /\ CanStartPayment(resv[r], now, ExpiresAt[r])
  /\ resv' = [resv EXCEPT ![r] = "PAYMENT_PENDING"]
  /\ order' = [order EXCEPT ![o] = NewOrder(r)]
  /\ UNCHANGED <<now, pc, call, processed, provider>>

Tick ==
  /\ now < MaxNow
  /\ now' = now + 1
  /\ UNCHANGED <<entities, pc, call, processed, provider>>

Expire(r) ==
  /\ CanExpire(resv[r], now, ExpiresAt[r])
  /\ resv' = [resv EXCEPT ![r] = "EXPIRED"]
  /\ UNCHANGED <<now, order, pc, call, processed, provider>>

-----------------------------------------------------------------------------
(* processPayment.                                                         *)

\* Up to the call of the gateway.  The early returns for a key that already
\* succeeded and for a confirmed order change nothing.
ProcessPayment(c, o, k) ==
  /\ MayStart(c)
  /\ Exists(o)
  /\ ~AlreadySucceeded(order[o], k)
  /\ order[o].status # "CONFIRMED"
  /\ order' = [order EXCEPT ![o] = RetryPayment(@)]
  /\ call' = [call EXCEPT ![c].order = o, ![c].key = k]
  /\ charge' = [charge EXCEPT ![c] = "requested"]
  /\ Goto(c, "charging")
  /\ UNCHANGED <<now, resv, processed, refunds>>

\* The provider takes the money or refuses, before or after its answer.
DecideCharge(c, outcome) ==
  /\ charge[c] = "requested"
  /\ outcome \in {"captured", "refused"}
  /\ charge' = [charge EXCEPT ![c] = outcome]
  /\ UNCHANGED <<now, entities, pc, call, processed, refunds>>

\* The answer SUCCESS, up to the call of the ticket issuer.
ChargeSucceeded(c) ==
  LET o == call[c].order IN
  /\ pc[c] = "charging"
  /\ charge[c] = "captured"
  /\ order' = [order EXCEPT ![o] = RecordPaymentAttempt(@, call[c].key, c)]
  /\ Goto(c, "issuing")
  /\ UNCHANGED <<now, resv, call, processed, provider>>

\* markPaymentDeclined or revertPaymentDecline throws.
DeclineThrows(ord) ==
  \/ ~CanMarkPaymentDeclined(ord)
  \/ ~Lapsed(ord.reservation) /\ ~CanRevertPaymentDecline(resv[ord.reservation])

\* Mutant: a reverted hold gets the status that the reservations table uses.
DeclineToActive(o, ord) ==
  LET r == ord.reservation IN
  /\ order' = [order EXCEPT ![o] = IF CanMarkPaymentDeclined(ord)
                                     THEN MarkPaymentDeclined(ord) ELSE ord]
  /\ resv' = IF DeclineThrows(ord) \/ Lapsed(r)
               THEN resv ELSE [resv EXCEPT ![r] = "ACTIVE"]

\* markPaymentDeclined, then revertPaymentDecline while the hold is valid; a
\* throw of the second leaves the effect of the first.
Decline(o, ord) ==
  LET r == ord.reservation IN
  /\ order' = [order EXCEPT ![o] = IF CanMarkPaymentDeclined(ord)
                                     THEN MarkPaymentDeclined(ord) ELSE ord]
  /\ resv' = IF DeclineThrows(ord) \/ Lapsed(r)
               THEN resv ELSE [resv EXCEPT ![r] = "PENDING"]

\* The answers DECLINED and FAILED.
ChargeRefused(c) ==
  LET o == call[c].order IN
  /\ pc[c] = "charging"
  /\ charge[c] = "refused"
  /\ Decline(o, RecordPaymentAttempt(order[o], call[c].key, None))
  /\ Goto(c, "done")
  /\ UNCHANGED <<now, call, processed, provider>>

\* The answer TIMEOUT: the charge may have been taken, or still be.
ChargeTimedOut(c) ==
  LET o == call[c].order IN
  /\ pc[c] = "charging"
  /\ order' = [order EXCEPT ![o] = RecordPaymentAttempt(@, call[c].key, None)]
  /\ Goto(c, "done")
  /\ UNCHANGED <<now, resv, call, processed, provider>>

\* order.confirm or reservation.confirm throws.
ConfirmThrows(o) ==
  \/ ~CanConfirmOrder(order[o])
  \/ ~CanConfirmReservation(resv[HoldOf(o)], now, ExpiresAt[HoldOf(o)])

\* order.confirm, then reservation.confirm; a throw of the second leaves the
\* effect of the first.
Confirm(o, txn) ==
  /\ order' = [order EXCEPT ![o] = IF CanConfirmOrder(@)
                                     THEN ConfirmOrder(@, txn) ELSE @]
  /\ resv' = IF ConfirmThrows(o)
               THEN resv ELSE [resv EXCEPT ![HoldOf(o)] = "CONFIRMED"]

\* The issuer succeeds: confirm both entities, compensate if that throws.
IssueTickets(c) ==
  LET o == call[c].order IN
  /\ pc[c] = "issuing"
  /\ Confirm(o, c)
  /\ call' = [call EXCEPT ![c].txn = c]
  /\ Goto(c, IF ConfirmThrows(o) THEN "compensating" ELSE "done")
  /\ UNCHANGED <<now, processed, provider>>

IssuerFails(c) ==
  /\ pc[c] = "issuing"
  /\ call' = [call EXCEPT ![c].txn = c]
  /\ Goto(c, "compensating")
  /\ UNCHANGED <<now, entities, processed, provider>>

-----------------------------------------------------------------------------
(* compensateOrder and retryCompensation.                                  *)

\* compensateOrder called by an operator, with one of the order's captured
\* transactions or with none.
CompensateOrder(c, o, txn) ==
  /\ MayStart(c)
  /\ Exists(o)
  /\ txn # None => charge[txn] = "captured" /\ call[txn].order = o
  /\ call' = [call EXCEPT ![c].order = o, ![c].txn = txn]
  /\ Goto(c, "compensating")
  /\ UNCHANGED <<now, entities, processed, provider>>

RetryCompensation(c, o) ==
  /\ MayStart(c)
  /\ order[o].status = "COMPENSATION_PENDING"
  /\ call' = [call EXCEPT ![c].order = o]
  /\ Goto(c, "compensating")
  /\ UNCHANGED <<now, entities, processed, provider>>

\* The ALREADY_COMPENSATED return, or on to the reservation.
CheckCompensated(c) ==
  /\ pc[c] = "compensating"
  /\ Goto(c, IF order[call[c].order].status = "CANCELLED_REFUNDED"
               THEN "done" ELSE "releasing")
  /\ UNCHANGED <<now, entities, call, processed, provider>>

\* Mutant: a hold that cannot be cancelled is waited for.
ReleaseHoldWaits(c) ==
  LET r == HoldOf(call[c].order) IN
  /\ pc[c] = "releasing"
  /\ resv[r] \notin Released
  /\ CanCancelReservation(resv[r])
  /\ resv' = [resv EXCEPT ![r] = "CANCELLED"]
  /\ Goto(c, "refund")
  /\ UNCHANGED <<now, order, call, processed, provider>>

ReleaseHold(c) ==
  LET r == HoldOf(call[c].order) IN
  /\ pc[c] = "releasing"
  /\ resv[r] \notin Released
  /\ IF CanCancelReservation(resv[r])
       THEN resv' = [resv EXCEPT ![r] = "CANCELLED"] /\ Goto(c, "refund")
       ELSE UNCHANGED resv /\ Goto(c, "done")
  /\ UNCHANGED <<now, order, call, processed, provider>>

\* Mutant: the refund does not wait for the release.
HoldReleasedUnchecked(c) == pc[c] \in {"refund", "releasing"}

\* The hold is gone: this call released it, or it was released before.
HoldReleased(c) ==
  \/ pc[c] = "refund"
  \/ pc[c] = "releasing" /\ resv[HoldOf(call[c].order)] \in Released

\* Mutant: the attempts are not searched for a SUCCESS.
RefundTargetWithoutAttempts(c, txn) ==
  LET ord == order[call[c].order] IN
  txn = IF call[c].txn # None THEN call[c].txn ELSE ord.txn

\* providerTxnId || order.providerTransactionId || first SUCCESS attempt.
RefundTarget(c, txn) ==
  LET ord == order[call[c].order] IN
  CASE call[c].txn # None -> txn = call[c].txn
    [] call[c].txn = None /\ ord.txn # None -> txn = ord.txn
    [] OTHER -> FirstSuccess(ord, txn) \/ (NoSuccess(ord) /\ txn = None)

CancelUnpaid(c) ==
  LET o == call[c].order IN
  /\ HoldReleased(c)
  /\ RefundTarget(c, None)
  /\ order' = [order EXCEPT ![o] = IF CanCancelOrder(@) THEN CancelOrder(@) ELSE @]
  /\ Goto(c, "done")
  /\ UNCHANGED <<now, resv, call, processed, provider>>

RequestRefund(c, txn) ==
  /\ HoldReleased(c)
  /\ RefundTarget(c, txn)
  /\ call' = [call EXCEPT ![c].txn = txn,
                          ![c].attempt = order[call[c].order].compensations + 1]
  /\ Goto(c, "refunding")
  /\ UNCHANGED <<now, entities, processed, provider>>

\* The provider executes the refund call c has requested.
Execute(c) ==
  refunds' = refunds \cup {[txn |-> call[c].txn, order |-> call[c].order,
                            attempt |-> call[c].attempt]}

RefundSucceeded(c) ==
  /\ pc[c] = "refunding"
  /\ Execute(c)
  /\ order' = [order EXCEPT ![call[c].order] = Compensated(@)]
  /\ Goto(c, "done")
  /\ UNCHANGED <<now, resv, call, processed, charge>>

\* The answers FAILED and TIMEOUT; after a TIMEOUT the refund may have been
\* executed all the same.
RefundFailed(c) ==
  /\ pc[c] = "refunding"
  /\ Execute(c) \/ UNCHANGED refunds
  /\ order' = [order EXCEPT ![call[c].order] = CompensationFailed(@)]
  /\ Goto(c, "done")
  /\ UNCHANGED <<now, resv, call, processed, charge>>

-----------------------------------------------------------------------------
(* handlePaymentWebhook.  The provider reports a decided charge any number *)
(* of times, early, late, never, or twice at once.                         *)

ReceiveWebhook(c, txn) ==
  /\ MayStart(c)
  /\ charge[txn] \in {"captured", "refused"}
  /\ txn \notin processed
  /\ call' = [call EXCEPT ![c].order = call[txn].order, ![c].txn = txn]
  /\ Goto(c, "hook")
  /\ UNCHANGED <<now, entities, processed, provider>>

WebhookEnds(c) ==
  /\ Goto(c, "done")
  /\ UNCHANGED <<now, call, provider>>

MarkProcessed(c) == processed' = processed \cup {call[c].txn}

WebhookAfterConfirmation(c) ==
  /\ pc[c] = "hook"
  /\ order[call[c].order].status = "CONFIRMED"
  /\ MarkProcessed(c)
  /\ WebhookEnds(c)
  /\ UNCHANGED entities

\* isExpired.
TooLate(o) ==
  resv[HoldOf(o)] = "EXPIRED" \/ order[o].status = "EXPIRED" \/ Lapsed(HoldOf(o))

WebhookSuccess(c) ==
  LET o == call[c].order IN
  /\ pc[c] = "hook"
  /\ order[o].status # "CONFIRMED"
  /\ charge[call[c].txn] = "captured"
  /\ \/ /\ TooLate(o)
        /\ order' = [order EXCEPT ![o] = MarkRefundRequired(@, call[c].txn)]
        /\ MarkProcessed(c)
        /\ UNCHANGED resv
     \/ /\ ~TooLate(o)
        /\ Confirm(o, call[c].txn)
        /\ IF ConfirmThrows(o) THEN UNCHANGED processed ELSE MarkProcessed(c)
  /\ WebhookEnds(c)

WebhookDecline(c) ==
  LET o == call[c].order IN
  /\ pc[c] = "hook"
  /\ order[o].status # "CONFIRMED"
  /\ charge[call[c].txn] = "refused"
  /\ Decline(o, order[o])
  /\ IF DeclineThrows(order[o]) THEN UNCHANGED processed ELSE MarkProcessed(c)
  /\ WebhookEnds(c)

-----------------------------------------------------------------------------
(* A step of a call already under way: its awaited promise settles.        *)
Resume(c) ==
  \/ ChargeSucceeded(c) \/ ChargeRefused(c) \/ ChargeTimedOut(c)
  \/ IssueTickets(c) \/ IssuerFails(c)
  \/ CheckCompensated(c) \/ ReleaseHold(c)
  \/ CancelUnpaid(c) \/ (\E txn \in Calls : RequestRefund(c, txn))
  \/ RefundSucceeded(c) \/ RefundFailed(c)
  \/ WebhookAfterConfirmation(c) \/ WebhookSuccess(c) \/ WebhookDecline(c)

Start(c) ==
  \/ \E o \in Orders, k \in Keys : ProcessPayment(c, o, k)
  \/ \E o \in Orders, txn \in Calls \cup {None} : CompensateOrder(c, o, txn)
  \/ \E o \in Orders : RetryCompensation(c, o)
  \/ \E txn \in Calls : ReceiveWebhook(c, txn)

Next ==
  \/ Tick
  \/ \E r \in Reservations : Expire(r)
  \/ \E o \in Orders, r \in Reservations : InitiateCheckout(o, r)
  \/ \E c \in Calls, outcome \in {"captured", "refused"} : DecideCharge(c, outcome)
  \/ \E c \in Calls : Start(c) \/ Resume(c)

Spec == Init /\ [][Next]_vars

\* Every promise the code awaits settles: the gateway and the issuer answer,
\* if only with TIMEOUT or an error.  Nobody has to start a call.
FairSpec == Spec /\ \A c \in Calls : WF_vars(Resume(c))

-----------------------------------------------------------------------------
(* Properties.                                                             *)

\* The state the fields of the entities, the suspended calls and the provider
\* can hold.
TypeOK ==
  /\ now \in Nat
  /\ resv \in [Reservations -> ReservationStatus]
  /\ order \in [Orders -> OrderRecord]
  /\ pc \in [Calls -> PC]
  /\ call \in [Calls -> CallRecord]
  /\ processed \subseteq Calls
  /\ charge \in [Calls -> ChargeState]
  /\ refunds \subseteq Refund

\* The transaction was captured for this very order.
PaidBy(o, txn) ==
  /\ txn \in Calls
  /\ charge[txn] = "captured"
  /\ call[txn].order = o

\* Tickets that are sold are paid for and stay paid for: a CONFIRMED
\* reservation has a CONFIRMED order whose transaction was captured for it, and
\* no refund of that order has been executed or is under way.  Confirmation
\* (OrderPaymentWorkflow.ts 201-202 and 371-372), the cancelled hold of
\* compensateOrder (437) and the await on the refund (461) may interleave.
SoldIsPaid ==
  \A r \in Reservations : resv[r] = "CONFIRMED" =>
    \E o \in Orders :
      /\ HoldOf(o) = r
      /\ order[o].status = "CONFIRMED"
      /\ PaidBy(o, order[o].txn)
      /\ \A x \in refunds : x.order # o
      /\ \A c \in Calls : call[c].order = o => pc[c] # "refunding"

\* A refund returns money that was captured for the same order, and only when
\* the order's tickets have been given back: whichever of its three sources
\* compensateOrder takes the transaction from (441-444), and whichever call
\* released the hold (432-439).
RefundIsOwed ==
  \A x \in refunds :
    PaidBy(x.order, x.txn) /\ resv[HoldOf(x.order)] \in Released

\* Refunds are asked for under the key of an attempt (458-459).  The provider
\* executes no refund whose attempt the order does not have on record in the
\* end (470-476, 490-496), so money goes back once for each recorded attempt at
\* most, though compensations of an order overlap, and a refund that timed out
\* was executed.
RefundIsRecorded ==
  \A x \in refunds : x.attempt \in 1 .. order[x.order].compensations

Quiet(o) ==
  \A c \in Calls : call[c].order = o => pc[c] \in {"idle", "done"}

\* An order at rest in CANCELLED, the status that promises no money was taken
\* (446-455), has no SUCCESS attempt: a charge that succeeds after the
\* cancellation is compensated by its own call.
CancelledOwesNothing ==
  \A o \in Orders :
    order[o].status = "CANCELLED" /\ Quiet(o) => NoSuccess(order[o])

\* A hold that was sold or released never changes again, and an order CONFIRMED
\* with a sold hold keeps its status and its transaction, whatever webhook,
\* decline, retry or compensation arrives later.
SaleKept ==
  \A r \in Reservations :
    /\ resv[r] \notin Held => resv'[r] = resv[r]
    /\ resv[r] = "CONFIRMED" =>
         \A o \in Orders : HoldOf(o) = r /\ order[o].status = "CONFIRMED" =>
           /\ order'[o].status = "CONFIRMED"
           /\ order'[o].txn = order[o].txn

\* SaleKept is what no step of the workflow, the clock or the provider breaks.
SaleIsFinal == [][SaleKept]_vars

\* Every invocation of the workflow settles, also when an entity throws in the
\* middle of a handler or a compensation (437, 448).
CallsFinish ==
  \A c \in Calls : pc[c] # "idle" ~> pc[c] = "done"

-----------------------------------------------------------------------------
(* What the documents say and the code does not do.                        *)

\* state-transition-matrix.md, invariant 1: a reservation is confirmed once,
\* so no two orders are CONFIRMED for it.
SingleConfirmation ==
  \A o, p \in Orders :
    /\ order[o].status = "CONFIRMED"
    /\ order[p].status = "CONFIRMED"
    /\ HoldOf(o) = HoldOf(p)
    => o = p

\* state-transition-matrix.md, invariant 4, and adr-006: money that the
\* workflow has recorded as taken buys the order, is refunded, or the order is
\* left in a status from which the refund is retried.
Settled(o, txn) ==
  \/ order[o].status = "CONFIRMED" /\ order[o].txn = txn
  \/ \E x \in refunds : x.txn = txn
  \/ order[o].status \in {"COMPENSATION_PENDING", "REFUND_REQUIRED"}

NoMoneyLost ==
  \A o \in Orders : Quiet(o) =>
    \A i \in DOMAIN order[o].attempts :
      order[o].attempts[i].txn # None => Settled(o, order[o].attempts[i].txn)
=============================================================================
