------------------------- MODULE ReservationDomain -------------------------
(***************************************************************************)
(* The reservation entity of the inventory module                          *)
(* (src/src/modules/inventory/domain/Reservation.ts).  An operation of the *)
(* class either throws and leaves the entity alone, or moves it to one     *)
(* fixed status.  Each Can... operator is the condition under which the    *)
(* operation does not throw; the status it moves to is in the action that  *)
(* calls it.                                                               *)
(***************************************************************************)
EXTENDS Naturals

ReservationStatus ==
  {"PENDING", "PAYMENT_PENDING", "CONFIRMED", "EXPIRED", "CANCELLED"}

\* The statuses in which the reservation still holds its tickets for a buyer.
Held == {"PENDING", "PAYMENT_PENDING"}

\* The statuses in which the tickets have gone back to the pool.
Released == {"EXPIRED", "CANCELLED"}

CanStartPayment(status, now, expiresAt) ==
  status = "PENDING" /\ now <= expiresAt

CanRevertPaymentDecline(status) ==
  status = "PAYMENT_PENDING"

CanConfirmReservation(status, now, expiresAt) ==
  status \in Held /\ now <= expiresAt

CanExpire(status, now, expiresAt) ==
  status \in Held /\ now > expiresAt

\* Mutant: the guard against a CONFIRMED reservation is missing.
CanCancelEvenSold(status) ==
  status \notin Released

CanCancelReservation(status) ==
  status \in Held
=============================================================================
