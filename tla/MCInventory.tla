----------------------------- MODULE MCInventory ----------------------------
(* Instances of Inventory for TLC.                                         *)
EXTENDS Inventory

CONSTANTS t1, t2, r1, r2, r3, r4, r5

Pending(t, q, expires) ==
  [status |-> "PENDING", type |-> t, qty |-> q, expires |-> expires]

\* Two types with two pending reservations each: two scanners with batches of
\* two may each hold rows of both types.  One id is left for a new reservation.
MCSeed ==
  [r \in Rows |->
     CASE r = r1 -> Pending(t1, 1, 1)
       [] r = r2 -> Pending(t2, 1, 1)
       [] r = r3 -> Pending(t1, 2, 1)
       [] r = r4 -> Pending(t2, 1, 1)
       [] OTHER  -> NoRow]

\* One ticket of t1 is left, none of t2.
MCCapacity == [t \in Types |-> IF t = t1 THEN 4 ELSE 2]

\* One type, two rows to expire and two ids left for buyers.
OneTypeSeed ==
  [r \in Rows |->
     CASE r = r1 -> Pending(t1, 1, 1)
       [] r = r2 -> Pending(t1, 1, 2)
       [] OTHER  -> NoRow]

OneTypeCapacity == [t \in Types |-> 3]
=============================================================================
