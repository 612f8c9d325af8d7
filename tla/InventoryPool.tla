---------------------------- MODULE InventoryPool ---------------------------
(***************************************************************************)
(* InventoryPool, the domain's notion of the tickets of one type, whose    *)
(* operations take effect at once or throw: one entity for each type.      *)
(* This is the abstract specification of the pools that Inventory keeps in *)
(* PostgreSQL.                                                             *)
(***************************************************************************)
EXTENDS Naturals

CONSTANTS
  Types,     \* ticket types
  Capacity   \* Capacity[t] is the totalCapacity of the pool of t

VARIABLE entity  \* the quantities of each pool

\* The constructor.
Init ==
  entity = [t \in Types |-> [available |-> Capacity[t], reserved |-> 0, sold |-> 0]]

AssertCapacityInvariant(p, t) == p.available + p.reserved + p.sold = Capacity[t]

\* The pool p of type t becomes new, unless the operation throws.
Becomes(t, new) == entity'[t] = new /\ AssertCapacityInvariant(new, t)

Reserve(t, q) ==
  LET p == entity[t] IN
  /\ q \in 1 .. p.available
  /\ Becomes(t, [p EXCEPT !.available = @ - q, !.reserved = @ + q])

Release(t, q) ==
  LET p == entity[t] IN
  /\ q \in 1 .. p.reserved
  /\ Becomes(t, [p EXCEPT !.reserved = @ - q, !.available = @ + q])

Fulfill(t, q) ==
  LET p == entity[t] IN
  /\ q \in 1 .. p.reserved
  /\ Becomes(t, [p EXCEPT !.reserved = @ - q, !.sold = @ + q])

Operation(t) == \E q \in 1 .. Capacity[t] : Reserve(t, q) \/ Release(t, q) \/ Fulfill(t, q)

\* Entities are independent, so operations on several may coincide.
Next == \A t \in Types : Operation(t) \/ UNCHANGED entity[t]

Spec == Init /\ [][Next]_entity

\* Entities that are found with some of their tickets taken.
LoadedSpec ==
  /\ \A t \in Types : AssertCapacityInvariant(entity[t], t)
  /\ [][Next]_entity
=============================================================================
