--------------------------- MODULE MCIdempotency ----------------------------
(* Instances of Idempotency for TLC.                                       *)
EXTENDS Idempotency

CONSTANTS r1, r2, r3

\* r1 and r2 send the same payload, r3 another one under the same key.
MCHash == [r \in Requests |-> IF r = r3 THEN 2 ELSE 1]
=============================================================================
