--------------------------- MODULE MCOrderPayment ---------------------------
(* Instances of OrderPayment for TLC.                                      *)
EXTENDS OrderPayment

\* Every reservation is valid up to and including instant 1, where the clock
\* starts: both sides of the boundary are reached.
MCExpiresAt == [r \in Reservations |-> 1]
=============================================================================
