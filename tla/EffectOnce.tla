----------------------------- MODULE EffectOnce -----------------------------
(***************************************************************************)
(* What the outbox, the broker and the inbox promise together for an       *)
(* event: its side effect takes place after the event was committed, at    *)
(* most once, and is not taken back.                                       *)
(***************************************************************************)
EXTENDS Naturals

VARIABLES
  committed,  \* the business transaction with the event has committed
  effects     \* how often the side effect has taken place

vars == <<committed, effects>>

Init == ~committed /\ effects = 0

Commit == ~committed /\ committed' /\ UNCHANGED effects

Apply == committed /\ effects = 0 /\ effects' = 1 /\ UNCHANGED committed

Spec == Init /\ [][Commit \/ Apply]_vars
=============================================================================
