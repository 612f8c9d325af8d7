----------------------------- MODULE MCGateway ------------------------------
(* Instances of Gateway for TLC.                                           *)
EXTENDS Gateway

CONSTANTS s1, s2

MCInstances == <<s1, s2>>
=============================================================================
