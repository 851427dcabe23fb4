-------------------------- MODULE MCSettlementEvents --------------------------
(* Instances of SettlementEvents for TLC. *)
EXTENDS SettlementEvents

CONSTANTS a, b, r1, r2
=============================================================================
