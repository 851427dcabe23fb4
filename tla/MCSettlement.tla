---------------------------- MODULE MCSettlement ----------------------------
(* Instances of Settlement for TLC. *)
EXTENDS Settlement, TLC

CONSTANTS a, b, n1, n2, n3, r1, r2

\* Handlers are interchangeable.
HandlerSymmetry == Permutations(Requests)
=============================================================================
