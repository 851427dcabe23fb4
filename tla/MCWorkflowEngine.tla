--------------------------- MODULE MCWorkflowEngine ---------------------------
(* Instances of WorkflowEngine for TLC. *)
EXTENDS WorkflowEngine

CONSTANT ghost

\* Every dependency graph on the steps, cyclic and dangling ones included.
AllGraphs == [Steps -> SUBSET (Steps \cup {ghost})]
=============================================================================
