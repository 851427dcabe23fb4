---------------------------- MODULE MCSalesChat ----------------------------
(* Instances for TLC of the sales components: the conversations, the leads, and the rows of an *)
(* imported workbook.  They share no state, and in every behaviour one of them moves.          *)
EXTENDS SalesChat, Leads, LeadMerge, TLC

CONSTANTS l1, m1, m2, h1, h2, c1, o1, o2, n1, n2

VARIABLE moving  \* the component that moves

SalesInit == moving \in {"chat", "leads", "merge"} /\ Init /\ LeadsInit /\ MergeInit

SalesNext ==
  /\ \/ moving = "chat" /\ Next /\ UNCHANGED <<leadsVars, mergeVars>>
     \/ moving = "leads" /\ LeadsNext /\ UNCHANGED <<vars, mergeVars>>
     \/ moving = "merge" /\ MergeNext /\ UNCHANGED <<vars, leadsVars>>
  /\ UNCHANGED moving

SalesSpec == SalesInit /\ [][SalesNext]_<<moving, vars, leadsVars, mergeVars>>

OneLead == [m \in Messages |-> l1]
AskThenStop == [m \in Messages |-> IF m = m1 THEN "ask" ELSE "stop"]

\* Two values stand for the handlers of the conversations and for the desks of the leads.
HandlerSymmetry == Permutations(Handlers)
=============================================================================
