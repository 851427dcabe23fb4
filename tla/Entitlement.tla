----------------------------- MODULE Entitlement -----------------------------
(***************************************************************************)
(* What src/services/payments.py and src/services/renewals.py promise a    *)
(* subscriber: every order buys its period once, an early or slightly late *)
(* renewal continues from the old end, and access is only taken away when  *)
(* the period and its grace are over.                                      *)
(***************************************************************************)
EXTENDS Integers

CONSTANTS Payments, Month, Grace

VARIABLES access,  \* "pending", "active" or "expired"
          until,   \* end of the paid period, 0 before the first one
          spent,   \* orders that have bought their period
          today

entitlementVars == <<access, until, spent, today>>

\* A lapsed subscription restarts today, any other continues from its end.
Extended(end, day) == (IF end > day - Grace THEN end ELSE day) + Month

EntitlementInit ==
  access = "pending" /\ until = 0 /\ spent = {} /\ today = Grace

Redeem(p) ==
  /\ p \notin spent
  /\ spent' = spent \cup {p}
  /\ until' = Extended(until, today)
  /\ access' = "active"
  /\ UNCHANGED today

Lapse ==
  /\ access = "active" /\ today > until + Grace
  /\ access' = "expired"
  /\ UNCHANGED <<until, spent, today>>

NextDay == today' = today + 1 /\ UNCHANGED <<access, until, spent>>

EntitlementNext == (\E p \in Payments : Redeem(p)) \/ Lapse \/ NextDay

EntitlementSpec == EntitlementInit /\ [][EntitlementNext]_entitlementVars
=============================================================================
