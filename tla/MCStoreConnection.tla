-------------------------- MODULE MCStoreConnection --------------------------
(* Instances of StoreConnection for TLC. *)
EXTENDS StoreConnection, TLC

CONSTANTS p1, p2, s1, l1, l2, c1, c2, n1, n2, e1, e2, h1, h2

Alike == Permutations(Projects) \cup Permutations(Lookups) \cup Permutations(Callbacks)
         \cup Permutations(Nonces) \cup Permutations(Events) \cup Permutations(Handlers)

\* One run for two instances: one project with one nonce under two questions and two webhook
\* or disconnect requests at once, and two projects of which one is asked about or disconnected.
Touched ==
  {p \in Projects : \/ row[p] # NoRow \/ \E n \in Nonces : nonce[n].project = p
                    \/ \E l \in Lookups : lookup[l].project = p
                    \/ \E h \in Handlers : handler[h].project = p}
Issued == {n \in Nonces : nonce[n].project # None}
AtMostOne(S) == \A x, y \in S : x = y
Busy == {l \in Lookups : lookup[l] # IdleLookup} \cup {h \in Handlers : handler[h] # IdleHandler}

\* The fourth token is for two tenants without a restart.
Small ==
  \/ AtMostOne(Busy) /\ (made < MaxTokens \/ restarts = 0)
  \/ AtMostOne(Touched) /\ AtMostOne(Issued) /\ made < MaxTokens

SmallSpec == Init /\ [][Next /\ Small']_vars
=============================================================================
