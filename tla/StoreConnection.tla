--------------------------- MODULE StoreConnection ---------------------------
(***************************************************************************)
(* The connection of a tenant to its Salla store (src/integrations): the   *)
(* OAuth callback that installs it, the customer questions that use and    *)
(* refresh its tokens, the webhooks that replace or revoke them and the    *)
(* portal's disconnect.  Every database round trip and every call of the   *)
(* platform is a step of its own.  The ORM writes only the columns whose   *)
(* value differs from the one it loaded, so a handler that found the row   *)
(* active does not write "active" again.                                   *)
(*                                                                         *)
(* The access and the refresh token are written and cleared together and   *)
(* are one token here.  Signatures, time windows, rate limits and the      *)
(* expiry of nonces only drop requests; a request that is dropped is one   *)
(* that is never made.                                                     *)
(***************************************************************************)
EXTENDS Naturals, FiniteSets

CONSTANTS
  Projects,     \* tenants
  Stores,       \* stores on the platform
  Lookups,      \* customer questions being answered
  Callbacks,    \* requests to the OAuth callback
  Nonces,       \* installs begun in the portal
  Events,       \* bodies of webhook deliveries
  Handlers,     \* webhook and disconnect requests being served
  MaxTokens,    \* bound: tokens the platform issues
  MaxRestarts,  \* bound: restarts of the process
  None

ASSUME StoreAssumption ==
  /\ MaxTokens \in Nat /\ MaxRestarts \in Nat
  /\ None \notin Projects \cup Stores \cup Lookups \cup Events \cup Handlers \cup Nonces
  /\ "done" \notin Handlers \cup {None}

Tokens == 1..MaxTokens
NoToken == 0

VARIABLES
  row,       \* store_connections, one row per project
  live,      \* external: the tokens the platform honours, by store
  spent,     \* external: refresh tokens already exchanged for another
  made,      \* external: tokens issued so far
  nonce,     \* store_oauth_nonces
  lock,      \* _locks: the lookup that holds the connection's lock
  lookup,    \* answer_store_question, per question
  callback,  \* oauth_callback, per request
  event,     \* external: what the delivery says
  claim,     \* store_webhook_events: None, the handler inserting it, or "done"
  handler,   \* webhook and uninstall_local, per request
  restarts,
  burnt,     \* history: tokens spent although the answer was never stored
  raced,     \* history: the row was cleared, or its store linked, under a request still writing it
  twins      \* history: tokens that one event put into the rows of several tenants

platform == <<live, spent, made>>
history == <<restarts, burnt, raced, twins>>
vars == <<row, live, spent, made, nonce, lock, lookup, callback, event, claim,
          handler, restarts, burnt, raced, twins>>

NoRow == [status |-> "none", store |-> None, token |-> NoToken, due |-> FALSE]
Row == [status : {"none", "active", "uninstalled"}, store : Stores \cup {None},
        token : Tokens \cup {NoToken}, due : BOOLEAN]
IdleLookup == [pc |-> "idle", project |-> None, seen |-> NoRow, token |-> NoToken, forced |-> FALSE]
NewCallback == [pc |-> "new", nonce |-> None, store |-> None, token |-> NoToken, seen |-> NoRow]
IdleHandler == [pc |-> "idle", event |-> None, project |-> None, seen |-> [p \in Projects |-> NoRow]]

TypeOK ==
  /\ row \in [Projects -> Row]
  /\ live \in [Stores -> SUBSET Tokens] /\ spent \subseteq Tokens /\ made \in 0..MaxTokens
  /\ nonce \in [Nonces -> [project : Projects \cup {None}, used : BOOLEAN]]
  /\ lock \in [Projects -> Lookups \cup {None}]
  /\ lookup \in [Lookups -> [pc : {"idle", "lock", "asked", "answered", "calling"},
                             project : Projects \cup {None}, seen : Row,
                             token : Tokens \cup {NoToken}, forced : BOOLEAN]]
  /\ callback \in [Callbacks -> [pc : {"new", "claim", "exchange", "check", "load", "save",
                                       "linked", "failed", "rejected"},
                                 nonce : Nonces \cup {None}, store : Stores \cup {None},
                                 token : Tokens \cup {NoToken}, seen : Row]]
  /\ event \in [Events -> [kind : {"none", "uninstall", "authorize"},
                           store : Stores \cup {None}, token : Tokens \cup {NoToken}]]
  /\ claim \in [Events -> Handlers \cup {None, "done"}]
  /\ handler \in [Handlers -> [pc : {"idle", "load", "commit"}, event : Events \cup {None},
                               project : Projects \cup {None}, seen : [Projects -> Row]]]
  /\ restarts \in 0..MaxRestarts /\ burnt \subseteq Tokens /\ raced \in [Projects -> BOOLEAN]
  /\ twins \subseteq Tokens

Init ==
  /\ row = [p \in Projects |-> NoRow]
  /\ live = [s \in Stores |-> {}] /\ spent = {} /\ made = 0
  /\ nonce = [n \in Nonces |-> [project |-> None, used |-> FALSE]]
  /\ lock = [p \in Projects |-> None]
  /\ lookup = [l \in Lookups |-> IdleLookup]
  /\ callback = [c \in Callbacks |-> NewCallback]
  /\ event = [e \in Events |-> [kind |-> "none", store |-> None, token |-> NoToken]]
  /\ claim = [e \in Events |-> None]
  /\ handler = [h \in Handlers |-> IdleHandler]
  /\ restarts = 0 /\ burnt = {} /\ raced = [p \in Projects |-> FALSE] /\ twins = {}

\* What a handler remembers of a row: expires_at is written anew with every token.
Seen(r) == [r EXCEPT !.due = FALSE]

\* What an UPDATE leaves in a column that holds cur, was loaded as old and set to new.
Dirty(cur, old, new) == IF new = old THEN cur ELSE new

StatusOnly(r, s) ==  \* mutant: the tokens are kept
  [r EXCEPT !.status = Dirty(@, s.status, "uninstalled")]

\* wipe(): the UPDATE of a row loaded as s, on the row as it is now.
Wipe(r, s) == [r EXCEPT !.status = Dirty(@, s.status, "uninstalled"),
                        !.token = Dirty(@, s.token, NoToken)]

\* apply_token_response(): sealing gives a new ciphertext, so the token is always written.
ApplyTokens(r, s, t) == [r EXCEPT !.status = Dirty(@, s.status, "active"), !.token = t, !.due = FALSE]

Issue(s, drop) ==
  /\ made < MaxTokens /\ made' = made + 1
  /\ live' = [live EXCEPT ![s] = (@ \ drop) \cup {made + 1}]

-----------------------------------------------------------------------------
(* Customer questions: _with_retry, ensure_fresh, force_refresh.           *)

\* answer_store_question() finds an active connection.
StartLookup(l, p) ==
  /\ lookup[l].pc = "idle" /\ row[p].status = "active"
  /\ lookup' = [lookup EXCEPT ![l] = [IdleLookup EXCEPT !.pc = "lock", !.project = p]]
  /\ UNCHANGED <<row, platform, nonce, lock, callback, event, claim, handler, history>>

LockIgnored(p) == TRUE  \* mutant: no lock per connection

LockFree(p) == lock[p] = None

Releasing(l) == [lock EXCEPT ![lookup[l].project] = None]

\* Under the lock the row is read again.  ensure_fresh() wants it active and refreshes it
\* when due; force_refresh() only wants a refresh token.
Acquire(l) ==
  LET p == lookup[l].project
      r == row[p]
      fails == r.token = NoToken \/ (~lookup[l].forced /\ r.status # "active")
      refreshes == ~fails /\ (lookup[l].forced \/ r.due)
  IN  /\ lookup[l].pc = "lock" /\ LockFree(p)
      /\ lock' = IF refreshes THEN [lock EXCEPT ![p] = l] ELSE lock
      /\ lookup' = [lookup EXCEPT ![l] =
           IF fails THEN IdleLookup
           ELSE [@ EXCEPT !.pc = IF refreshes THEN "asked" ELSE "calling", !.seen = Seen(r), !.token = r.token]]
      /\ UNCHANGED <<row, platform, nonce, callback, event, claim, handler, history>>

\* The platform exchanges the single-use refresh token for a new one.
PlatformRefreshes(l) ==
  LET t == lookup[l].token IN
  /\ lookup[l].pc = "asked"
  /\ \E s \in Stores : t \in live[s] /\ Issue(s, {t})
  /\ spent' = spent \cup {t}
  /\ lookup' = [lookup EXCEPT ![l].pc = "answered", ![l].token = made + 1]
  /\ UNCHANGED <<row, nonce, lock, callback, event, claim, handler, history>>

\* It refuses, or the network fails before or after the exchange.
RefreshFails(l) ==
  /\ lookup[l].pc \in {"asked", "answered"}
  /\ burnt' = IF lookup[l].pc = "answered" THEN burnt \cup {lookup[l].seen.token} ELSE burnt
  /\ lock' = Releasing(l)
  /\ lookup' = [lookup EXCEPT ![l] = IdleLookup]
  /\ UNCHANGED <<row, platform, nonce, callback, event, claim, handler, restarts, raced, twins>>

\* _refresh() stores the new tokens at once and leaves the lock.
StoreRefreshed(l) ==
  LET p == lookup[l].project IN
  /\ lookup[l].pc = "answered"
  /\ row' = [row EXCEPT ![p] = ApplyTokens(@, lookup[l].seen, lookup[l].token)]
  /\ lock' = Releasing(l)
  /\ lookup' = [lookup EXCEPT ![l].pc = "calling", ![l].seen = NoRow]
  /\ UNCHANGED <<platform, nonce, callback, event, claim, handler, history>>

Honoured(t) == \E s \in Stores : t \in live[s]

\* The order or product call: answered, or failed for any reason but a 401.
CallEnds(l) ==
  /\ lookup[l].pc = "calling"
  /\ lookup' = [lookup EXCEPT ![l] = IdleLookup]
  /\ UNCHANGED <<row, platform, nonce, lock, callback, event, claim, handler, history>>

\* A 401 on the first call forces one refresh.
CallUnauthorized(l) ==
  /\ lookup[l].pc = "calling" /\ ~lookup[l].forced /\ ~Honoured(lookup[l].token)
  /\ lookup' = [lookup EXCEPT ![l] = [@ EXCEPT !.pc = "lock", !.forced = TRUE, !.seen = NoRow, !.token = NoToken]]
  /\ UNCHANGED <<row, platform, nonce, lock, callback, event, claim, handler, history>>

\* Time passes: expires_at comes within the skew.
Expire(p) ==
  /\ row[p].token # NoToken /\ ~row[p].due
  /\ row' = [row EXCEPT ![p].due = TRUE]
  /\ UNCHANGED <<platform, nonce, lock, lookup, callback, event, claim, handler, history>>

-----------------------------------------------------------------------------
(* Installation: install, oauth_callback, save_install.                    *)

Finished(c, pc) == [callback EXCEPT ![c] = [NewCallback EXCEPT !.pc = pc, !.nonce = callback[c].nonce]]

\* The portal starts an install for p.
IssueNonce(n, p) ==
  /\ nonce[n].project = None
  /\ nonce' = [nonce EXCEPT ![n].project = p]
  /\ UNCHANGED <<row, platform, lock, lookup, callback, event, claim, handler, history>>

\* The browser of the owner of store s comes back with nonce n, which is read unused.
ReadNonce(c, n, s) ==
  /\ callback[c].pc = "new" /\ nonce[n].project # None
  /\ ~nonce[n].used
  /\ callback' = [callback EXCEPT ![c] = [@ EXCEPT !.pc = "claim", !.nonce = n, !.store = s]]
  /\ UNCHANGED <<row, platform, nonce, lock, lookup, event, claim, handler, history>>

ClaimUnchecked(c) ==  \* mutant: the UPDATE trusts the earlier read
  LET n == callback[c].nonce IN
  /\ callback[c].pc = "claim"
  /\ nonce' = [nonce EXCEPT ![n].used = TRUE]
  /\ callback' = [callback EXCEPT ![c].pc = "exchange"]
  /\ UNCHANGED <<row, platform, lock, lookup, event, claim, handler, history>>

\* claim_nonce(): UPDATE ... WHERE used_at IS NULL, committed before the exchange.
ClaimNonce(c) ==
  LET n == callback[c].nonce IN
  /\ callback[c].pc = "claim"
  /\ nonce' = [nonce EXCEPT ![n].used = TRUE]
  /\ callback' = IF nonce[n].used THEN Finished(c, "rejected") ELSE [callback EXCEPT ![c].pc = "exchange"]
  /\ UNCHANGED <<row, platform, lock, lookup, event, claim, handler, history>>

\* The code buys a token and the platform names the store.
Exchange(c) ==
  /\ callback[c].pc = "exchange"
  /\ Issue(callback[c].store, {}) /\ spent' = spent
  /\ callback' = [callback EXCEPT ![c].pc = "check", ![c].token = made + 1]
  /\ UNCHANGED <<row, nonce, lock, lookup, event, claim, handler, history>>

ExchangeFails(c) ==
  /\ callback[c].pc = "exchange"
  /\ callback' = Finished(c, "failed")
  /\ UNCHANGED <<row, platform, nonce, lock, lookup, event, claim, handler, history>>

ProjectOf(c) == nonce[callback[c].nonce].project

LinkedHere(p, s) == row[p].status = "active" /\ row[p].store = s  \* mutant: asks the tenant's own row

\* linked_elsewhere()
LinkedElsewhere(p, s) == \E q \in Projects \ {p} : row[q].status = "active" /\ row[q].store = s

CheckLinked(c) ==
  /\ callback[c].pc = "check"
  /\ callback' = IF LinkedElsewhere(ProjectOf(c), callback[c].store) THEN Finished(c, "failed")
                 ELSE [callback EXCEPT ![c].pc = "load"]
  /\ UNCHANGED <<row, platform, nonce, lock, lookup, event, claim, handler, history>>

LoadInstalled(c) ==
  /\ callback[c].pc = "load"
  /\ callback' = [callback EXCEPT ![c].pc = "save", ![c].seen = Seen(row[ProjectOf(c)])]
  /\ UNCHANGED <<row, platform, nonce, lock, lookup, event, claim, handler, history>>

\* A callback of q has found store s free and has yet to save.
PastCheck(q, s) == \E d \in Callbacks : /\ callback[d].pc \in {"load", "save"}
                                        /\ callback[d].store = s /\ ProjectOf(d) = q

\* Row r with what callback k writes.
Installed(r, k) ==
  [ApplyTokens(r, k.seen, k.token) EXCEPT !.store = Dirty(r.store, k.seen.store, k.store)]

\* INSERT, which the unique key may refuse, or UPDATE of the row that was loaded.
SaveInstall(c) ==
  LET p == ProjectOf(c)
      s == callback[c].seen
      clash == s.status = "none" /\ row[p].status # "none"
  IN  /\ callback[c].pc = "save"
      /\ row' = IF clash THEN row
                ELSE [row EXCEPT ![p] = Installed(@, callback[c])]
      /\ callback' = Finished(c, IF clash THEN "failed" ELSE "linked")
      /\ raced' = [q \in Projects |-> raced[q] \/ (q # p /\ PastCheck(q, callback[c].store))]
      /\ UNCHANGED <<platform, nonce, lock, lookup, event, claim, handler, restarts, burnt, twins>>

-----------------------------------------------------------------------------
(* Webhooks and disconnect.                                                *)

\* The merchant uninstalls the app: no token of the store is honoured any more.
MerchantUninstalls(e, s) ==
  /\ event[e].kind = "none" /\ live[s] # {}
  /\ live' = [live EXCEPT ![s] = {}]
  /\ event' = [event EXCEPT ![e] = [kind |-> "uninstall", store |-> s, token |-> NoToken]]
  /\ UNCHANGED <<row, spent, made, nonce, lock, lookup, callback, claim, handler, history>>

\* The merchant authorizes the app again: the tokens come in the event.
MerchantAuthorizes(e, s) ==
  /\ event[e].kind = "none"
  /\ Issue(s, {})
  /\ event' = [event EXCEPT ![e] = [kind |-> "authorize", store |-> s, token |-> made + 1]]
  /\ UNCHANGED <<row, spent, nonce, lock, lookup, callback, claim, handler, history>>

TakeAgain(h, e) ==  \* mutant: a body seen before is taken again
  /\ handler[h].pc = "idle" /\ event[e].kind # "none" /\ claim[e] \in {None, "done"}
  /\ claim' = [claim EXCEPT ![e] = h]
  /\ handler' = [handler EXCEPT ![h] = [@ EXCEPT !.pc = "load", !.event = e]]
  /\ UNCHANGED <<row, platform, nonce, lock, lookup, callback, event, history>>

\* claim_event(): the INSERT waits for one in progress and fails after a committed one.
\* A delivery may arrive late, again, or never.
ClaimEvent(h, e) ==
  /\ handler[h].pc = "idle" /\ event[e].kind # "none" /\ claim[e] = None
  /\ claim' = [claim EXCEPT ![e] = h]
  /\ handler' = [handler EXCEPT ![h] = [@ EXCEPT !.pc = "load", !.event = e]]
  /\ UNCHANGED <<row, platform, nonce, lock, lookup, callback, event, history>>

\* DELETE .../stores/salla in the portal
StartDisconnect(h, p) ==
  /\ handler[h].pc = "idle"
  /\ handler' = [handler EXCEPT ![h] = [@ EXCEPT !.pc = "load", !.project = p]]
  /\ UNCHANGED <<row, platform, nonce, lock, lookup, callback, event, claim, history>>

\* The rows a request is about: a webhook selects the active ones of its store.
Targets(h) ==
  IF handler[h].event = None
  THEN {p \in {handler[h].project} : row[p].status # "none"}
  ELSE {p \in Projects : row[p].status = "active" /\ row[p].store = event[handler[h].event].store}

LoadRows(h) ==
  /\ handler[h].pc = "load"
  /\ handler' = [handler EXCEPT ![h].pc = "commit",
                                ![h].seen = [p \in Projects |-> IF p \in Targets(h) THEN Seen(row[p]) ELSE NoRow]]
  /\ UNCHANGED <<row, platform, nonce, lock, lookup, callback, event, claim, history>>

Authorizes(h) == handler[h].event # None /\ event[handler[h].event].kind = "authorize"

\* The tenants whose rows the request has loaded.
Loaded(h) == {p \in Projects : handler[h].seen[p].status # "none"}

Updated(h, p) ==
  IF p \notin Loaded(h) THEN row[p]
  ELSE IF Authorizes(h) THEN ApplyTokens(row[p], handler[h].seen[p], event[handler[h].event].token)
  ELSE Wipe(row[p], handler[h].seen[p])

\* A request that has read p's row and has yet to write tokens into it.
Writing(p) ==
  \/ \E l \in Lookups : lookup[l].project = p /\ lookup[l].pc \in {"asked", "answered"}
  \/ \E c \in Callbacks : callback[c].pc = "save" /\ ProjectOf(c) = p
  \/ \E h \in Handlers : /\ handler[h].pc = "commit" /\ Authorizes(h)
                         /\ p \in Loaded(h)

\* One commit for the claim and the rows.
CommitRows(h) ==
  /\ handler[h].pc = "commit"
  /\ row' = [p \in Projects |-> Updated(h, p)]
  /\ claim' = IF handler[h].event = None THEN claim ELSE [claim EXCEPT ![handler[h].event] = "done"]
  /\ raced' = [p \in Projects |-> raced[p] \/
                 (p \in Loaded(h) /\ ~Authorizes(h) /\ Writing(p))]
  /\ twins' = IF Authorizes(h) /\ \E p, q \in Loaded(h) : p # q
              THEN twins \cup {event[handler[h].event].token} ELSE twins
  /\ handler' = [handler EXCEPT ![h] = IdleHandler]
  /\ UNCHANGED <<platform, nonce, lock, lookup, callback, event, restarts, burnt>>

\* Where a restart leaves a callback.
CutShort(pc) == IF pc = "claim" THEN "rejected"
                ELSE IF pc \in {"exchange", "check", "load", "save"} THEN "failed" ELSE pc

\* The process restarts: requests and locks are gone, open transactions are rolled back.
Restart ==
  /\ restarts < MaxRestarts /\ restarts' = restarts + 1
  /\ burnt' = burnt \cup {lookup[l].seen.token : l \in {k \in Lookups : lookup[k].pc = "answered"}}
  /\ lock' = [p \in Projects |-> None]
  /\ lookup' = [l \in Lookups |-> IdleLookup]
  /\ callback' = [c \in Callbacks |-> [NewCallback EXCEPT
       !.pc = CutShort(callback[c].pc),
       !.nonce = callback[c].nonce]]
  /\ claim' = [e \in Events |-> IF claim[e] \in Handlers THEN None ELSE claim[e]]
  /\ handler' = [h \in Handlers |-> IdleHandler]
  /\ UNCHANGED <<row, platform, nonce, event, raced, twins>>

-----------------------------------------------------------------------------
Refreshing(l) ==
  \/ PlatformRefreshes(l) \/ RefreshFails(l) \/ StoreRefreshed(l)
  \/ CallEnds(l) \/ CallUnauthorized(l)

Question(l) == Acquire(l) \/ Refreshing(l) \/ \E p \in Projects : StartLookup(l, p)

Install(c) ==
  \/ ClaimNonce(c) \/ Exchange(c) \/ ExchangeFails(c) \/ CheckLinked(c) \/ LoadInstalled(c)
  \/ SaveInstall(c)
  \/ \E n \in Nonces, s \in Stores : ReadNonce(c, n, s)

Request(h) ==
  \/ LoadRows(h) \/ CommitRows(h)
  \/ \E e \in Events : ClaimEvent(h, e)
  \/ \E p \in Projects : StartDisconnect(h, p)

Merchant ==
  \/ \E e \in Events, s \in Stores : MerchantUninstalls(e, s) \/ MerchantAuthorizes(e, s)
  \/ \E n \in Nonces, p \in Projects : IssueNonce(n, p)

Next ==
  \/ \E l \in Lookups : Question(l)
  \/ \E c \in Callbacks : Install(c)
  \/ \E h \in Handlers : Request(h)
  \/ Merchant \/ Restart
  \/ \E p \in Projects : Expire(p)

Spec == Init /\ [][Next]_vars

-----------------------------------------------------------------------------
\* A single-use refresh token is presented once: a lookup never sends one that is spent,
\* unless the answer that replaced it was lost, or an event gave it to two tenants linked to
\* one store: the lock of ensure_fresh (tokens.py:101) is one per tenant.
RefreshedOnce == \A l \in Lookups : lookup[l].pc = "asked" /\ lookup[l].token \in spent
                                      => lookup[l].token \in burnt \cup twins

\* No commit puts a spent token into a row: not a rollback, not a webhook that comes again
\* (tokens.py:98, claim_event).
NoSpentTokenBack ==
  [][\A p \in Projects : row'[p].token # row[p].token => row'[p].token \notin spent']_vars

\* A nonce lets one callback exchange its code, whatever then happens to it (routes.py:187).
OneExchangePerNonce ==
  \A c, d \in Callbacks : /\ c # d /\ callback[c].nonce = callback[d].nonce
                          /\ callback[c].pc \in {"exchange", "check", "load", "save", "linked", "failed"}
                          => callback[d].pc \in {"new", "claim", "rejected"}

\* Uninstalling clears the tokens, unless a request that read the row before was still to
\* write it (wipe, tokens.py:58).
Cleared == \A p \in Projects : row[p].status = "uninstalled" /\ ~raced[p] => row[p].token = NoToken

\* Two tenants never answer from the same store, except after the races of the history:
\* "store_already_linked" (save_install, service.py:260).
LinkedOnce ==
  \A p, q \in Projects : /\ p # q /\ row[p].status = "active" /\ row[q].status = "active"
                         /\ row[p].store = row[q].store
                         => raced[p] \/ raced[q]

\* "An authenticated Zid uninstall skips the window so tokens are always cleared"
\* (replay.py:11): a store whose uninstall was processed has no tokens left in its row.
AlwaysCleared ==
  \A p \in Projects, e \in Events :
    /\ event[e].kind = "uninstall" /\ claim[e] = "done"
    /\ row[p].status = "uninstalled" /\ row[p].store = event[e].store
    => row[p].token = NoToken
=============================================================================
