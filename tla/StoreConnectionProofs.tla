------------------------ MODULE StoreConnectionProofs ------------------------
(***************************************************************************)
(* Proofs about the connection of tenants to their stores, for any number  *)
(* of tenants, stores, questions, callbacks, webhooks and restarts.        *)
(***************************************************************************)
EXTENDS StoreConnection, TLAPS

\* What is set at each place of a question, of a callback and of a request.
Lookup == [pc : {"idle", "lock", "asked", "answered", "calling"}, project : Projects \cup {None},
           seen : Row, token : Tokens \cup {NoToken}, forced : BOOLEAN]
LookupOK(k) ==
  /\ k \in Lookup
  /\ k.pc # "idle" => k.project \in Projects
  /\ k.pc \in {"asked", "answered"} => k.token \in Tokens /\ k.seen.token \in Tokens
  /\ k.pc = "asked" => k.token = k.seen.token

Callback == [pc : {"new", "claim", "exchange", "check", "load", "save", "linked", "failed", "rejected"},
             nonce : Nonces \cup {None}, store : Stores \cup {None}, token : Tokens \cup {NoToken}, seen : Row]
CallbackOK(k) ==
  /\ k \in Callback
  /\ k.pc # "new" => k.nonce \in Nonces /\ nonce[k.nonce].project \in Projects
  /\ k.pc \in {"claim", "exchange", "check", "load", "save"} => k.store \in Stores
  /\ k.pc \in {"check", "load", "save"} => k.token \in Tokens

Handler == [pc : {"idle", "load", "commit"}, event : Events \cup {None}, project : Projects \cup {None},
            seen : [Projects -> Row]]
HandlerOK(h) ==
  /\ handler[h] \in Handler /\ (handler[h].pc = "idle" => handler[h].event = None)
  /\ handler[h].pc # "idle" => \/ handler[h].event = None /\ handler[h].project \in Projects
                               \/ handler[h].event \in Events /\ claim[handler[h].event] = h

LookupsOK == lookup \in [Lookups -> Lookup] /\ \A l \in Lookups : LookupOK(lookup[l])
CallbacksOK == callback \in [Callbacks -> Callback] /\ \A c \in Callbacks : CallbackOK(callback[c])
HandlersOK == handler \in [Handlers -> Handler] /\ \A h \in Handlers : HandlerOK(h)
EventsOK ==
  /\ event \in [Events -> [kind : {"none", "uninstall", "authorize"},
                           store : Stores \cup {None}, token : Tokens \cup {NoToken}]]
  /\ claim \in [Events -> Handlers \cup {None, "done"}]
  /\ \A e \in Events : /\ event[e].kind = "authorize" => event[e].token \in Tokens
                       /\ event[e].kind = "none" => claim[e] = None
NoncesOK == nonce \in [Nonces -> [project : Projects \cup {None}, used : BOOLEAN]]
PlatformOK == live \in [Stores -> SUBSET Tokens] /\ spent \subseteq Tokens /\ made \in 0..MaxTokens
RowsOK == row \in [Projects -> Row]
HistoryOK ==
  /\ lock \in [Projects -> Lookups \cup {None}] /\ restarts \in 0..MaxRestarts
  /\ burnt \subseteq Tokens /\ twins \subseteq Tokens /\ raced \in [Projects -> BOOLEAN]

Shape == /\ RowsOK /\ PlatformOK /\ NoncesOK /\ EventsOK /\ HistoryOK
         /\ LookupsOK /\ CallbacksOK /\ HandlersOK

-----------------------------------------------------------------------------
LEMMA TokenFacts == /\ NoToken \notin Tokens /\ NoToken \in Nat /\ Tokens \subseteq Nat
                    /\ made \in 0..MaxTokens /\ made < MaxTokens => made + 1 \in Tokens /\ made + 1 \in 0..MaxTokens
BY StoreAssumption DEF Tokens, NoToken

LEMMA RowFacts ==
  ASSUME NEW r \in Row, NEW s \in Row
  PROVE  /\ NoRow \in Row /\ Seen(r) \in Row /\ Wipe(r, s) \in Row
         /\ \A t \in Tokens : ApplyTokens(r, s, t) \in Row
         /\ Seen(r).status = r.status /\ Seen(r).store = r.store /\ Seen(r).token = r.token
BY DEF Row, NoRow, Seen, Wipe, ApplyTokens, Dirty

LEMMA Idle ==
  /\ LookupOK(IdleLookup) /\ IdleLookup.pc = "idle" /\ IdleLookup.project = None
  /\ CallbackOK(NewCallback) /\ NewCallback.pc = "new"
  /\ IdleHandler \in Handler /\ IdleHandler.pc = "idle" /\ IdleHandler.event = None
BY DEF IdleLookup, NewCallback, IdleHandler, LookupOK, Lookup, CallbackOK, Callback, Handler, Row, NoRow

LEMMA ShapeTypes == Shape => TypeOK
BY DEF Shape, TypeOK, RowsOK, PlatformOK, NoncesOK, EventsOK, HistoryOK, LookupsOK, CallbacksOK, HandlersOK,
   Lookup, Callback, Handler

LEMMA ShapeInit == Init => Shape
<1> SUFFICES ASSUME Init PROVE Shape
  OBVIOUS
<1>1. RowsOK /\ PlatformOK /\ NoncesOK /\ EventsOK /\ HistoryOK
  BY StoreAssumption DEF Init, RowsOK, PlatformOK, NoncesOK, EventsOK, HistoryOK, Row, NoRow, Tokens, NoToken
<1>2. LookupsOK /\ CallbacksOK /\ HandlersOK
  BY Idle DEF Init, LookupsOK, CallbacksOK, HandlersOK, LookupOK, CallbackOK, HandlerOK
<1> QED BY <1>1, <1>2 DEF Shape

\* A question, a callback or a request moves on.
LEMMA LookupMoves ==
  ASSUME LookupsOK, NEW l \in Lookups, NEW v, LookupOK(v), lookup' = [lookup EXCEPT ![l] = v]
  PROVE  LookupsOK'
BY DEF LookupsOK, LookupOK

LEMMA CallbackMoves ==
  ASSUME CallbacksOK, NEW c \in Callbacks, NEW v, CallbackOK(v), callback' = [callback EXCEPT ![c] = v],
         \A n \in Nonces : nonce'[n].project = nonce[n].project
  PROVE  CallbacksOK'
BY DEF CallbacksOK, CallbackOK

LEMMA Stays ==
  /\ UNCHANGED lookup /\ LookupsOK => LookupsOK'
  /\ UNCHANGED callback /\ CallbacksOK /\ (\A n \in Nonces : nonce[n].project \in {None, nonce'[n].project})
       /\ None \notin Projects => CallbacksOK'
  /\ UNCHANGED <<handler, claim>> /\ HandlersOK => HandlersOK'
  /\ UNCHANGED <<event, claim>> /\ EventsOK => EventsOK'
  /\ UNCHANGED row /\ RowsOK => RowsOK'
  /\ UNCHANGED platform /\ PlatformOK => PlatformOK'
  /\ UNCHANGED nonce /\ NoncesOK => NoncesOK'
  /\ UNCHANGED <<lock, history>> /\ HistoryOK => HistoryOK'
BY DEF LookupsOK, LookupOK, CallbacksOK, CallbackOK, HandlersOK, HandlerOK, EventsOK, RowsOK, PlatformOK,
   NoncesOK, HistoryOK, platform, history

\* A question only touches its own place, its tenant's row and lock, and the platform.
LEMMA QuestionShape == ASSUME Shape, NEW l \in Lookups, Question(l) PROVE Shape'
<1> DEFINE k == lookup[l]
           p == k.project
<1>0. /\ UNCHANGED <<callback, nonce, event, claim, handler>> => CallbacksOK' /\ NoncesOK' /\ EventsOK' /\ HandlersOK'
      /\ LookupOK(k) /\ row[p] \in Row \cup {row[p]} /\ (p \in Projects => row[p] \in Row)
  BY Stays, StoreAssumption DEF Shape, LookupsOK, RowsOK, NoncesOK
<1>1. ASSUME NEW q \in Projects, StartLookup(l, q) PROVE Shape'
  <2>1. LookupOK([IdleLookup EXCEPT !.pc = "lock", !.project = q])
    BY Idle DEF LookupOK, Lookup
  <2> QED BY <1>0, <1>1, <2>1, LookupMoves, Stays DEF StartLookup, Shape
<1>2. CASE Acquire(l)
  <2> DEFINE r == row[p]
             moved(to) == [k EXCEPT !.pc = to, !.seen = Seen(r), !.token = r.token]
  <2>1. p \in Projects /\ r \in Row
    BY <1>0, <1>2 DEF Acquire, LookupOK
  <2>2. r.token # NoToken => LookupOK(moved("asked")) /\ LookupOK(moved("calling"))
    BY <1>0, <2>1, RowFacts DEF LookupOK, Lookup, Row
  <2>3. \E v : LookupOK(v) /\ lookup' = [lookup EXCEPT ![l] = v]
    BY <1>2, <2>2, Idle DEF Acquire
  <2>4. HistoryOK'
    BY <1>2, <2>1 DEF Acquire, Shape, HistoryOK, history
  <2> QED BY <1>0, <1>2, <2>3, <2>4, LookupMoves, Stays DEF Acquire, Shape
<1>3. CASE PlatformRefreshes(l)
  <2>1. LookupOK([k EXCEPT !.pc = "answered", !.token = made + 1])
    BY <1>0, <1>3, TokenFacts DEF PlatformRefreshes, Issue, LookupOK, Lookup, Shape, PlatformOK
  <2>2. PlatformOK'
    BY <1>0, <1>3, TokenFacts DEF PlatformRefreshes, Issue, LookupOK, Lookup, Shape, PlatformOK
  <2>3. lookup' = [lookup EXCEPT ![l] = [k EXCEPT !.pc = "answered", !.token = made + 1]]
    BY <1>3 DEF PlatformRefreshes, Shape, LookupsOK
  <2> QED BY <1>0, <1>3, <2>1, <2>2, <2>3, LookupMoves, Stays DEF PlatformRefreshes, Shape
<1>4. CASE RefreshFails(l)
  <2>1. HistoryOK'
    BY <1>0, <1>4 DEF RefreshFails, Releasing, Shape, HistoryOK, LookupOK
  <2> QED BY <1>0, <1>4, <2>1, Idle, LookupMoves, Stays DEF RefreshFails, Shape
<1>5. CASE StoreRefreshed(l)
  <2>1. p \in Projects /\ ApplyTokens(row[p], k.seen, k.token) \in Row
    BY <1>0, <1>5, RowFacts DEF StoreRefreshed, LookupOK, Lookup
  <2>2. RowsOK'
    BY <1>5, <2>1 DEF StoreRefreshed, Shape, RowsOK
  <2>3. HistoryOK'
    BY <1>0, <1>5 DEF StoreRefreshed, Releasing, Shape, HistoryOK, history
  <2>4. LookupOK([k EXCEPT !.pc = "calling", !.seen = NoRow])
    BY <1>0, <1>5 DEF StoreRefreshed, LookupOK, Lookup, Row, NoRow
  <2>5. lookup' = [lookup EXCEPT ![l] = [k EXCEPT !.pc = "calling", !.seen = NoRow]]
    BY <1>5 DEF StoreRefreshed, Shape, LookupsOK
  <2> QED BY <1>0, <1>5, <2>2, <2>3, <2>4, <2>5, LookupMoves, Stays DEF StoreRefreshed, Shape
<1>6. CASE CallEnds(l)
  BY <1>0, <1>6, Idle, LookupMoves, Stays DEF CallEnds, Shape
<1>7. CASE CallUnauthorized(l)
  <2>1. LookupOK([k EXCEPT !.pc = "lock", !.forced = TRUE, !.seen = NoRow, !.token = NoToken])
    BY <1>0, <1>7 DEF CallUnauthorized, LookupOK, Lookup, Row, NoRow
  <2> QED BY <1>0, <1>7, <2>1, LookupMoves, Stays DEF CallUnauthorized, Shape
<1> QED BY <1>1, <1>2, <1>3, <1>4, <1>5, <1>6, <1>7 DEF Question, Refreshing

\* A callback only touches its own place, its nonce, the rows and the platform.
LEMMA InstallShape == ASSUME Shape, NEW c \in Callbacks, Install(c) PROVE Shape'
<1> DEFINE k == callback[c]
<1>0. /\ UNCHANGED <<lookup, event, claim, handler>> => LookupsOK' /\ EventsOK' /\ HandlersOK'
      /\ CallbackOK(k) /\ k \in Callback
  BY Stays DEF Shape, CallbacksOK
<1>f. ASSUME NEW to \in {"linked", "failed", "rejected"}, k.pc # "new", callback' = Finished(c, to),
             \A n \in Nonces : nonce'[n].project = nonce[n].project
      PROVE  CallbacksOK'
  <2>1. CallbackOK([NewCallback EXCEPT !.pc = to, !.nonce = k.nonce])
    BY <1>0, <1>f, Idle DEF CallbackOK, Callback
  <2> QED BY <1>f, <2>1, CallbackMoves DEF Finished, Shape
<1>1. ASSUME NEW n \in Nonces, NEW s \in Stores, ReadNonce(c, n, s) PROVE Shape'
  <2>1. nonce[n].project \in Projects
    BY <1>1 DEF ReadNonce, Shape, NoncesOK
  <2>2. CallbackOK([k EXCEPT !.pc = "claim", !.nonce = n, !.store = s])
    BY <1>0, <2>1 DEF CallbackOK, Callback
  <2> QED BY <1>0, <1>1, <2>2, CallbackMoves, Stays DEF ReadNonce, Shape
<1>2. CASE ClaimNonce(c)
  <2>1. NoncesOK' /\ \A n \in Nonces : nonce'[n].project = nonce[n].project
    BY <1>2 DEF ClaimNonce, Shape, NoncesOK
  <2>2. CallbackOK([k EXCEPT !.pc = "exchange"])
    BY <1>0, <1>2 DEF ClaimNonce, CallbackOK, Callback
  <2>3. CallbacksOK'
    BY <1>2, <1>f, <2>1, <2>2, CallbackMoves DEF ClaimNonce, Shape, CallbacksOK
  <2> QED BY <1>0, <1>2, <2>1, <2>3, Stays DEF ClaimNonce, Shape
<1>3. CASE Exchange(c)
  <2>1. PlatformOK' /\ made + 1 \in Tokens
    BY <1>0, <1>3, TokenFacts DEF Exchange, Issue, CallbackOK, Shape, PlatformOK
  <2>2. CallbackOK([k EXCEPT !.pc = "check", !.token = made + 1])
    BY <1>0, <1>3, <2>1 DEF Exchange, CallbackOK, Callback
  <2>3. callback' = [callback EXCEPT ![c] = [k EXCEPT !.pc = "check", !.token = made + 1]]
    BY <1>3 DEF Exchange, Shape, CallbacksOK
  <2> QED BY <1>0, <1>3, <2>1, <2>2, <2>3, CallbackMoves, Stays DEF Exchange, Shape
<1>4. CASE ExchangeFails(c)
  BY <1>0, <1>4, <1>f, Stays DEF ExchangeFails, Shape
<1>5. CASE CheckLinked(c)
  <2>1. CallbackOK([k EXCEPT !.pc = "load"])
    BY <1>0, <1>5 DEF CheckLinked, CallbackOK, Callback
  <2>2. CallbacksOK'
    BY <1>5, <1>f, <2>1, CallbackMoves DEF CheckLinked, Shape, CallbacksOK
  <2> QED BY <1>0, <1>5, <2>2, Stays DEF CheckLinked, Shape
<1>6. CASE LoadInstalled(c)
  <2>1. ProjectOf(c) \in Projects
    BY <1>0, <1>6 DEF LoadInstalled, CallbackOK, ProjectOf
  <2>2. CallbackOK([k EXCEPT !.pc = "save", !.seen = Seen(row[ProjectOf(c)])])
    BY <1>0, <1>6, <2>1, RowFacts DEF LoadInstalled, CallbackOK, Callback, Shape, RowsOK
  <2>3. callback' = [callback EXCEPT ![c] = [k EXCEPT !.pc = "save", !.seen = Seen(row[ProjectOf(c)])]]
    BY <1>6 DEF LoadInstalled, Shape, CallbacksOK
  <2> QED BY <1>0, <1>6, <2>2, <2>3, CallbackMoves, Stays DEF LoadInstalled, Shape
<1>7. CASE SaveInstall(c)
  <2> DEFINE p == ProjectOf(c)
             new == Installed(row[p], k)
  <2>1. p \in Projects /\ k.store \in Stores /\ k.token \in Tokens /\ k.seen \in Row /\ row[p] \in Row
    BY <1>0, <1>7 DEF SaveInstall, CallbackOK, Callback, ProjectOf, Shape, RowsOK
  <2>2. ApplyTokens(row[p], k.seen, k.token) \in Row
    BY <2>1, RowFacts
  <2>3. new \in Row
    BY <2>1, <2>2 DEF Row, Dirty, Installed
  <2>4. row' \in {row, [row EXCEPT ![p] = new]}
    BY <1>7 DEF SaveInstall
  <2>5. RowsOK'
    BY <2>3, <2>4 DEF Shape, RowsOK
  <2>6. HistoryOK'
    BY <1>7 DEF SaveInstall, Shape, HistoryOK
  <2>7. CallbacksOK'
    BY <1>7, <1>f DEF SaveInstall
  <2> QED BY <1>0, <1>7, <2>5, <2>6, <2>7, Stays DEF SaveInstall, Shape
<1> QED BY <1>1, <1>2, <1>3, <1>4, <1>5, <1>6, <1>7 DEF Install

\* A webhook or a disconnect only touches its own place, its event's claim and the rows.
LEMMA RequestShape == ASSUME Shape, NEW h \in Handlers, Request(h) PROVE Shape'
<1> DEFINE k == handler[h]
<1>0. /\ UNCHANGED <<lookup, callback, nonce>> => LookupsOK' /\ CallbacksOK' /\ NoncesOK'
      /\ HandlerOK(h) /\ k \in Handler
  BY Stays, StoreAssumption DEF Shape, HandlersOK, HandlerOK, NoncesOK
<1>1. ASSUME NEW e \in Events, ClaimEvent(h, e) PROVE Shape'
  <2>1. HandlersOK' /\ EventsOK'
    <3>1. [k EXCEPT !.pc = "load", !.event = e] \in Handler
      BY <1>0 DEF Handler
    <3>2. claim[e] = None /\ claim' = [claim EXCEPT ![e] = h] /\ UNCHANGED event /\ event[e].kind # "none"
      BY <1>1 DEF ClaimEvent
    <3>3. handler' = [handler EXCEPT ![h] = [k EXCEPT !.pc = "load", !.event = e]]
      BY <1>1 DEF ClaimEvent
    <3>4. EventsOK'
      BY <3>2 DEF Shape, EventsOK
    <3>5. \A g \in Handlers \ {h} : HandlerOK(g)'
      BY <3>2, <3>3, StoreAssumption DEF Shape, HandlersOK, HandlerOK, EventsOK
    <3>6. HandlerOK(h)'
      BY <3>1, <3>2, <3>3 DEF Shape, HandlersOK, HandlerOK, EventsOK
    <3>7. handler' \in [Handlers -> Handler]
      BY <3>1, <3>3 DEF Shape, HandlersOK
    <3> QED BY <3>4, <3>5, <3>6, <3>7 DEF HandlersOK
  <2> QED BY <1>0, <1>1, <2>1, Stays DEF ClaimEvent, Shape
<1>2. ASSUME NEW p \in Projects, StartDisconnect(h, p) PROVE Shape'
  <2>1. HandlersOK'
    BY <1>0, <1>2 DEF StartDisconnect, Shape, HandlersOK, HandlerOK, Handler
  <2> QED BY <1>0, <1>2, <2>1, Stays DEF StartDisconnect, Shape
<1>3. CASE LoadRows(h)
  <2> DEFINE seen == [p \in Projects |-> IF p \in Targets(h) THEN Seen(row[p]) ELSE NoRow]
  <2>1. seen \in [Projects -> Row]
    BY RowFacts DEF Shape, RowsOK
  <2>2. handler' = [handler EXCEPT ![h] = [k EXCEPT !.pc = "commit", !.seen = seen]] /\ claim' = claim
    BY <1>3 DEF LoadRows, Shape, HandlersOK
  <2> HIDE DEF seen
  <2>3. [k EXCEPT !.pc = "commit", !.seen = seen] \in Handler
    BY <1>0, <2>1 DEF Handler
  <2>4. k.pc # "idle"
    BY <1>3 DEF LoadRows
  <2>5. HandlersOK'
    BY <1>0, <2>2, <2>3, <2>4 DEF Shape, HandlersOK, HandlerOK
  <2> QED BY <1>0, <1>3, <2>5, Stays DEF LoadRows, Shape
<1>4. CASE CommitRows(h)
  <2>1. k.seen \in [Projects -> Row] /\ Loaded(h) \subseteq Projects
    BY <1>0 DEF Loaded, Handler
  <2>2. Authorizes(h) => event[k.event].token \in Tokens
    BY <1>0, <1>4 DEF CommitRows, Authorizes, HandlerOK, Shape, EventsOK
  <2>3. \A p \in Projects : Updated(h, p) \in Row
    BY <2>1, <2>2, RowFacts DEF Updated, Shape, RowsOK
  <2>4. RowsOK' /\ HistoryOK'
    BY <1>4, <2>2, <2>3 DEF CommitRows, Shape, RowsOK, HistoryOK
  <2>5. \A g \in Handlers \ {h} : handler'[g] = handler[g] /\ (handler[g].event \in Events /\ claim[handler[g].event] = g
                                                              => claim'[handler[g].event] = g)
    BY <1>0, <1>4 DEF CommitRows, Shape, HandlersOK, HandlerOK, EventsOK
  <2>6. HandlersOK'
    BY <1>0, <1>4, <2>5, Idle DEF CommitRows, Shape, HandlersOK, HandlerOK
  <2>7. EventsOK'
    BY <1>0, <1>4, StoreAssumption DEF CommitRows, Shape, EventsOK, HandlerOK
  <2> QED BY <1>0, <1>4, <2>4, <2>6, <2>7, Stays DEF CommitRows, Shape
<1> QED BY <1>1, <1>2, <1>3, <1>4 DEF Request

LEMMA OthersShape ==
  ASSUME Shape, Merchant \/ Restart \/ (\E p \in Projects : Expire(p)) \/ UNCHANGED vars PROVE Shape'
<1>1. ASSUME NEW e \in Events, NEW s \in Stores, MerchantUninstalls(e, s) \/ MerchantAuthorizes(e, s) PROVE Shape'
  <2>1. EventsOK' /\ PlatformOK'
    <3>1. CASE MerchantUninstalls(e, s)
      BY <3>1 DEF MerchantUninstalls, Shape, EventsOK, PlatformOK
    <3>2. CASE MerchantAuthorizes(e, s)
      <4>1. made + 1 \in Tokens /\ made + 1 \in 0..MaxTokens
        BY <3>2, TokenFacts DEF MerchantAuthorizes, Issue, Shape, PlatformOK
      <4> QED BY <3>2, <4>1 DEF MerchantAuthorizes, Issue, Shape, EventsOK, PlatformOK
    <3> QED BY <1>1, <3>1, <3>2
  <2> QED BY <1>1, <2>1, Stays, StoreAssumption DEF MerchantUninstalls, MerchantAuthorizes, Shape, NoncesOK
<1>2. ASSUME NEW n \in Nonces, NEW p \in Projects, IssueNonce(n, p) PROVE Shape'
  <2>1. NoncesOK' /\ \A m \in Nonces : nonce[m].project \in {None, nonce'[m].project}
    BY <1>2 DEF IssueNonce, Shape, NoncesOK
  <2> QED BY <1>2, <2>1, Stays, StoreAssumption DEF IssueNonce, Shape
<1>3. CASE Restart
  <2>1. LookupsOK' /\ HandlersOK'
    BY <1>3, Idle DEF Restart, LookupsOK, HandlersOK, LookupOK, HandlerOK
  <2>2. \A c \in Callbacks : CallbackOK([NewCallback EXCEPT !.pc = CutShort(callback[c].pc), !.nonce = callback[c].nonce])
    BY Idle DEF Shape, CallbacksOK, CallbackOK, Callback, CutShort
  <2>3. CallbacksOK'
    BY <1>3, <2>2 DEF Restart, CallbacksOK, CallbackOK
  <2>4. EventsOK'
    BY <1>3, StoreAssumption DEF Restart, Shape, EventsOK
  <2>5. burnt' \subseteq Tokens
    BY <1>3 DEF Restart, Shape, HistoryOK, LookupsOK, LookupOK
  <2>6. restarts' \in 0..MaxRestarts
    <3>1. restarts < MaxRestarts /\ restarts' = restarts + 1
      BY <1>3 DEF Restart
    <3> QED BY <3>1, StoreAssumption DEF Shape, HistoryOK
  <2>7. HistoryOK'
    BY <1>3, <2>5, <2>6 DEF Restart, Shape, HistoryOK
  <2> QED BY <1>3, <2>1, <2>3, <2>4, <2>7, Stays DEF Restart, Shape
<1>4. ASSUME NEW p \in Projects, Expire(p) PROVE Shape'
  <2>1. RowsOK'
    BY <1>4 DEF Expire, Shape, RowsOK, Row
  <2> QED BY <1>4, <2>1, Stays, StoreAssumption DEF Expire, Shape, NoncesOK
<1>5. CASE UNCHANGED vars
  BY <1>5, Stays, StoreAssumption DEF vars, Shape, platform, history, NoncesOK
<1> QED BY <1>1, <1>2, <1>3, <1>4, <1>5 DEF Merchant

LEMMA ShapeStep == Shape /\ [Next]_vars => Shape'
BY QuestionShape, InstallShape, RequestShape, OthersShape DEF Next

\* The rows, the nonces, the claims and every request keep their types, whatever overlaps.
THEOREM StoreTypeCorrect == Spec => []TypeOK
BY ShapeInit, ShapeStep, ShapeTypes, PTL DEF Spec

-----------------------------------------------------------------------------
(* Nonces: a callback past the claim has used its nonce, and no other has.  *)

PastClaim(k) == k.pc \in {"exchange", "check", "load", "save", "linked", "failed"}

NonceSpent == \A c \in Callbacks : PastClaim(callback[c]) => nonce[callback[c].nonce].used

NonceInv == NonceSpent /\ OneExchangePerNonce

LEMMA NonceStep == Shape /\ NonceInv /\ [Next]_vars => NonceInv'
<1> SUFFICES ASSUME Shape, NonceInv, [Next]_vars PROVE NonceInv'
  OBVIOUS
<1> USE DEF NonceInv, NonceSpent, OneExchangePerNonce, PastClaim
<1>0. callback \in [Callbacks -> Callback] /\ \A c \in Callbacks : CallbackOK(callback[c])
  BY DEF Shape, CallbacksOK
<1>1. ASSUME UNCHANGED <<callback, nonce>> PROVE NonceInv'
  BY <1>1
<1>2. ASSUME NEW c \in Callbacks, NEW k, callback' = [callback EXCEPT ![c] = k], UNCHANGED nonce,
             \/ PastClaim(k) /\ PastClaim(callback[c]) /\ k.nonce = callback[c].nonce
             \/ k.pc = "claim"
      PROVE  NonceInv'
  BY <1>0, <1>2 DEF Callback
<1>3. ASSUME NEW c \in Callbacks, ClaimNonce(c) PROVE NonceInv'
  <2> DEFINE n == callback[c].nonce
             k == IF nonce[n].used THEN [NewCallback EXCEPT !.pc = "rejected", !.nonce = n]
                  ELSE [callback[c] EXCEPT !.pc = "exchange"]
  <2>1. callback' = [callback EXCEPT ![c] = k] /\ nonce' = [nonce EXCEPT ![n].used = TRUE]
    BY <1>0, <1>3 DEF ClaimNonce, Finished
  <2>2. n \in Nonces /\ nonce' \in [Nonces -> [project : Projects \cup {None}, used : BOOLEAN]]
        /\ nonce'[n].used /\ \A m \in Nonces : nonce[m].used => nonce'[m].used
    <3>1. callback[c].pc = "claim"
      BY <1>3 DEF ClaimNonce
    <3>2. n \in Nonces
      BY <1>0, <3>1 DEF CallbackOK
    <3> QED BY <2>1, <3>2 DEF Shape, NoncesOK
  <2>3. /\ callback'[c].nonce = n /\ (nonce[n].used => callback'[c].pc = "rejected")
        /\ \A d \in Callbacks \ {c} : callback'[d] = callback[d]
    BY <1>0, <2>1 DEF NewCallback, Callback
  <2>4. NonceSpent'
    BY <1>0, <2>2, <2>3 DEF CallbackOK
  <2>5. callback[c].pc = "claim" /\ callback'[c].pc \in {"exchange", "rejected"}
    <3>1. callback[c].pc = "claim"
      BY <1>3 DEF ClaimNonce
    <3> QED BY <1>0, <2>1, <3>1 DEF NewCallback, Callback
  <2>6. ASSUME NEW d \in Callbacks \ {c}, callback[d].nonce = n PROVE ~nonce[n].used => ~PastClaim(callback[d])
    BY <2>6
  <2>7. \A d \in Callbacks : callback[d].pc \in {"new", "claim", "exchange", "check", "load", "save", "linked",
                                               "failed", "rejected"}
    BY <1>0 DEF Callback
  <2>8. OneExchangePerNonce'
    BY <2>3, <2>5, <2>6, <2>7
  <2> QED BY <2>4, <2>8
<1>4. ASSUME NEW c \in Callbacks, Install(c) PROVE NonceInv'
  <2>1. ASSUME NEW n \in Nonces, NEW s \in Stores, ReadNonce(c, n, s) PROVE NonceInv'
    BY <1>0, <1>2, <2>1 DEF ReadNonce, Callback
  <2>2. CASE Exchange(c)
    <3>1. callback' = [callback EXCEPT ![c] = [@ EXCEPT !.pc = "check", !.token = made + 1]]
      BY <1>0, <2>2 DEF Exchange
    <3> QED BY <1>0, <1>2, <2>2, <3>1 DEF Exchange, Callback
  <2>3. CASE ExchangeFails(c)
    BY <1>0, <1>2, <2>3 DEF ExchangeFails, Finished, NewCallback, Callback
  <2>4. CASE CheckLinked(c)
    BY <1>0, <1>2, <2>4 DEF CheckLinked, Finished, NewCallback, Callback
  <2>5. CASE LoadInstalled(c)
    <3>1. callback' = [callback EXCEPT ![c] = [@ EXCEPT !.pc = "save", !.seen = Seen(row[ProjectOf(c)])]]
      BY <1>0, <2>5 DEF LoadInstalled
    <3> QED BY <1>0, <1>2, <2>5, <3>1 DEF LoadInstalled, Callback
  <2>6. CASE SaveInstall(c)
    BY <1>0, <1>2, <2>6 DEF SaveInstall, Finished, NewCallback, Callback
  <2> QED BY <1>3, <1>4, <2>1, <2>2, <2>3, <2>4, <2>5, <2>6 DEF Install
<1>5. ASSUME NEW n \in Nonces, NEW p \in Projects, IssueNonce(n, p) PROVE NonceInv'
  <2>1. UNCHANGED callback /\ \A m \in Nonces : nonce'[m].used = nonce[m].used
    BY <1>5 DEF IssueNonce, Shape, NoncesOK
  <2> QED BY <1>0, <2>1 DEF CallbackOK
<1>6. CASE Restart
  <2>1. UNCHANGED nonce /\ \A c \in Callbacks : /\ callback'[c].nonce = callback[c].nonce
                                                /\ callback'[c].pc = CutShort(callback[c].pc)
    BY <1>6 DEF Restart, NewCallback
  <2> QED BY <2>1 DEF CutShort
<1>7. ASSUME NEW l \in Lookups, Question(l) PROVE NonceInv'
  BY <1>1, <1>7 DEF Question, Refreshing, StartLookup, Acquire, PlatformRefreshes, RefreshFails, StoreRefreshed,
     CallEnds, CallUnauthorized
<1>8. ASSUME NEW h \in Handlers, Request(h) PROVE NonceInv'
  BY <1>1, <1>8 DEF Request, ClaimEvent, StartDisconnect, LoadRows, CommitRows
<1>9. ASSUME NEW e \in Events, NEW s \in Stores, MerchantUninstalls(e, s) \/ MerchantAuthorizes(e, s) PROVE NonceInv'
  BY <1>1, <1>9 DEF MerchantUninstalls, MerchantAuthorizes
<1>10. ASSUME (\E p \in Projects : Expire(p)) \/ UNCHANGED vars PROVE NonceInv'
  BY <1>1, <1>10 DEF Expire, vars
<1> QED BY <1>4, <1>5, <1>6, <1>7, <1>8, <1>9, <1>10 DEF Next, Merchant

LEMMA NonceInit == Init => NonceInv
BY DEF Init, NonceInv, NonceSpent, OneExchangePerNonce, PastClaim, NewCallback

\* Whatever overlaps or is restarted, one nonce buys one exchange: the UPDATE ... WHERE
\* used_at IS NULL of claim_nonce() decides between two callbacks that both read it unused.
THEOREM NonceBuysOnce == Spec => []OneExchangePerNonce
<1>1. NonceInv => OneExchangePerNonce
  BY DEF NonceInv
<1> QED BY <1>1, ShapeInit, ShapeStep, NonceInit, NonceStep, PTL DEF Spec

-----------------------------------------------------------------------------
(* Rows: who is about to write a row knows its status, unless it was raced. *)

Sound(r) == IF r.status = "active" THEN r.token # NoToken ELSE r.token = NoToken

RowCalm(p) == raced[p] \/ Sound(row[p])

LookupCalm(l) == lookup[l].pc \in {"asked", "answered"} =>
                   raced[lookup[l].project] \/ row[lookup[l].project].status = "active"

CallbackCalm(c) == callback[c].pc = "save" =>
  \/ raced[ProjectOf(c)] \/ row[ProjectOf(c)].status = "active"
  \/ callback[c].seen.status # "active" /\ callback[c].seen.store = row[ProjectOf(c)].store

CallbackAlone(c) == callback[c].pc \in {"load", "save"} =>
  \A q \in Projects \ {ProjectOf(c)} : row[q].status = "active" /\ row[q].store = callback[c].store
                                       => raced[q] \/ raced[ProjectOf(c)]

HandlerCalm(h) == handler[h].pc = "commit" =>
  \A p \in Loaded(h) : \/ raced[p]
                       \/ Sound(handler[h].seen[p]) /\ (Authorizes(h) => row[p].status = "active")

CalmInv ==
  /\ \A p \in Projects : RowCalm(p)
  /\ \A l \in Lookups : LookupCalm(l)
  /\ \A c \in Callbacks : CallbackCalm(c) /\ CallbackAlone(c)
  /\ \A h \in Handlers : HandlerCalm(h)
  /\ LinkedOnce

\* The rows say what they said before, except that a token may be due.
SameRows == raced' = raced /\ \A p \in Projects : /\ row'[p].status = row[p].status
                                                  /\ row'[p].store = row[p].store /\ row'[p].token = row[p].token

LEMMA CalmInit == Init => CalmInv
BY DEF Init, CalmInv, RowCalm, LookupCalm, CallbackCalm, CallbackAlone, HandlerCalm, LinkedOnce, Sound, NoRow,
   IdleLookup, NewCallback, IdleHandler

LEMMA ProjectOfFacts ==
  ASSUME Shape, NEW c \in Callbacks, callback[c].pc # "new" PROVE ProjectOf(c) \in Projects
BY DEF Shape, CallbacksOK, CallbackOK, ProjectOf

LEMMA SameRowsCalm ==
  ASSUME Shape, CalmInv, SameRows
  PROVE  /\ \A p \in Projects : RowCalm(p)'
         /\ \A l \in Lookups : lookup'[l] = lookup[l] => LookupCalm(l)'
         /\ \A c \in Callbacks : callback'[c] = callback[c] /\ (callback[c].pc # "new" => ProjectOf(c)' = ProjectOf(c))
                                 => CallbackCalm(c)' /\ CallbackAlone(c)'
         /\ \A h \in Handlers : handler'[h] = handler[h] /\ Authorizes(h)' = Authorizes(h) => HandlerCalm(h)'
         /\ LinkedOnce'
<1>1. \A p \in Projects : RowCalm(p)'
  BY DEF CalmInv, SameRows, RowCalm, Sound
<1>2. ASSUME NEW l \in Lookups, lookup'[l] = lookup[l] PROVE LookupCalm(l)'
  BY <1>2 DEF Shape, LookupsOK, LookupOK, CalmInv, SameRows, LookupCalm
<1>3. ASSUME NEW c \in Callbacks, callback'[c] = callback[c], callback[c].pc # "new" => ProjectOf(c)' = ProjectOf(c)
      PROVE  CallbackCalm(c)' /\ CallbackAlone(c)'
  BY <1>3, ProjectOfFacts DEF CalmInv, SameRows, CallbackCalm, CallbackAlone
<1>4. ASSUME NEW h \in Handlers, handler'[h] = handler[h], Authorizes(h)' = Authorizes(h) PROVE HandlerCalm(h)'
  BY <1>4 DEF CalmInv, SameRows, HandlerCalm, Loaded
<1>5. LinkedOnce'
  BY DEF CalmInv, SameRows, LinkedOnce
<1> QED BY <1>1, <1>2, <1>3, <1>4, <1>5

\* Who does not move keeps its tenant and its kind.
LEMMA OthersKept ==
  ASSUME Shape
  PROVE  /\ UNCHANGED <<callback, nonce>> => \A c \in Callbacks : callback'[c] = callback[c] /\ ProjectOf(c)' = ProjectOf(c)
         /\ UNCHANGED <<handler, event>> => \A h \in Handlers : handler'[h] = handler[h] /\ Authorizes(h)' = Authorizes(h)
         /\ UNCHANGED lookup => \A l \in Lookups : lookup'[l] = lookup[l]
         /\ UNCHANGED <<row, raced>> => SameRows
BY DEF ProjectOf, Authorizes, SameRows

LEMMA QuestionCalm == ASSUME Shape, CalmInv, NEW l \in Lookups, Question(l) PROVE CalmInv'
<1> DEFINE p == lookup[l].project
<1>0. /\ lookup \in [Lookups -> Lookup] /\ LookupOK(lookup[l]) /\ UNCHANGED <<callback, nonce, handler, event>>
      /\ \A k \in Lookups \ {l} : lookup'[k] = lookup[k]
  BY DEF Shape, LookupsOK, Question, Refreshing, StartLookup, Acquire, PlatformRefreshes, RefreshFails, StoreRefreshed,
     CallEnds, CallUnauthorized
<1>1. ASSUME SameRows, LookupCalm(l)' PROVE CalmInv'
  <2>1. \A k \in Lookups : LookupCalm(k)'
    BY <1>0, <1>1, SameRowsCalm
  <2> QED BY <1>0, <1>1, <2>1, SameRowsCalm, OthersKept DEF CalmInv
<1>2. ASSUME UNCHANGED <<row, raced>>, lookup'[l].pc \notin {"asked", "answered"} PROVE CalmInv'
  BY <1>1, <1>2 DEF SameRows, LookupCalm
<1>3. ASSUME NEW q \in Projects, StartLookup(l, q) PROVE CalmInv'
  <2>1. UNCHANGED <<row, raced>> /\ lookup'[l].pc = "lock"
    BY <1>0, <1>3 DEF StartLookup, IdleLookup, history
  <2> QED BY <1>2, <2>1
<1>4. CASE Acquire(l)
  <2>1. p \in Projects /\ UNCHANGED <<row, raced>>
    BY <1>0, <1>4 DEF Acquire, LookupOK, history
  <2>2. lookup'[l].pc \in {"asked", "answered"} => row[p].token # NoToken /\ lookup'[l].project = p
    BY <1>0, <1>4, Idle DEF Acquire, Lookup
  <2>3. LookupCalm(l)'
    BY <2>1, <2>2 DEF LookupCalm, CalmInv, RowCalm, Sound
  <2> QED BY <1>1, <2>1, <2>3, OthersKept
<1>5. CASE PlatformRefreshes(l)
  <2>1. UNCHANGED <<row, raced>> /\ lookup'[l].project = p /\ lookup[l].pc = "asked"
    BY <1>0, <1>5 DEF PlatformRefreshes, history
  <2>2. LookupCalm(l)'
    BY <2>1 DEF CalmInv, LookupCalm
  <2> QED BY <1>1, <2>1, <2>2, OthersKept
<1>6. CASE RefreshFails(l)
  <2>1. UNCHANGED <<row, raced>> /\ lookup'[l] = IdleLookup
    BY <1>0, <1>6 DEF RefreshFails
  <2> QED BY <1>2, <2>1, Idle
<1>7. CASE StoreRefreshed(l)
  <2>1. /\ p \in Projects /\ lookup[l].seen \in Row /\ lookup[l].token \in Tokens /\ row \in [Projects -> Row]
        /\ lookup[l].pc = "answered" /\ UNCHANGED raced /\ lookup'[l].pc = "calling"
        /\ row' = [row EXCEPT ![p] = ApplyTokens(row[p], lookup[l].seen, lookup[l].token)]
    BY <1>0, <1>7 DEF StoreRefreshed, LookupOK, Lookup, Shape, RowsOK, history
  <2>2. /\ \A q \in Projects \ {p} : row'[q] = row[q]
        /\ row'[p].store = row[p].store /\ row'[p].token = lookup[l].token
        /\ raced[p] \/ (row[p].status = "active" /\ row'[p].status = "active")
    BY <2>1 DEF CalmInv, LookupCalm, ApplyTokens, Dirty, Row
  <2>3. \A q \in Projects : RowCalm(q)'
    BY <2>1, <2>2, TokenFacts DEF CalmInv, RowCalm, Sound
  <2>4. \A k \in Lookups : LookupCalm(k)'
    BY <1>0, <2>1, <2>2 DEF CalmInv, LookupCalm, Shape, LookupsOK, LookupOK
  <2>5. \A c \in Callbacks : CallbackCalm(c)' /\ CallbackAlone(c)'
    BY <1>0, <2>1, <2>2, ProjectOfFacts, OthersKept DEF CalmInv, CallbackCalm, CallbackAlone
  <2>6. \A h \in Handlers : HandlerCalm(h)'
    BY <1>0, <2>1, <2>2, OthersKept DEF CalmInv, HandlerCalm, Loaded
  <2>7. LinkedOnce'
    BY <2>1, <2>2 DEF CalmInv, LinkedOnce
  <2> QED BY <2>3, <2>4, <2>5, <2>6, <2>7 DEF CalmInv
<1>8. CASE CallEnds(l)
  <2>1. UNCHANGED <<row, raced>> /\ lookup'[l] = IdleLookup
    BY <1>0, <1>8 DEF CallEnds, history
  <2> QED BY <1>2, <2>1, Idle
<1>9. CASE CallUnauthorized(l)
  <2>1. UNCHANGED <<row, raced>> /\ lookup'[l].pc = "lock"
    BY <1>0, <1>9 DEF CallUnauthorized, history
  <2> QED BY <1>2, <2>1
<1> QED BY <1>3, <1>4, <1>5, <1>6, <1>7, <1>8, <1>9 DEF Question, Refreshing

LEMMA InstallCalm == ASSUME Shape, CalmInv, NEW c \in Callbacks, Install(c) PROVE CalmInv'
<1> DEFINE k == callback[c]
           p == ProjectOf(c)
<1>0. /\ callback \in [Callbacks -> Callback] /\ \A d \in Callbacks : CallbackOK(callback[d])
      /\ row \in [Projects -> Row] /\ UNCHANGED <<lookup, handler, event>>
      /\ \A d \in Callbacks \ {c} : callback'[d] = callback[d]
  BY DEF Shape, CallbacksOK, RowsOK, Install, ReadNonce, ClaimNonce, Exchange, ExchangeFails, CheckLinked,
     LoadInstalled, SaveInstall, Finished
<1>p. \A d \in Callbacks : callback[d].pc # "new" /\ callback'[d].nonce = callback[d].nonce => ProjectOf(d)' = ProjectOf(d)
  <2>1. \A n \in Nonces : nonce'[n].project = nonce[n].project
    <3>1. nonce' = nonce \/ nonce' = [nonce EXCEPT ![k.nonce].used = TRUE]
      BY DEF Install, ReadNonce, ClaimNonce, Exchange, ExchangeFails, CheckLinked, LoadInstalled, SaveInstall
    <3> QED BY <3>1 DEF Shape, NoncesOK
  <2> QED BY <1>0, <2>1 DEF CallbackOK, ProjectOf
<1>1. ASSUME UNCHANGED <<row, raced>>, CallbackCalm(c)' /\ CallbackAlone(c)' PROVE CalmInv'
  <2>1. \A d \in Callbacks : CallbackCalm(d)' /\ CallbackAlone(d)'
    BY <1>0, <1>1, <1>p, SameRowsCalm, OthersKept
  <2> QED BY <1>0, <1>1, <2>1, SameRowsCalm, OthersKept DEF CalmInv
<1>2. ASSUME UNCHANGED <<row, raced>>, callback'[c].pc \notin {"load", "save"} PROVE CalmInv'
  BY <1>1, <1>2 DEF CallbackCalm, CallbackAlone
<1>3. ASSUME NEW n \in Nonces, NEW s \in Stores, ReadNonce(c, n, s) PROVE CalmInv'
  <2>1. UNCHANGED <<row, raced>> /\ callback'[c].pc = "claim"
    BY <1>0, <1>3 DEF ReadNonce, history
  <2> QED BY <1>2, <2>1
<1>4. CASE ClaimNonce(c) \/ Exchange(c) \/ ExchangeFails(c)
  <2>1. UNCHANGED <<row, raced>> /\ callback'[c].pc \in {"rejected", "exchange", "check", "failed"}
    <3>1. CASE ClaimNonce(c)
      BY <1>0, <3>1 DEF ClaimNonce, Finished, NewCallback, Callback, history
    <3>2. CASE Exchange(c)
      <4>1. callback' = [callback EXCEPT ![c] = [@ EXCEPT !.pc = "check", !.token = made + 1]]
        BY <1>0, <3>2 DEF Exchange
      <4> QED BY <1>0, <3>2, <4>1 DEF Exchange, Callback, history
    <3>3. CASE ExchangeFails(c)
      BY <1>0, <3>3 DEF ExchangeFails, Finished, NewCallback, history
    <3> QED BY <1>4, <3>1, <3>2, <3>3
  <2> QED BY <1>2, <2>1
<1>5. CASE CheckLinked(c)
  <2>1. UNCHANGED <<row, raced>>
    BY <1>5 DEF CheckLinked, history
  <2>2. CASE LinkedElsewhere(p, k.store)
    <3>1. callback'[c].pc = "failed"
      BY <1>0, <1>5, <2>2 DEF CheckLinked, Finished, NewCallback
    <3> QED BY <1>2, <2>1, <3>1
  <2>3. CASE ~LinkedElsewhere(p, k.store)
    <3>1. callback'[c].pc = "load" /\ callback'[c].store = k.store /\ callback'[c].nonce = k.nonce /\ k.pc = "check"
      BY <1>0, <1>5, <2>3 DEF CheckLinked, Callback
    <3>2. ProjectOf(c)' = p
      BY <1>p, <3>1
    <3>3. CallbackAlone(c)' /\ CallbackCalm(c)'
      BY <2>1, <2>3, <3>1, <3>2 DEF CallbackAlone, CallbackCalm, LinkedElsewhere
    <3> QED BY <1>1, <2>1, <3>3
  <2> QED BY <2>2, <2>3
<1>6. CASE LoadInstalled(c)
  <2>1. /\ UNCHANGED <<row, raced>> /\ k.pc = "load"
        /\ callback'[c].pc = "save" /\ callback'[c].store = k.store /\ callback'[c].nonce = k.nonce
        /\ callback'[c].seen = Seen(row[p])
    BY <1>0, <1>6 DEF LoadInstalled, Callback, history
  <2>2. ProjectOf(c)' = p /\ p \in Projects
    BY <1>p, <2>1, ProjectOfFacts
  <2>3. CallbackAlone(c)' /\ CallbackCalm(c)'
    <3>1. Seen(row[p]).status = row[p].status /\ Seen(row[p]).store = row[p].store
      BY <1>0, <2>2, RowFacts
    <3>2. CallbackCalm(c)'
      BY <2>1, <2>2, <3>1 DEF CallbackCalm
    <3>3. CallbackAlone(c)'
      BY <2>1, <2>2 DEF CallbackAlone, CalmInv
    <3> QED BY <3>2, <3>3
  <2> QED BY <1>1, <2>1, <2>3
<1>7. CASE SaveInstall(c)
  <2> DEFINE clash == k.seen.status = "none" /\ row[p].status # "none"
  <2>1. /\ k.pc = "save" /\ p \in Projects /\ k.token \in Tokens /\ k.seen \in Row /\ row[p] \in Row /\ k.store \in Stores
        /\ callback'[c].pc \in {"failed", "linked"} /\ callback'[c].nonce = k.nonce
    BY <1>0, <1>7, ProjectOfFacts DEF SaveInstall, Finished, NewCallback, CallbackOK, Callback
  <2>2. /\ row' = IF clash THEN row ELSE [row EXCEPT ![p] = Installed(row[p], k)]
        /\ raced' = [q \in Projects |-> raced[q] \/ (q # p /\ PastCheck(q, k.store))]
    BY <1>7 DEF SaveInstall
  <2>3. \A q \in Projects \ {p} : row'[q] = row[q]
    BY <1>0, <2>2
  <2>4. \A q \in Projects : raced[q] => raced'[q]
    BY <2>2
  <2>5. \/ row'[p] = row[p]
        \/ /\ row'[p].token = k.token /\ (raced[p] \/ row'[p].status = "active")
           /\ \/ raced[p]
              \/ row'[p].store = k.store
              \/ row'[p].store = row[p].store /\ row[p].status = "active"
    BY <1>0, <2>1, <2>2 DEF CalmInv, CallbackCalm, Installed, ApplyTokens, Dirty, Row
  <2>6. \A q \in Projects : RowCalm(q)'
    BY <2>1, <2>3, <2>4, <2>5, TokenFacts DEF CalmInv, RowCalm, Sound
  <2>7. \A l \in Lookups : LookupCalm(l)'
    BY <1>0, <2>3, <2>4, <2>5 DEF CalmInv, LookupCalm, Shape, LookupsOK, LookupOK
  <2>8. \A h \in Handlers : HandlerCalm(h)'
    BY <1>0, <2>3, <2>4, <2>5, OthersKept DEF CalmInv, HandlerCalm, Loaded
  <2>9. ASSUME NEW d \in Callbacks, callback'[d].pc \in {"load", "save"}
        PROVE  d # c /\ callback'[d] = callback[d] /\ ProjectOf(d)' = ProjectOf(d) /\ ProjectOf(d) \in Projects
    BY <1>0, <1>p, <2>1, <2>9, ProjectOfFacts
  <2>10. \A d \in Callbacks : CallbackCalm(d)'
    BY <2>3, <2>4, <2>5, <2>9 DEF CalmInv, CallbackCalm
  <2>11. ASSUME NEW d \in Callbacks, callback'[d].pc \in {"load", "save"}, NEW q \in Projects, q # ProjectOf(d),
                row'[q].status = "active", row'[q].store = callback[d].store
         PROVE  raced'[q] \/ raced'[ProjectOf(d)]
    <3>1. CASE row'[q].store = row[q].store /\ row[q].status = "active"
      BY <2>4, <2>9, <2>11, <3>1 DEF CalmInv, CallbackAlone
    <3>2. CASE q = p /\ row'[p].store = k.store
      <4>1. PastCheck(ProjectOf(d), k.store)
        BY <2>9, <2>11, <3>2 DEF PastCheck
      <4> QED BY <2>2, <2>9, <2>11, <3>2, <4>1
    <3> QED BY <2>3, <2>4, <2>5, <2>11, <3>1, <3>2
  <2>12. \A d \in Callbacks : CallbackAlone(d)'
    BY <2>9, <2>11 DEF CallbackAlone
  <2>13. ASSUME NEW q \in Projects \ {p}, row'[p].status = "active", row[q].status = "active", row'[p].store = row[q].store
         PROVE  raced'[p] \/ raced'[q]
    <3>1. CASE row'[p].store = row[p].store /\ row[p].status = "active"
      BY <2>1, <2>4, <2>13, <3>1 DEF CalmInv, LinkedOnce
    <3>2. CASE row'[p].store = k.store
      BY <2>1, <2>4, <2>13, <3>2 DEF CalmInv, CallbackAlone
    <3> QED BY <2>1, <2>4, <2>5, <2>13, <3>1, <3>2
  <2>14. LinkedOnce'
    BY <2>1, <2>3, <2>4, <2>13 DEF CalmInv, LinkedOnce
  <2> QED BY <2>6, <2>7, <2>8, <2>10, <2>12, <2>14 DEF CalmInv
<1> QED BY <1>3, <1>4, <1>5, <1>6, <1>7 DEF Install

LEMMA RequestCalm == ASSUME Shape, CalmInv, NEW h \in Handlers, Request(h) PROVE CalmInv'
<1> DEFINE k == handler[h]
<1>0. /\ handler \in [Handlers -> Handler] /\ HandlerOK(h) /\ row \in [Projects -> Row]
      /\ UNCHANGED <<lookup, callback, nonce, event>> /\ \A g \in Handlers \ {h} : handler'[g] = handler[g]
  BY DEF Shape, HandlersOK, RowsOK, Request, ClaimEvent, StartDisconnect, LoadRows, CommitRows
<1>1. ASSUME UNCHANGED <<row, raced>>, HandlerCalm(h)' PROVE CalmInv'
  <2>1. \A g \in Handlers : HandlerCalm(g)'
    <3>1. \A g \in Handlers \ {h} : Authorizes(g)' = Authorizes(g)
      BY <1>0 DEF Authorizes
    <3> QED BY <1>0, <1>1, <3>1, SameRowsCalm, OthersKept
  <2> QED BY <1>0, <1>1, <2>1, SameRowsCalm, OthersKept DEF CalmInv
<1>2. ASSUME NEW e \in Events, ClaimEvent(h, e) PROVE CalmInv'
  <2>1. UNCHANGED <<row, raced>> /\ handler'[h].pc = "load"
    BY <1>0, <1>2 DEF ClaimEvent, Handler, history
  <2> QED BY <1>1, <2>1 DEF HandlerCalm
<1>3. ASSUME NEW p \in Projects, StartDisconnect(h, p) PROVE CalmInv'
  <2>1. UNCHANGED <<row, raced>> /\ handler'[h].pc = "load"
    BY <1>0, <1>3 DEF StartDisconnect, Handler, history
  <2> QED BY <1>1, <2>1 DEF HandlerCalm
<1>4. CASE LoadRows(h)
  <2> DEFINE seen == [p \in Projects |-> IF p \in Targets(h) THEN Seen(row[p]) ELSE NoRow]
  <2>1. handler' = [handler EXCEPT ![h] = [k EXCEPT !.pc = "commit", !.seen = seen]] /\ UNCHANGED <<row, raced>>
    BY <1>0, <1>4 DEF LoadRows, history
  <2>2. handler'[h].seen = seen /\ handler'[h].event = k.event
    BY <1>0, <2>1 DEF Handler
  <2>3. ASSUME NEW p \in Loaded(h)' PROVE p \in Projects /\ p \in Targets(h) /\ seen[p] = Seen(row[p])
    BY <2>2, <2>3 DEF Loaded, NoRow
  <2>4. ASSUME NEW p \in Loaded(h)' PROVE raced[p] \/ (Sound(seen[p]) /\ (Authorizes(h) => row[p].status = "active"))
    <3>1. p \in Projects /\ seen[p].status = row[p].status /\ seen[p].token = row[p].token
      BY <1>0, <2>3, <2>4, RowFacts
    <3>2. RowCalm(p)
      BY <3>1 DEF CalmInv
    <3> QED BY <2>3, <2>4, <3>1, <3>2 DEF RowCalm, Sound, Authorizes, Targets
  <2>5. Authorizes(h)' = Authorizes(h)
    BY <1>0, <2>2 DEF Authorizes
  <2>6. HandlerCalm(h)'
    BY <2>1, <2>2, <2>4, <2>5 DEF HandlerCalm
  <2> QED BY <1>1, <2>1, <2>6
<1>5. CASE CommitRows(h)
  <2>1. /\ k.pc = "commit" /\ k.seen \in [Projects -> Row] /\ Loaded(h) \subseteq Projects
        /\ handler'[h] = IdleHandler
    BY <1>0, <1>5 DEF CommitRows, Loaded, Handler
  <2>2. /\ row' = [p \in Projects |-> Updated(h, p)]
        /\ raced' = [p \in Projects |-> raced[p] \/ (p \in Loaded(h) /\ ~Authorizes(h) /\ Writing(p))]
    BY <1>5 DEF CommitRows
  <2>3. \A p \in Projects : /\ raced[p] => raced'[p]
                            /\ p \notin Loaded(h) => row'[p] = row[p]
                            /\ row'[p].store = row[p].store
    BY <1>0, <2>1, <2>2 DEF Updated, ApplyTokens, Wipe, Row
  <2>4. ASSUME NEW p \in Loaded(h), ~raced'[p], Authorizes(h)
        PROVE  row[p].status = "active" /\ row'[p].status = "active" /\ row'[p].token \in Tokens
    <3>1. event[k.event].token \in Tokens
      BY <1>0, <2>1, <2>4 DEF Authorizes, HandlerOK, Shape, EventsOK
    <3>2. row[p].status = "active"
      BY <2>1, <2>3, <2>4 DEF CalmInv, HandlerCalm
    <3> QED BY <1>0, <2>1, <2>2, <2>4, <3>1, <3>2 DEF Updated, ApplyTokens, Dirty, Row
  <2>5. ASSUME NEW p \in Loaded(h), ~raced'[p], ~Authorizes(h)
        PROVE  /\ ~Writing(p) /\ Sound(row'[p]) /\ (row'[p].status = "active" => row[p].status = "active")
    <3>1. ~raced[p] /\ ~Writing(p) /\ Sound(k.seen[p]) /\ Sound(row[p]) /\ k.seen[p].status # "none"
      BY <2>1, <2>2, <2>3, <2>5 DEF CalmInv, HandlerCalm, RowCalm, Loaded
    <3>2. row'[p] = Wipe(row[p], k.seen[p])
      BY <2>1, <2>2, <2>5 DEF Updated
    <3> QED BY <1>0, <2>1, <3>1, <3>2 DEF Sound, Wipe, Dirty, Row
  <2>6. \A p \in Projects : RowCalm(p)'
    BY <2>3, <2>4, <2>5, TokenFacts DEF CalmInv, RowCalm, Sound
  <2>7. ASSUME NEW l \in Lookups PROVE LookupCalm(l)'
    <3>1. CASE lookup[l].pc \in {"asked", "answered"}
      <4>1. lookup[l].project \in Projects
        BY <3>1 DEF Shape, LookupsOK, LookupOK
      <4> QED BY <1>0, <2>3, <2>4, <2>5, <3>1, <4>1 DEF CalmInv, LookupCalm, Writing
    <3> QED BY <1>0, <3>1 DEF LookupCalm
  <2>8. ASSUME NEW c \in Callbacks PROVE CallbackCalm(c)' /\ CallbackAlone(c)'
    <3>1. callback'[c] = callback[c] /\ ProjectOf(c)' = ProjectOf(c) /\ (callback[c].pc # "new" => ProjectOf(c) \in Projects)
      BY <1>0, OthersKept, ProjectOfFacts
    <3>2. CallbackCalm(c)'
      BY <2>3, <2>4, <2>5, <3>1 DEF CalmInv, CallbackCalm, Writing
    <3>3. CallbackAlone(c)'
      BY <2>3, <2>4, <2>5, <3>1 DEF CalmInv, CallbackAlone
    <3> QED BY <3>2, <3>3
  <2>9. ASSUME NEW g \in Handlers PROVE HandlerCalm(g)'
    <3>1. CASE g = h
      BY <2>1, <3>1, Idle DEF HandlerCalm
    <3>2. CASE g # h
      <4>1. handler'[g] = handler[g] /\ Authorizes(g)' = Authorizes(g) /\ Loaded(g)' = Loaded(g) /\ Loaded(g) \subseteq Projects
        BY <1>0, <3>2 DEF Authorizes, Loaded
      <4> QED BY <2>3, <2>4, <2>5, <4>1 DEF CalmInv, HandlerCalm, Writing
    <3> QED BY <3>1, <3>2
  <2>10. LinkedOnce'
    BY <2>3, <2>4, <2>5 DEF CalmInv, LinkedOnce
  <2> QED BY <2>6, <2>7, <2>8, <2>9, <2>10 DEF CalmInv
<1> QED BY <1>2, <1>3, <1>4, <1>5 DEF Request

LEMMA OthersCalm ==
  ASSUME Shape, CalmInv, Merchant \/ Restart \/ (\E p \in Projects : Expire(p)) \/ UNCHANGED vars PROVE CalmInv'
<1>1. ASSUME SameRows, UNCHANGED <<lookup, handler, callback>>, \A h \in Handlers : handler[h].pc # "idle" => Authorizes(h)' = Authorizes(h),
             \A c \in Callbacks : callback[c].pc # "new" => ProjectOf(c)' = ProjectOf(c)
      PROVE  CalmInv'
  <2>1. \A h \in Handlers : HandlerCalm(h)'
    BY <1>1, SameRowsCalm DEF HandlerCalm
  <2> QED BY <1>1, <2>1, SameRowsCalm DEF CalmInv
<1>2. ASSUME NEW e \in Events, NEW s \in Stores, MerchantUninstalls(e, s) \/ MerchantAuthorizes(e, s) PROVE CalmInv'
  <2>1. /\ UNCHANGED <<row, raced, lookup, handler, callback, nonce>> /\ event[e].kind = "none"
        /\ \A f \in Events \ {e} : event'[f] = event[f]
    BY <1>2 DEF MerchantUninstalls, MerchantAuthorizes, history, Shape, EventsOK
  <2>2. \A h \in Handlers : handler[h].pc # "idle" => handler[h].event # e
    BY <2>1, StoreAssumption DEF Shape, HandlersOK, HandlerOK, EventsOK
  <2>3. \A h \in Handlers : handler[h].pc # "idle" => Authorizes(h)' = Authorizes(h)
    BY <2>1, <2>2 DEF Authorizes, Shape, HandlersOK, HandlerOK
  <2> QED BY <1>1, <2>1, <2>3, OthersKept
<1>3. ASSUME NEW n \in Nonces, NEW p \in Projects, IssueNonce(n, p) PROVE CalmInv'
  <2>1. UNCHANGED <<row, raced, lookup, handler, callback, event>>
    BY <1>3 DEF IssueNonce, history
  <2>2. \A c \in Callbacks : callback[c].pc # "new" => ProjectOf(c)' = ProjectOf(c)
    BY <1>3, <2>1, StoreAssumption DEF IssueNonce, ProjectOf, Shape, CallbacksOK, CallbackOK, NoncesOK
  <2> QED BY <1>1, <2>1, <2>2, OthersKept
<1>4. CASE Restart
  <2>1. /\ SameRows /\ \A l \in Lookups : lookup'[l] = IdleLookup
        /\ \A h \in Handlers : handler'[h] = IdleHandler
    BY <1>4 DEF Restart, SameRows
  <2>2. \A c \in Callbacks : callback'[c].pc = CutShort(callback[c].pc)
    BY <1>4 DEF Restart, NewCallback
  <2>3. (\A p \in Projects : RowCalm(p)') /\ LinkedOnce'
    BY <2>1, SameRowsCalm
  <2>4. \A c \in Callbacks : CallbackCalm(c)' /\ CallbackAlone(c)'
    BY <2>2 DEF CallbackCalm, CallbackAlone, CutShort
  <2>5. (\A l \in Lookups : LookupCalm(l)') /\ \A h \in Handlers : HandlerCalm(h)'
    BY <2>1, Idle DEF LookupCalm, HandlerCalm
  <2> QED BY <2>3, <2>4, <2>5 DEF CalmInv
<1>5. ASSUME NEW p \in Projects, Expire(p) PROVE CalmInv'
  <2>1. SameRows /\ UNCHANGED <<lookup, handler, callback, nonce, event>>
    BY <1>5 DEF Expire, SameRows, history, Shape, RowsOK, Row
  <2> QED BY <1>1, <2>1, OthersKept
<1>6. CASE UNCHANGED vars
  BY <1>1, <1>6, OthersKept DEF vars
<1> QED BY <1>2, <1>3, <1>4, <1>5, <1>6 DEF Merchant

LEMMA CalmStep == Shape /\ CalmInv /\ [Next]_vars => CalmInv'
BY QuestionCalm, InstallCalm, RequestCalm, OthersCalm DEF Next

\* An uninstalled row has no tokens left unless a request that had read it before the wipe
\* was still to write it: the window is the only way, for any number of requests.
THEOREM WipedMeansCleared == Spec => []Cleared
<1>1. CalmInv => Cleared
  BY DEF CalmInv, RowCalm, Sound, Cleared
<1> QED BY <1>1, ShapeInit, ShapeStep, CalmInit, CalmStep, PTL DEF Spec

\* Two tenants answer from one store only if their callbacks were both past the check of
\* save_install(), or a raced row came back to life.
THEOREM OneTenantPerStore == Spec => []LinkedOnce
<1>1. CalmInv => LinkedOnce
  BY DEF CalmInv
<1> QED BY <1>1, ShapeInit, ShapeStep, CalmInit, CalmStep, PTL DEF Spec

-----------------------------------------------------------------------------
(* Tokens: where each token of the platform is on its way into a row and    *)
(* out of it again.                                                         *)

\* A token that a callback, an event or a question has got and not stored yet, and the one
\* a question has presented or is about to.
CallbackToken(c) == IF callback[c].pc \in {"check", "load", "save"} THEN callback[c].token ELSE NoToken
EventToken(e) == IF event[e].kind = "authorize" /\ claim[e] # "done" THEN event[e].token ELSE NoToken
AnswerToken(l) == IF lookup[l].pc = "answered" THEN lookup[l].token ELSE NoToken
AskToken(l) == IF lookup[l].pc \in {"asked", "answered"} THEN lookup[l].seen.token ELSE NoToken

\* The token is new: nobody has stored it, presented it or spent it.
New(t) == t # NoToken => /\ t \notin spent /\ t <= made
                         /\ \A p \in Projects : row[p].token # t
                         /\ \A l \in Lookups : AskToken(l) # t

NewTokens ==
  /\ \A c \in Callbacks : New(CallbackToken(c))
  /\ \A e \in Events : New(EventToken(e))
  /\ \A l \in Lookups : New(AnswerToken(l))

Apart(s, t) == s = t => s = NoToken

NewTokensApart ==
  /\ \A c, d \in Callbacks : c # d => Apart(CallbackToken(c), CallbackToken(d))
  /\ \A e, f \in Events : e # f => Apart(EventToken(e), EventToken(f))
  /\ \A l, m \in Lookups : l # m => Apart(AnswerToken(l), AnswerToken(m))
  /\ \A c \in Callbacks, e \in Events : Apart(CallbackToken(c), EventToken(e))
  /\ \A c \in Callbacks, l \in Lookups : Apart(CallbackToken(c), AnswerToken(l))
  /\ \A e \in Events, l \in Lookups : Apart(EventToken(e), AnswerToken(l))

OldTokens ==
  /\ \A t \in spent : t <= made
  /\ \A p \in Projects : row[p].token <= made
  /\ \A l \in Lookups : AskToken(l) <= made

Locked == \A l \in Lookups : AskToken(l) # NoToken => lock[lookup[l].project] = l

\* One tenant has a token, unless it is one of the twins.
OneTenantEach ==
  /\ \A p, q \in Projects : p # q /\ row[p].token \notin twins => Apart(row[p].token, row[q].token)
  /\ \A l \in Lookups, q \in Projects :
       lookup[l].project # q /\ AskToken(l) \notin twins => Apart(AskToken(l), row[q].token)
  /\ \A l, m \in Lookups :
       lookup[l].project # lookup[m].project /\ AskToken(l) \notin twins => Apart(AskToken(l), AskToken(m))

\* A spent token in a row is about to be replaced, or lost.
SpentInRow ==
  \A p \in Projects : row[p].token \in spent =>
    \/ row[p].token \in burnt \cup twins
    \/ \E l \in Lookups : lookup[l].project = p /\ lookup[l].pc = "answered" /\ AskToken(l) = row[p].token

TokenInv == NewTokens /\ NewTokensApart /\ OldTokens /\ Locked /\ OneTenantEach /\ SpentInRow /\ RefreshedOnce

\* What this step puts into a row is not spent.
NothingSpentBack == \A p \in Projects : row'[p].token # row[p].token => row'[p].token \notin spent'

LEMMA TokenInit == Init => TokenInv
<1> SUFFICES ASSUME Init PROVE TokenInv
  OBVIOUS
<1>1. /\ \A c \in Callbacks : CallbackToken(c) = NoToken
      /\ \A e \in Events : EventToken(e) = NoToken
      /\ \A l \in Lookups : AnswerToken(l) = NoToken /\ AskToken(l) = NoToken /\ lookup[l].pc = "idle"
      /\ \A p \in Projects : row[p].token = NoToken
      /\ spent = {} /\ made = 0
  BY DEF Init, CallbackToken, EventToken, AnswerToken, AskToken, NewCallback, IdleLookup, NoRow
<1> QED BY <1>1 DEF TokenInv, NewTokens, New, NewTokensApart, Apart, OldTokens, Locked, OneTenantEach, SpentInRow,
           RefreshedOnce, NoToken

LEMMA TokenTypes ==
  ASSUME Shape
  PROVE  /\ \A c \in Callbacks : CallbackToken(c) \in Nat
         /\ \A e \in Events : EventToken(e) \in Nat
         /\ \A l \in Lookups : AnswerToken(l) \in Nat /\ AskToken(l) \in Nat
         /\ \A l \in Lookups : lookup[l].pc # "idle" => lookup[l].project \in Projects
         /\ \A l \in Lookups : lookup[l].pc \in {"asked", "answered"} => AskToken(l) # NoToken
         /\ \A l \in Lookups : lookup[l].pc = "asked" => lookup[l].token = AskToken(l)
         /\ \A p \in Projects : row[p].token \in Nat
         /\ NoToken = 0 /\ made \in Nat /\ spent \subseteq Nat
<1>1. (\A t \in Tokens : t \in Nat) /\ NoToken \in Nat /\ NoToken = 0 /\ 0 \notin Tokens
  BY DEF Tokens, NoToken
<1>2. \A c \in Callbacks : CallbackToken(c) \in Nat
  BY <1>1 DEF Shape, CallbacksOK, CallbackOK, CallbackToken
<1>3. \A e \in Events : EventToken(e) \in Nat
  BY <1>1 DEF Shape, EventsOK, EventToken
<1>4. \A l \in Lookups : LookupOK(lookup[l])
  BY DEF Shape, LookupsOK
<1>5. ASSUME NEW p \in Projects PROVE row[p].token \in Nat
  <2>1. row[p] \in Row
    BY DEF Shape, RowsOK
  <2>2. row[p].token \in Tokens \cup {NoToken}
    BY <2>1 DEF Row
  <2> QED BY <1>1, <2>2
<1>6. made \in Nat /\ spent \subseteq Nat
  BY <1>1, StoreAssumption DEF Shape, PlatformOK
<1> QED BY <1>1, <1>2, <1>3, <1>4, <1>5, <1>6 DEF LookupOK, AnswerToken, AskToken

\* A step that issues, spends and moves no token: tokens are kept or dropped where they are.
LEMMA TokensLapse ==
  ASSUME Shape, TokenInv, UNCHANGED <<spent, made, twins>>, burnt \subseteq burnt',
         \A p \in Projects : row'[p].token \in {row[p].token, NoToken},
         \A c \in Callbacks : CallbackToken(c)' \in {CallbackToken(c), NoToken},
         \A e \in Events : EventToken(e)' \in {EventToken(e), NoToken},
         \A l \in Lookups : \/ lookup'[l].pc \notin {"asked", "answered"} /\ (lookup[l].pc = "answered" => AskToken(l) \in burnt')
                            \/ lookup'[l] = lookup[l] /\ lock'[lookup[l].project] = lock[lookup[l].project]
  PROVE  TokenInv' /\ NothingSpentBack
<1> USE TokenTypes
<1>1. \A l \in Lookups : /\ AskToken(l)' \in {AskToken(l), NoToken}
                         /\ AnswerToken(l)' \in {AnswerToken(l), NoToken}
                         /\ AskToken(l)' # NoToken => lookup'[l] = lookup[l] /\ lock'[lookup[l].project] = lock[lookup[l].project]
  BY DEF AskToken, AnswerToken
<1>2. \A t \in Nat : New(t) => New(t)'
  BY <1>1 DEF New
<1>3. NewTokens'
  BY <1>1, <1>2 DEF TokenInv, NewTokens, New
<1>4. NewTokensApart'
  BY <1>1 DEF TokenInv, NewTokensApart, Apart
<1>5. OldTokens'
  BY <1>1 DEF TokenInv, OldTokens
<1>6. Locked'
  BY <1>1 DEF TokenInv, Locked
<1>7. OneTenantEach'
  BY <1>1 DEF TokenInv, OneTenantEach, Apart
<1>8. SpentInRow'
  <2> SUFFICES ASSUME NEW p \in Projects, row'[p].token \in spent
               PROVE  \/ row'[p].token \in burnt' \cup twins
                      \/ \E l \in Lookups : lookup'[l].project = p /\ lookup'[l].pc = "answered" /\ AskToken(l)' = row'[p].token
    BY DEF SpentInRow
  <2>1. row'[p].token = row[p].token
    BY TokenFacts DEF Shape, PlatformOK
  <2>2. CASE row[p].token \in burnt \cup twins
    BY <2>1, <2>2
  <2>3. ASSUME NEW l \in Lookups, lookup[l].project = p, lookup[l].pc = "answered", AskToken(l) = row[p].token
        PROVE  \/ row'[p].token \in burnt'
               \/ lookup'[l].project = p /\ lookup'[l].pc = "answered" /\ AskToken(l)' = row'[p].token
    BY <2>1, <2>3 DEF AskToken
  <2> QED BY <2>1, <2>2, <2>3 DEF TokenInv, SpentInRow
<1>9. RefreshedOnce'
  BY <1>1 DEF TokenInv, RefreshedOnce
<1>10. NothingSpentBack
  BY TokenFacts DEF NothingSpentBack, Shape, PlatformOK
<1> QED BY <1>3, <1>4, <1>5, <1>6, <1>7, <1>8, <1>9, <1>10 DEF TokenInv

LEMMA TokensKept ==
  /\ UNCHANGED callback => \A c \in Callbacks : CallbackToken(c)' = CallbackToken(c)
  /\ UNCHANGED <<event, claim>> => \A e \in Events : EventToken(e)' = EventToken(e)
  /\ \A l \in Lookups : lookup'[l] = lookup[l] => AskToken(l)' = AskToken(l) /\ AnswerToken(l)' = AnswerToken(l)
BY DEF CallbackToken, EventToken, AskToken, AnswerToken

\* Under the lock a question takes the token of the row.
LEMMA AcquireTokens == ASSUME Shape, TokenInv, NEW l \in Lookups, Acquire(l) PROVE TokenInv' /\ NothingSpentBack
<1> USE TokenTypes
<1> DEFINE p == lookup[l].project
           t == row[p].token
<1>0. /\ LookupOK(lookup[l]) /\ lookup[l].pc = "lock" /\ p \in Projects /\ lock[p] = None
      /\ UNCHANGED <<row, spent, made, burnt, twins, callback, event, claim>> /\ lookup \in [Lookups -> Lookup]
      /\ \A m \in Lookups \ {l} : lookup'[m] = lookup[m]
  BY DEF Acquire, LookupOK, LockFree, Shape, LookupsOK, platform, history
<1>1. CASE lookup'[l].pc # "asked"
  <2>1. lock' = lock /\ lookup'[l].pc \notin {"asked", "answered"}
    BY <1>0, <1>1, Idle DEF Acquire, Lookup
  <2>2. \A m \in Lookups : lookup'[m] = lookup[m] \/ m = l
    BY <1>0
  <2> QED BY <1>0, <2>1, <2>2, TokensKept, TokensLapse
<1>2. CASE lookup'[l].pc = "asked"
  <2>1. /\ lock' = [lock EXCEPT ![p] = l] /\ lookup'[l].project = p /\ lookup'[l].seen.token = t /\ lookup'[l].token = t
        /\ t # NoToken
    BY <1>0, <1>2, Idle, RowFacts DEF Acquire, Lookup, Shape, RowsOK
  <2>2. AskToken(l)' = t /\ AnswerToken(l)' = NoToken /\ AskToken(l) = NoToken /\ AnswerToken(l) = NoToken
    BY <1>0, <1>2, <2>1 DEF AskToken, AnswerToken
  <2>3. \A m \in Lookups \ {l} : AskToken(m)' = AskToken(m) /\ AnswerToken(m)' = AnswerToken(m)
    BY <1>0, TokensKept
  <2>4. \A m \in Lookups : AskToken(m) # NoToken => lookup[m].project # p /\ m # l
    BY <1>0, <2>2, StoreAssumption DEF TokenInv, Locked
  <2>5. NewTokens'
    BY <1>0, <2>2, <2>3, TokensKept DEF TokenInv, NewTokens, New
  <2>6. NewTokensApart'
    BY <1>0, <2>2, <2>3, TokensKept DEF TokenInv, NewTokensApart, Apart
  <2>7. OldTokens' /\ NothingSpentBack
    BY <1>0, <2>2, <2>3 DEF TokenInv, OldTokens, NothingSpentBack
  <2>8. Locked'
    BY <1>0, <2>1, <2>2, <2>3, <2>4 DEF TokenInv, Locked, Shape, HistoryOK
  <2>9. OneTenantEach'
    <3>1. \A m \in Lookups, q \in Projects :
            lookup'[m].project # q /\ AskToken(m)' \notin twins => Apart(AskToken(m)', row[q].token)
      BY <1>0, <2>1, <2>2, <2>3 DEF TokenInv, OneTenantEach, Apart
    <3>2. \A m, k \in Lookups :
            lookup'[m].project # lookup'[k].project /\ AskToken(m)' \notin twins => Apart(AskToken(m)', AskToken(k)')
      BY <1>0, <2>1, <2>2, <2>3 DEF TokenInv, OneTenantEach, Apart
    <3> QED BY <1>0, <3>1, <3>2 DEF TokenInv, OneTenantEach, Apart
  <2>10. SpentInRow'
    BY <1>0, <2>3 DEF TokenInv, SpentInRow
  <2>11. t \in spent => t \in burnt \cup twins
    BY <1>0, <2>4 DEF TokenInv, SpentInRow
  <2>12. RefreshedOnce'
    BY <1>0, <2>1, <2>11 DEF TokenInv, RefreshedOnce
  <2> QED BY <2>5, <2>6, <2>7, <2>8, <2>9, <2>10, <2>12 DEF TokenInv
<1> QED BY <1>1, <1>2

\* The platform spends the token of the question and issues another.
LEMMA RefreshTokens == ASSUME Shape, TokenInv, NEW l \in Lookups, PlatformRefreshes(l) PROVE TokenInv' /\ NothingSpentBack
<1> USE TokenTypes
<1> DEFINE p == lookup[l].project
           t == AskToken(l)
<1>0. /\ lookup[l].pc = "asked" /\ p \in Projects /\ t # NoToken /\ lookup[l].token = t
      /\ UNCHANGED <<row, lock, burnt, twins, callback, event, claim>> /\ lookup \in [Lookups -> Lookup]
      /\ spent' = spent \cup {t} /\ made' = made + 1
      /\ \A m \in Lookups \ {l} : lookup'[m] = lookup[m]
  BY DEF PlatformRefreshes, Issue, Shape, LookupsOK, platform, history
<1>1. /\ lookup'[l].pc = "answered" /\ lookup'[l].project = p /\ lookup'[l].seen = lookup[l].seen
      /\ lookup'[l].token = made + 1
  BY <1>0 DEF PlatformRefreshes, Lookup
<1>2. AskToken(l)' = t /\ AnswerToken(l)' = made + 1
  BY <1>0, <1>1 DEF AskToken, AnswerToken
<1>3. /\ \A m \in Lookups : AskToken(m)' = AskToken(m) /\ lookup'[m].project = lookup[m].project
      /\ \A m \in Lookups \ {l} : AnswerToken(m)' = AnswerToken(m)
  BY <1>0, <1>1, <1>2, TokensKept
<1>4. \A x \in Nat : New(x) => New(x)'
  BY <1>0, <1>3 DEF New
<1>5. \A x \in Nat : x = made + 1 => New(x)'
  BY <1>0, <1>3 DEF New, TokenInv, OldTokens
<1>6. NewTokens'
  BY <1>0, <1>2, <1>3, <1>4, <1>5, TokensKept DEF TokenInv, NewTokens
<1>7. NewTokensApart'
  BY <1>0, <1>2, <1>3, TokensKept DEF TokenInv, NewTokensApart, Apart, NewTokens, New
<1>8. OldTokens' /\ Locked' /\ OneTenantEach' /\ NothingSpentBack
  <2>1. OldTokens' /\ NothingSpentBack
    BY <1>0, <1>3 DEF TokenInv, OldTokens, NothingSpentBack
  <2>2. Locked' /\ OneTenantEach'
    BY <1>0, <1>3 DEF TokenInv, Locked, OneTenantEach, Apart
  <2> QED BY <2>1, <2>2
<1>9. ASSUME NEW q \in Projects, row[q].token \in spent \cup {t}
      PROVE  \/ row[q].token \in burnt \cup twins
             \/ \E m \in Lookups : lookup'[m].project = q /\ lookup'[m].pc = "answered" /\ AskToken(m)' = row[q].token
  <2>1. CASE row[q].token = t /\ q = p
    BY <1>1, <1>3, <2>1
  <2>2. CASE row[q].token = t /\ q # p
    BY <1>0, <2>2 DEF TokenInv, OneTenantEach, Apart
  <2>3. CASE row[q].token \in spent
    <3>1. ASSUME NEW m \in Lookups, lookup[m].project = q, lookup[m].pc = "answered", AskToken(m) = row[q].token
          PROVE  lookup'[m].project = q /\ lookup'[m].pc = "answered" /\ AskToken(m)' = row[q].token
      BY <1>0, <1>3, <3>1
    <3> QED BY <2>3, <3>1 DEF TokenInv, SpentInRow
  <2> QED BY <1>9, <2>1, <2>2, <2>3
<1>10. SpentInRow'
  BY <1>0, <1>9 DEF SpentInRow
<1>11. ASSUME NEW m \in Lookups, lookup'[m].pc = "asked", lookup'[m].token \in spent \cup {t}
       PROVE  lookup'[m].token \in burnt \cup twins
  <2>1. m # l /\ lookup'[m] = lookup[m] /\ lookup[m].token = AskToken(m) /\ AskToken(m) # NoToken
    BY <1>0, <1>1, <1>11
  <2>2. CASE lookup[m].token \in spent
    BY <1>11, <2>1, <2>2 DEF TokenInv, RefreshedOnce
  <2>3. CASE lookup[m].token = t
    BY <1>0, <2>1, <2>3 DEF TokenInv, Locked, OneTenantEach, Apart
  <2> QED BY <1>11, <2>1, <2>2, <2>3
<1>12. RefreshedOnce'
  BY <1>0, <1>11 DEF RefreshedOnce
<1> QED BY <1>6, <1>7, <1>8, <1>10, <1>12 DEF TokenInv

\* The new token goes into the row, and the lock is free again.
LEMMA StoreTokens == ASSUME Shape, TokenInv, NEW l \in Lookups, StoreRefreshed(l) PROVE TokenInv' /\ NothingSpentBack
<1> USE TokenTypes
<1> DEFINE p == lookup[l].project
           u == AnswerToken(l)
<1>0. /\ lookup[l].pc = "answered" /\ p \in Projects /\ lookup[l].token = u /\ LookupOK(lookup[l])
      /\ UNCHANGED <<spent, made, burnt, twins, callback, event, claim>> /\ lookup \in [Lookups -> Lookup]
      /\ row' = [row EXCEPT ![p] = ApplyTokens(row[p], lookup[l].seen, u)] /\ row \in [Projects -> Row]
      /\ lock' = [lock EXCEPT ![p] = None] /\ lookup'[l].pc = "calling"
      /\ \A m \in Lookups \ {l} : lookup'[m] = lookup[m]
  BY DEF StoreRefreshed, Releasing, AnswerToken, Shape, LookupsOK, RowsOK, platform, history
<1>1. u # NoToken
  BY <1>0, TokenFacts DEF LookupOK
<1>2. row'[p].token = u /\ \A q \in Projects \ {p} : row'[q].token = row[q].token
  BY <1>0 DEF ApplyTokens, Row
<1>3. /\ AskToken(l)' = NoToken /\ AnswerToken(l)' = NoToken
      /\ \A m \in Lookups \ {l} : AskToken(m)' = AskToken(m) /\ AnswerToken(m)' = AnswerToken(m) /\ lookup'[m] = lookup[m]
  BY <1>0, TokensKept DEF AskToken, AnswerToken
<1>4. New(u)
  BY DEF TokenInv, NewTokens
<1>5. \A x \in Nat : New(x) /\ x # u => New(x)'
  BY <1>0, <1>2, <1>3 DEF New
<1>6. NewTokens'
  <2>1. \A c \in Callbacks : New(CallbackToken(c))'
    BY <1>0, <1>1, <1>5, TokensKept DEF TokenInv, NewTokens, NewTokensApart, Apart, New
  <2>2. \A e \in Events : New(EventToken(e))'
    BY <1>0, <1>1, <1>5, TokensKept DEF TokenInv, NewTokens, NewTokensApart, Apart, New
  <2>3. \A m \in Lookups : New(AnswerToken(m))'
    BY <1>0, <1>1, <1>3, <1>5 DEF TokenInv, NewTokens, NewTokensApart, Apart, New
  <2> QED BY <2>1, <2>2, <2>3 DEF NewTokens
<1>7. NewTokensApart'
  BY <1>0, <1>3, TokensKept DEF TokenInv, NewTokensApart, Apart
<1>8. OldTokens' /\ NothingSpentBack
  BY <1>0, <1>1, <1>2, <1>3, <1>4 DEF TokenInv, OldTokens, New, NothingSpentBack
<1>9. Locked'
  BY <1>0, <1>1, <1>3 DEF TokenInv, Locked, Shape, HistoryOK
<1>10. OneTenantEach'
  <2>1. \A q, s \in Projects : q # s /\ row'[q].token \notin twins => Apart(row'[q].token, row'[s].token)
    BY <1>1, <1>2, <1>4 DEF TokenInv, OneTenantEach, Apart, New
  <2>2. \A m \in Lookups, q \in Projects :
          lookup'[m].project # q /\ AskToken(m)' \notin twins => Apart(AskToken(m)', row'[q].token)
    BY <1>1, <1>2, <1>3, <1>4 DEF TokenInv, OneTenantEach, Apart, New
  <2>3. \A m, k \in Lookups :
          lookup'[m].project # lookup'[k].project /\ AskToken(m)' \notin twins => Apart(AskToken(m)', AskToken(k)')
    BY <1>3 DEF TokenInv, OneTenantEach, Apart
  <2> QED BY <1>0, <2>1, <2>2, <2>3 DEF OneTenantEach
<1>11. SpentInRow'
  <2> SUFFICES ASSUME NEW q \in Projects, row'[q].token \in spent
               PROVE  \/ row'[q].token \in burnt \cup twins
                      \/ \E m \in Lookups : lookup'[m].project = q /\ lookup'[m].pc = "answered" /\ AskToken(m)' = row'[q].token
    BY <1>0 DEF SpentInRow
  <2>1. q # p /\ row'[q].token = row[q].token
    BY <1>1, <1>2, <1>4 DEF New
  <2> QED BY <1>3, <2>1 DEF TokenInv, SpentInRow
<1>12. RefreshedOnce'
  BY <1>0 DEF TokenInv, RefreshedOnce
<1> QED BY <1>6, <1>7, <1>8, <1>9, <1>10, <1>11, <1>12 DEF TokenInv

LEMMA QuestionTokens == ASSUME Shape, TokenInv, NEW l \in Lookups, Question(l) PROVE TokenInv' /\ NothingSpentBack
<1>1. CASE \/ \E p \in Projects : StartLookup(l, p)
           \/ RefreshFails(l) \/ CallEnds(l) \/ CallUnauthorized(l)
  <2>1. /\ UNCHANGED <<row, spent, made, twins, callback, event, claim>> /\ burnt \subseteq burnt'
        /\ \A m \in Lookups \ {l} : lookup'[m] = lookup[m]
        /\ lookup'[l].pc \notin {"asked", "answered"}
        /\ lookup[l].pc = "answered" => AskToken(l) \in burnt'
    <3>0. lookup \in [Lookups -> Lookup]
      BY DEF Shape, LookupsOK
    <3>1. CASE RefreshFails(l)
      BY <3>0, <3>1, Idle DEF RefreshFails, platform, AskToken
    <3>2. CASE CallEnds(l)
      BY <3>0, <3>2, Idle DEF CallEnds, platform, history
    <3>3. CASE CallUnauthorized(l)
      BY <3>0, <3>3, Idle DEF CallUnauthorized, platform, history
    <3>4. CASE \E p \in Projects : StartLookup(l, p)
      BY <3>0, <3>4, Idle DEF StartLookup, IdleLookup, platform, history
    <3> QED BY <1>1, <3>1, <3>2, <3>3, <3>4
  <2>2. ASSUME NEW m \in Lookups \ {l}, lookup[m].pc \in {"asked", "answered"}
        PROVE  lock'[lookup[m].project] = lock[lookup[m].project]
    <3>1. \/ lock' = lock
          \/ lock' = [lock EXCEPT ![lookup[l].project] = None] /\ lookup[l].pc \in {"asked", "answered"}
      <4>1. CASE RefreshFails(l)
        BY <4>1 DEF RefreshFails, Releasing
      <4>2. CASE \E p \in Projects : StartLookup(l, p)
        BY <4>2 DEF StartLookup
      <4>3. CASE CallEnds(l) \/ CallUnauthorized(l)
        BY <4>3 DEF CallEnds, CallUnauthorized
      <4> QED BY <1>1, <4>1, <4>2, <4>3
    <3> QED BY <2>2, <3>1, TokenTypes DEF TokenInv, Locked, Shape, HistoryOK
  <2>3. \A m \in Lookups : \/ lookup'[m].pc \notin {"asked", "answered"} /\ (lookup[m].pc = "answered" => AskToken(m) \in burnt')
                           \/ lookup'[m] = lookup[m] /\ lock'[lookup[m].project] = lock[lookup[m].project]
    BY <2>1, <2>2
  <2> QED BY <2>1, <2>3, TokensKept, TokensLapse
<1> QED BY <1>1, AcquireTokens, RefreshTokens, StoreTokens DEF Question, Refreshing

\* The callback stores what it bought.
LEMMA SaveTokens == ASSUME Shape, TokenInv, NEW c \in Callbacks, SaveInstall(c) PROVE TokenInv' /\ NothingSpentBack
<1> USE TokenTypes
<1> DEFINE p == ProjectOf(c)
           u == CallbackToken(c)
<1>0. /\ callback[c].pc = "save" /\ p \in Projects /\ callback[c].token = u /\ CallbackOK(callback[c])
      /\ UNCHANGED <<spent, made, burnt, twins, lookup, lock, event, claim>> /\ callback \in [Callbacks -> Callback]
      /\ row \in [Projects -> Row] /\ row' \in {row, [row EXCEPT ![p] = Installed(row[p], callback[c])]}
      /\ callback'[c].pc \in {"failed", "linked"} /\ \A d \in Callbacks \ {c} : callback'[d] = callback[d]
  BY ProjectOfFacts DEF SaveInstall, CallbackToken, Finished, NewCallback, Shape, CallbacksOK, RowsOK, platform
<1>1. u # NoToken /\ New(u)
  BY <1>0, TokenFacts DEF CallbackOK, TokenInv, NewTokens
<1>2. /\ CallbackToken(c)' = NoToken
      /\ \A d \in Callbacks \ {c} : CallbackToken(d)' = CallbackToken(d)
      /\ \A e \in Events : EventToken(e)' = EventToken(e)
      /\ \A l \in Lookups : AskToken(l)' = AskToken(l) /\ AnswerToken(l)' = AnswerToken(l)
  BY <1>0 DEF CallbackToken, EventToken, AskToken, AnswerToken
<1>3. CASE row' = row
  BY <1>0, <1>2, <1>3, TokensLapse DEF AskToken
<1>4. CASE row' = [row EXCEPT ![p] = Installed(row[p], callback[c])]
  <2>1. row'[p].token = u /\ \A q \in Projects \ {p} : row'[q].token = row[q].token
    BY <1>0, <1>4 DEF Installed, ApplyTokens, Row
  <2>2. \A x \in Nat : New(x) /\ x # u => New(x)'
    BY <1>0, <1>2, <2>1 DEF New
  <2>3. NewTokens'
    <3>1. \A d \in Callbacks : New(CallbackToken(d))'
      BY <1>1, <1>2, <2>2 DEF TokenInv, NewTokens, NewTokensApart, Apart, New
    <3>2. \A e \in Events : New(EventToken(e))'
      BY <1>1, <1>2, <2>2 DEF TokenInv, NewTokens, NewTokensApart, Apart, New
    <3>3. \A m \in Lookups : New(AnswerToken(m))'
      BY <1>1, <1>2, <2>2 DEF TokenInv, NewTokens, NewTokensApart, Apart, New
    <3> QED BY <3>1, <3>2, <3>3 DEF NewTokens
  <2>4. NewTokensApart'
    BY <1>2 DEF TokenInv, NewTokensApart, Apart
  <2>5. OldTokens' /\ NothingSpentBack
    BY <1>0, <1>1, <1>2, <2>1 DEF TokenInv, OldTokens, New, NothingSpentBack
  <2>6. Locked' /\ RefreshedOnce'
    BY <1>0, <1>2 DEF TokenInv, Locked, RefreshedOnce
  <2>7. OneTenantEach'
    <3>1. \A q, s \in Projects : q # s /\ row'[q].token \notin twins => Apart(row'[q].token, row'[s].token)
      BY <1>1, <2>1 DEF TokenInv, OneTenantEach, Apart, New
    <3>2. \A m \in Lookups, q \in Projects :
            lookup'[m].project # q /\ AskToken(m)' \notin twins => Apart(AskToken(m)', row'[q].token)
      BY <1>0, <1>1, <1>2, <2>1 DEF TokenInv, OneTenantEach, Apart, New
    <3> QED BY <1>0, <1>2, <3>1, <3>2 DEF TokenInv, OneTenantEach
  <2>8. SpentInRow'
    BY <1>0, <1>1, <1>2, <2>1 DEF TokenInv, SpentInRow, New
  <2> QED BY <2>3, <2>4, <2>5, <2>6, <2>7, <2>8 DEF TokenInv
<1> QED BY <1>0, <1>3, <1>4

\* The callback buys a token.
LEMMA ExchangeTokens == ASSUME Shape, TokenInv, NEW c \in Callbacks, Exchange(c) PROVE TokenInv' /\ NothingSpentBack
<1> USE TokenTypes
<1>0. /\ callback \in [Callbacks -> Callback] /\ callback[c].pc = "exchange" /\ made' = made + 1
      /\ UNCHANGED <<row, spent, burnt, twins, lookup, lock, event, claim>>
      /\ callback' = [callback EXCEPT ![c] = [@ EXCEPT !.pc = "check", !.token = made + 1]]
  BY DEF Exchange, Issue, Shape, CallbacksOK, history
<1>1. /\ CallbackToken(c)' = made + 1 /\ CallbackToken(c) = NoToken
      /\ \A d \in Callbacks \ {c} : CallbackToken(d)' = CallbackToken(d)
      /\ \A e \in Events : EventToken(e)' = EventToken(e)
      /\ \A l \in Lookups : AskToken(l)' = AskToken(l) /\ AnswerToken(l)' = AnswerToken(l)
  BY <1>0 DEF CallbackToken, EventToken, AskToken, AnswerToken, Callback
<1>2. \A x \in Nat : New(x) => New(x)'
  BY <1>0, <1>1 DEF New
<1>3. \A x \in Nat : x = made + 1 => New(x)'
  BY <1>0, <1>1 DEF New, TokenInv, OldTokens
<1>4. NewTokens'
  BY <1>1, <1>2, <1>3 DEF TokenInv, NewTokens
<1>5. NewTokensApart'
  BY <1>1 DEF TokenInv, NewTokensApart, Apart, NewTokens, New
<1>6. OldTokens' /\ NothingSpentBack
  BY <1>0, <1>1 DEF TokenInv, OldTokens, NothingSpentBack
<1>7. Locked' /\ OneTenantEach' /\ SpentInRow' /\ RefreshedOnce'
  BY <1>0, <1>1 DEF TokenInv, Locked, OneTenantEach, SpentInRow, RefreshedOnce
<1> QED BY <1>4, <1>5, <1>6, <1>7 DEF TokenInv

LEMMA InstallTokens == ASSUME Shape, TokenInv, NEW c \in Callbacks, Install(c) PROVE TokenInv' /\ NothingSpentBack
<1>1. CASE \/ \E n \in Nonces, s \in Stores : ReadNonce(c, n, s)
           \/ ClaimNonce(c) \/ ExchangeFails(c) \/ CheckLinked(c) \/ LoadInstalled(c)
  <2>0. callback \in [Callbacks -> Callback]
    BY DEF Shape, CallbacksOK
  <2>1. /\ UNCHANGED <<row, spent, made, burnt, twins, lookup, lock, event, claim>>
        /\ \A d \in Callbacks \ {c} : callback'[d] = callback[d]
    BY <1>1, <2>0 DEF ReadNonce, ClaimNonce, ExchangeFails, CheckLinked, LoadInstalled, Finished, platform, history
  <2>2. CallbackToken(c)' \in {CallbackToken(c), NoToken}
    <3>1. CASE (\E n \in Nonces, s \in Stores : ReadNonce(c, n, s)) \/ ClaimNonce(c) \/ ExchangeFails(c)
      <4>1. callback'[c].pc \in {"claim", "rejected", "exchange", "failed"}
        <5>1. CASE \E n \in Nonces, s \in Stores : ReadNonce(c, n, s)
          BY <2>0, <5>1 DEF ReadNonce, Callback
        <5>2. CASE ClaimNonce(c)
          BY <2>0, <5>2 DEF ClaimNonce, Finished, NewCallback, Callback
        <5>3. CASE ExchangeFails(c)
          BY <2>0, <5>3 DEF ExchangeFails, Finished, NewCallback
        <5> QED BY <3>1, <5>1, <5>2, <5>3
      <4> QED BY <4>1 DEF CallbackToken
    <3>2. CASE CheckLinked(c)
      BY <2>0, <3>2 DEF CheckLinked, Finished, NewCallback, CallbackToken, Callback
    <3>3. CASE LoadInstalled(c)
      <4>1. callback'[c].pc = "save" /\ callback'[c].token = callback[c].token /\ callback[c].pc = "load"
        BY <2>0, <3>3 DEF LoadInstalled, Callback
      <4> QED BY <4>1 DEF CallbackToken
    <3> QED BY <1>1, <3>1, <3>2, <3>3
  <2>3. \A d \in Callbacks : CallbackToken(d)' \in {CallbackToken(d), NoToken}
    BY <2>1, <2>2 DEF CallbackToken
  <2> QED BY <2>1, <2>3, TokensKept, TokensLapse DEF AskToken
<1> QED BY <1>1, SaveTokens, ExchangeTokens DEF Install

\* The tokens of an event go into the rows that were loaded.
LEMMA AuthorizeTokens ==
  ASSUME Shape, TokenInv, NEW h \in Handlers, CommitRows(h), Authorizes(h) PROVE TokenInv' /\ NothingSpentBack
<1> USE TokenTypes
<1> PICK e \in Events : e = handler[h].event /\ claim[e] = h
  BY StoreAssumption DEF CommitRows, Authorizes, Shape, HandlersOK, HandlerOK
<1> DEFINE u == EventToken(e)
<1>0. /\ handler[h].pc = "commit" /\ Loaded(h) \subseteq Projects
      /\ row \in [Projects -> Row] /\ claim \in [Events -> Handlers \cup {None, "done"}]
      /\ UNCHANGED <<spent, made, burnt, lookup, lock, event, callback>>
      /\ row' = [p \in Projects |-> Updated(h, p)] /\ claim' = [claim EXCEPT ![e] = "done"]
  BY StoreAssumption DEF CommitRows, Authorizes, Shape, HandlersOK, HandlerOK, RowsOK, EventsOK, Loaded, platform
<1>1. u = event[e].token /\ u \in Tokens
  BY <1>0, StoreAssumption DEF Authorizes, EventToken, Shape, EventsOK
<1>2. u # NoToken /\ New(u)
  BY <1>0, <1>1, TokenFacts DEF TokenInv, NewTokens
<1>3. \A p \in Projects : row'[p].token = IF p \in Loaded(h) THEN u ELSE row[p].token
  BY <1>0, <1>1 DEF Updated, ApplyTokens, Row
<1>4. /\ twins \subseteq twins'
      /\ \A p, q \in Loaded(h) : p # q => u \in twins'
  BY <1>0, <1>1 DEF CommitRows
<1>5. /\ EventToken(e)' = NoToken
      /\ \A f \in Events \ {e} : EventToken(f)' = EventToken(f)
      /\ \A c \in Callbacks : CallbackToken(c)' = CallbackToken(c)
      /\ \A l \in Lookups : AskToken(l)' = AskToken(l) /\ AnswerToken(l)' = AnswerToken(l)
  BY <1>0 DEF CallbackToken, EventToken, AskToken, AnswerToken
<1>6. \A x \in Nat : New(x) /\ x # u => New(x)'
  BY <1>0, <1>3, <1>5 DEF New
<1>7. NewTokens'
  <2>1. \A d \in Callbacks : New(CallbackToken(d))'
    BY <1>0, <1>2, <1>5, <1>6 DEF TokenInv, NewTokens, NewTokensApart, Apart, New
  <2>2. \A f \in Events : New(EventToken(f))'
    BY <1>0, <1>2, <1>5, <1>6 DEF TokenInv, NewTokens, NewTokensApart, Apart, New
  <2>3. \A m \in Lookups : New(AnswerToken(m))'
    BY <1>0, <1>2, <1>5, <1>6 DEF TokenInv, NewTokens, NewTokensApart, Apart, New
  <2> QED BY <2>1, <2>2, <2>3 DEF NewTokens
<1>8. NewTokensApart'
  BY <1>5 DEF TokenInv, NewTokensApart, Apart
<1>9. OldTokens' /\ NothingSpentBack
  BY <1>0, <1>2, <1>3, <1>5 DEF TokenInv, OldTokens, New, NothingSpentBack
<1>10. Locked' /\ RefreshedOnce'
  BY <1>0, <1>4, <1>5 DEF TokenInv, Locked, RefreshedOnce
<1>11. OneTenantEach'
  <2>1. \A p, q \in Projects : p # q /\ row'[p].token \notin twins' => Apart(row'[p].token, row'[q].token)
    BY <1>2, <1>3, <1>4 DEF TokenInv, OneTenantEach, Apart, New
  <2>2. \A m \in Lookups, q \in Projects :
          lookup'[m].project # q /\ AskToken(m)' \notin twins' => Apart(AskToken(m)', row'[q].token)
    BY <1>0, <1>2, <1>3, <1>4, <1>5 DEF TokenInv, OneTenantEach, Apart, New
  <2>3. \A l, m \in Lookups :
          lookup'[l].project # lookup'[m].project /\ AskToken(l)' \notin twins' => Apart(AskToken(l)', AskToken(m)')
    BY <1>0, <1>4, <1>5 DEF TokenInv, OneTenantEach, Apart
  <2> QED BY <2>1, <2>2, <2>3 DEF OneTenantEach
<1>12. SpentInRow'
  <2> SUFFICES ASSUME NEW p \in Projects, row'[p].token \in spent
               PROVE  \/ row'[p].token \in burnt \cup twins'
                      \/ \E l \in Lookups : lookup[l].project = p /\ lookup[l].pc = "answered" /\ AskToken(l)' = row'[p].token
    BY <1>0 DEF SpentInRow
  <2>1. row'[p].token = row[p].token
    BY <1>2, <1>3 DEF New
  <2> QED BY <1>4, <1>5, <2>1 DEF TokenInv, SpentInRow
<1> QED BY <1>7, <1>8, <1>9, <1>10, <1>11, <1>12 DEF TokenInv

LEMMA RequestTokens == ASSUME Shape, TokenInv, NEW h \in Handlers, Request(h) PROVE TokenInv' /\ NothingSpentBack
<1>1. CASE (\E e \in Events : ClaimEvent(h, e)) \/ (\E p \in Projects : StartDisconnect(h, p)) \/ LoadRows(h)
  <2>1. UNCHANGED <<row, spent, made, burnt, twins, lookup, lock, event, callback>>
    BY <1>1 DEF ClaimEvent, StartDisconnect, LoadRows, platform, history
  <2>2. \A f \in Events : EventToken(f)' \in {EventToken(f), NoToken}
    <3>1. ASSUME NEW e \in Events, ClaimEvent(h, e) PROVE \A f \in Events : EventToken(f)' \in {EventToken(f), NoToken}
      <4>1. claim' = [claim EXCEPT ![e] = h] /\ claim[e] = None /\ h # "done" /\ UNCHANGED event
        BY <3>1, StoreAssumption DEF ClaimEvent
      <4>2. claim \in [Events -> Handlers \cup {None, "done"}]
        BY DEF Shape, EventsOK
      <4>3. \A f \in Events \ {e} : claim'[f] = claim[f]
        BY <4>1, <4>2
      <4> QED BY <4>1, <4>2, <4>3, StoreAssumption DEF EventToken
    <3>2. ASSUME UNCHANGED claim PROVE \A f \in Events : EventToken(f)' \in {EventToken(f), NoToken}
      BY <2>1, <3>2, TokensKept
    <3> QED BY <1>1, <3>1, <3>2 DEF StartDisconnect, LoadRows
  <2> QED BY <2>1, <2>2, TokensKept, TokensLapse DEF AskToken
<1>2. CASE CommitRows(h) /\ ~Authorizes(h)
  <2>1. /\ UNCHANGED <<spent, made, burnt, twins, lookup, lock, event, callback>>
        /\ row' = [p \in Projects |-> Updated(h, p)]
        /\ claim' \in {claim, [claim EXCEPT ![handler[h].event] = "done"]}
    BY <1>2 DEF CommitRows, platform
  <2>2. \A p \in Projects : row'[p].token \in {row[p].token, NoToken}
    BY <1>2, <2>1 DEF Updated, Wipe, Dirty, Shape, RowsOK, Row
  <2>3. \A f \in Events : EventToken(f)' \in {EventToken(f), NoToken}
    BY <2>1 DEF EventToken, Shape, EventsOK
  <2> QED BY <2>1, <2>2, <2>3, TokensKept, TokensLapse DEF AskToken
<1> QED BY <1>1, <1>2, AuthorizeTokens DEF Request

\* The tokens of an authorize event are issued.
LEMMA MerchantTokens ==
  ASSUME Shape, TokenInv, NEW e \in Events, NEW s \in Stores, MerchantAuthorizes(e, s) PROVE TokenInv' /\ NothingSpentBack
<1> USE TokenTypes
<1>0. /\ event[e].kind = "none" /\ claim[e] = None /\ made' = made + 1
      /\ UNCHANGED <<row, spent, burnt, twins, lookup, lock, callback, claim>>
      /\ event'[e].kind = "authorize" /\ event'[e].token = made + 1
      /\ \A f \in Events \ {e} : event'[f] = event[f]
  BY DEF MerchantAuthorizes, Issue, Shape, EventsOK, history
<1>1. /\ EventToken(e)' = made + 1 \/ EventToken(e)' = NoToken
      /\ EventToken(e) = NoToken
      /\ \A f \in Events \ {e} : EventToken(f)' = EventToken(f)
      /\ \A d \in Callbacks : CallbackToken(d)' = CallbackToken(d)
      /\ \A l \in Lookups : AskToken(l)' = AskToken(l) /\ AnswerToken(l)' = AnswerToken(l)
  BY <1>0 DEF CallbackToken, EventToken, AskToken, AnswerToken
<1>2. \A x \in Nat : New(x) => New(x)'
  BY <1>0, <1>1 DEF New
<1>3. \A x \in Nat : x = made + 1 => New(x)'
  BY <1>0, <1>1 DEF New, TokenInv, OldTokens
<1>4. New(NoToken)'
  BY DEF New
<1>5. NewTokens'
  BY <1>1, <1>2, <1>3, <1>4 DEF TokenInv, NewTokens
<1>6. NewTokensApart'
  BY <1>1 DEF TokenInv, NewTokensApart, Apart, NewTokens, New
<1>7. OldTokens' /\ NothingSpentBack
  BY <1>0, <1>1 DEF TokenInv, OldTokens, NothingSpentBack
<1>8. Locked' /\ OneTenantEach' /\ SpentInRow' /\ RefreshedOnce'
  BY <1>0, <1>1 DEF TokenInv, Locked, OneTenantEach, SpentInRow, RefreshedOnce
<1> QED BY <1>5, <1>6, <1>7, <1>8 DEF TokenInv

LEMMA OthersTokens ==
  ASSUME Shape, TokenInv, Merchant \/ Restart \/ (\E p \in Projects : Expire(p)) \/ UNCHANGED vars
  PROVE  TokenInv' /\ NothingSpentBack
<1>1. ASSUME NEW e \in Events, NEW s \in Stores, MerchantUninstalls(e, s) PROVE TokenInv' /\ NothingSpentBack
  <2>1. UNCHANGED <<row, spent, made, burnt, twins, lookup, lock, callback, claim>>
    BY <1>1 DEF MerchantUninstalls, history
  <2>2. \A f \in Events : EventToken(f)' \in {EventToken(f), NoToken}
    BY <1>1 DEF MerchantUninstalls, EventToken, Shape, EventsOK
  <2> QED BY <2>1, <2>2, TokensKept, TokensLapse DEF AskToken
<1>2. CASE \E n \in Nonces, p \in Projects : IssueNonce(n, p)
  <2>1. UNCHANGED <<row, spent, made, burnt, twins, lookup, lock, callback, event, claim>>
    BY <1>2 DEF IssueNonce, platform, history
  <2> QED BY <2>1, TokensKept, TokensLapse DEF AskToken
<1>3. CASE Restart
  <2>1. /\ UNCHANGED <<row, spent, made, twins, event>> /\ burnt \subseteq burnt'
        /\ \A l \in Lookups : lookup'[l] = IdleLookup /\ (lookup[l].pc = "answered" => AskToken(l) \in burnt')
        /\ \A c \in Callbacks : callback'[c].pc = CutShort(callback[c].pc)
        /\ \A e \in Events : claim[e] = "done" => claim'[e] = "done"
    BY <1>3, StoreAssumption DEF Restart, platform, AskToken, NewCallback
  <2>2. \A c \in Callbacks : CallbackToken(c)' \in {CallbackToken(c), NoToken}
    BY <2>1 DEF CallbackToken, CutShort
  <2>3. \A e \in Events : EventToken(e)' \in {EventToken(e), NoToken}
    BY <1>3, <2>1 DEF EventToken, Restart
  <2> QED BY <2>1, <2>2, <2>3, Idle, TokensLapse
<1>4. ASSUME NEW p \in Projects, Expire(p) PROVE TokenInv' /\ NothingSpentBack
  <2>1. UNCHANGED <<spent, made, burnt, twins, lookup, lock, callback, event, claim>>
    BY <1>4 DEF Expire, platform, history
  <2>2. \A q \in Projects : row'[q].token = row[q].token
    BY <1>4 DEF Expire, Shape, RowsOK, Row
  <2> QED BY <2>1, <2>2, TokensKept, TokensLapse DEF AskToken
<1>5. CASE UNCHANGED vars
  BY <1>5, TokensKept, TokensLapse DEF vars, AskToken
<1> QED BY <1>1, <1>2, <1>3, <1>4, <1>5, MerchantTokens DEF Merchant

LEMMA TokenStep == Shape /\ TokenInv /\ [Next]_vars => TokenInv' /\ NothingSpentBack
BY QuestionTokens, InstallTokens, RequestTokens, OthersTokens DEF Next

\* No token is presented twice by the tenants of the program, however many ask, reinstall or
\* are restarted: only the answer that was lost and the event that met two tenants are excused.
THEOREM RefreshOnce == Spec => []RefreshedOnce
<1>1. TokenInv => RefreshedOnce
  BY DEF TokenInv
<1> QED BY <1>1, ShapeInit, ShapeStep, TokenInit, TokenStep, PTL DEF Spec

\* What a commit puts into a row is never spent: neither a stale refresh nor a redelivered
\* event can put an exchanged token back.
THEOREM SpentStaysOut == Spec => NoSpentTokenBack
<1>1. Shape /\ TokenInv /\ [Next]_vars =>
        [\A p \in Projects : row'[p].token # row[p].token => row'[p].token \notin spent']_vars
  BY TokenStep DEF NothingSpentBack
<1> QED BY <1>1, ShapeInit, ShapeStep, TokenInit, TokenStep, PTL DEF Spec, NoSpentTokenBack

-----------------------------------------------------------------------------
(* The excuse of RefreshedOnce is the overlap of LinkedOnce and nothing else. *)

TwinsAreRaced == twins # {} => \E p \in Projects : raced[p]

LoadedAlone(h) == handler[h].pc = "commit" /\ Authorizes(h) =>
                    \A p, q \in Loaded(h) : p # q => raced[p] \/ raced[q]

TwinInv == TwinsAreRaced /\ \A h \in Handlers : LoadedAlone(h)

LEMMA RacedLasts == Shape /\ [Next]_vars => \A p \in Projects : raced[p] => raced'[p]
<1> SUFFICES ASSUME Shape, [Next]_vars PROVE \A p \in Projects : raced[p] => raced'[p]
  OBVIOUS
<1>1. ASSUME NEW l \in Lookups, Question(l) PROVE UNCHANGED raced
  BY <1>1 DEF Question, Refreshing, StartLookup, Acquire, PlatformRefreshes, RefreshFails, StoreRefreshed, CallEnds,
     CallUnauthorized, history
<1>2. ASSUME NEW c \in Callbacks, Install(c) PROVE \A p \in Projects : raced[p] => raced'[p]
  BY <1>2 DEF Install, ReadNonce, ClaimNonce, Exchange, ExchangeFails, CheckLinked, LoadInstalled, SaveInstall, history
<1>3. ASSUME NEW h \in Handlers, Request(h) PROVE \A p \in Projects : raced[p] => raced'[p]
  BY <1>3 DEF Request, ClaimEvent, StartDisconnect, LoadRows, CommitRows, history
<1>4. CASE Merchant \/ Restart \/ (\E p \in Projects : Expire(p)) \/ UNCHANGED vars
  BY <1>4 DEF Merchant, MerchantUninstalls, MerchantAuthorizes, IssueNonce, Restart, Expire, vars, history
<1> QED BY <1>1, <1>2, <1>3, <1>4 DEF Next

LEMMA TwinStep == Shape /\ CalmInv /\ TwinInv /\ [Next]_vars => TwinInv'
<1> SUFFICES ASSUME Shape, CalmInv, TwinInv, [Next]_vars PROVE TwinInv'
  OBVIOUS
<1>0. \A p \in Projects : raced[p] => raced'[p]
  BY RacedLasts
<1>1. ASSUME UNCHANGED twins,
             \A h \in Handlers : \/ handler'[h].pc # "commit"
                                 \/ handler'[h] = handler[h] /\ Authorizes(h)' = Authorizes(h)
      PROVE  TwinInv'
  BY <1>0, <1>1 DEF TwinInv, TwinsAreRaced, LoadedAlone, Loaded
<1>2. ASSUME NEW l \in Lookups, Question(l) PROVE TwinInv'
  <2>1. UNCHANGED <<twins, handler, event>>
    BY <1>2 DEF Question, Refreshing, StartLookup, Acquire, PlatformRefreshes, RefreshFails, StoreRefreshed, CallEnds,
       CallUnauthorized, history
  <2> QED BY <1>1, <2>1, OthersKept
<1>3. ASSUME NEW c \in Callbacks, Install(c) PROVE TwinInv'
  <2>1. UNCHANGED <<twins, handler, event>>
    BY <1>3 DEF Install, ReadNonce, ClaimNonce, Exchange, ExchangeFails, CheckLinked, LoadInstalled, SaveInstall, history
  <2> QED BY <1>1, <2>1, OthersKept
<1>4. ASSUME NEW h \in Handlers, Request(h) PROVE TwinInv'
  <2>0. /\ handler \in [Handlers -> Handler] /\ UNCHANGED event
        /\ \A g \in Handlers \ {h} : handler'[g] = handler[g] /\ Authorizes(g)' = Authorizes(g)
    BY <1>4 DEF Shape, HandlersOK, Request, ClaimEvent, StartDisconnect, LoadRows, CommitRows, Authorizes
  <2>1. CASE LoadRows(h)
    <3>1. /\ UNCHANGED <<row, raced, twins>> /\ handler'[h].event = handler[h].event
          /\ handler'[h].seen = [p \in Projects |-> IF p \in Targets(h) THEN Seen(row[p]) ELSE NoRow]
      BY <2>0, <2>1 DEF LoadRows, Handler, history
    <3>2. Loaded(h)' \subseteq Targets(h) /\ Loaded(h)' \subseteq Projects
      BY <3>1 DEF Loaded, NoRow
    <3>3. Authorizes(h)' = Authorizes(h)
      BY <2>0, <3>1 DEF Authorizes
    <3>4. LoadedAlone(h)'
      BY <3>1, <3>2, <3>3 DEF LoadedAlone, CalmInv, LinkedOnce, Targets, Authorizes
    <3>5. \A g \in Handlers \ {h} : LoadedAlone(g)'
      BY <2>0, <3>1 DEF TwinInv, LoadedAlone, Loaded
    <3> QED BY <3>1, <3>4, <3>5 DEF TwinInv, TwinsAreRaced
  <2>2. CASE CommitRows(h)
    <3>1. handler[h].pc = "commit" /\ handler'[h].pc = "idle" /\ Loaded(h) \subseteq Projects
      BY <2>0, <2>2, Idle DEF CommitRows, Loaded
    <3>2. twins' # {} => twins # {} \/ (Authorizes(h) /\ \E p, q \in Loaded(h) : p # q)
      BY <2>2 DEF CommitRows
    <3>3. TwinsAreRaced'
      BY <1>0, <3>1, <3>2 DEF TwinInv, TwinsAreRaced, LoadedAlone
    <3>4. \A g \in Handlers : LoadedAlone(g)'
      BY <1>0, <2>0, <3>1 DEF TwinInv, LoadedAlone, Loaded
    <3> QED BY <3>3, <3>4 DEF TwinInv
  <2>3. CASE (\E e \in Events : ClaimEvent(h, e)) \/ \E p \in Projects : StartDisconnect(h, p)
    <3>1. handler'[h].pc = "load" /\ UNCHANGED twins
      BY <2>0, <2>3 DEF ClaimEvent, StartDisconnect, Handler, history
    <3> QED BY <1>1, <2>0, <3>1
  <2> QED BY <1>4, <2>1, <2>2, <2>3 DEF Request
<1>5. ASSUME NEW e \in Events, NEW s \in Stores, MerchantUninstalls(e, s) \/ MerchantAuthorizes(e, s) PROVE TwinInv'
  <2>1. /\ UNCHANGED <<twins, handler>> /\ event[e].kind = "none"
        /\ \A f \in Events \ {e} : event'[f] = event[f]
    BY <1>5 DEF MerchantUninstalls, MerchantAuthorizes, history, Shape, EventsOK
  <2>2. \A h \in Handlers : handler[h].pc # "idle" => handler[h].event # e
    BY <2>1, StoreAssumption DEF Shape, HandlersOK, HandlerOK, EventsOK
  <2>3. \A h \in Handlers : handler[h].pc # "idle" => Authorizes(h)' = Authorizes(h)
    BY <2>1, <2>2 DEF Authorizes, Shape, HandlersOK, HandlerOK
  <2> QED BY <1>1, <2>1, <2>3
<1>6. CASE Restart
  <2>1. UNCHANGED twins /\ \A h \in Handlers : handler'[h].pc = "idle"
    BY <1>6, Idle DEF Restart
  <2> QED BY <1>1, <2>1
<1>7. CASE (\E n \in Nonces, p \in Projects : IssueNonce(n, p)) \/ (\E p \in Projects : Expire(p)) \/ UNCHANGED vars
  <2>1. UNCHANGED <<twins, handler, event>>
    BY <1>7 DEF IssueNonce, Expire, vars, history
  <2> QED BY <1>1, <2>1, OthersKept
<1> QED BY <1>2, <1>3, <1>4, <1>5, <1>6, <1>7 DEF Next, Merchant

\* An event reaches two tenants only after two callbacks were both past the check, or after
\* a raced row: without such a race every refresh token that was not lost is presented once.
THEOREM TwinsNeedARace == Spec => []TwinsAreRaced
<1>1. Init => TwinInv
  BY DEF Init, TwinInv, TwinsAreRaced, LoadedAlone, IdleHandler
<1>2. TwinInv => TwinsAreRaced
  BY DEF TwinInv
<1> QED BY <1>1, <1>2, ShapeInit, ShapeStep, CalmInit, CalmStep, TwinStep, PTL DEF Spec
=============================================================================
