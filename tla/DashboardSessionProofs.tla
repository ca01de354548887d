----------------------- MODULE DashboardSessionProofs -----------------------
(***************************************************************************)
(* Proofs about DashboardSession, for any users and any number of requests *)
(* on their way.  Whoever starts a refresh waits for it, and for as long   *)
(* as it waits no other can be started; as long as nothing has overtaken   *)
(* an answer, all that is on its way is about the user of the stored       *)
(* tokens.                                                                 *)
(***************************************************************************)
EXTENDS DashboardSession, TLAPS

\* The refresh that is shared is the only one there is; whoever started it waits for it.
Shared ==
  /\ \A s \in Slots : post[s] # NoUser <=> refreshInFlight = s
  /\ \A s \in Slots : request[s].at = "waiting" =>
       refreshInFlight # "none" /\ request[s].post = refreshInFlight
  /\ \A s \in Slots : refreshInFlight = s => request[s].at = "waiting"

\* The page is blank exactly while the session is being restored.
BlankWhileRestoring == loading <=> request["restore"].at # "none"

Pending == {"sent", "waiting"}

\* What is on its way, as long as nothing has been overtaken.
InStep ==
  ~overtaken =>
    /\ request["restore"].at \in Pending =>
         /\ user = NoUser /\ request["login"].at \notin Pending
         /\ \A p \in Pages : request[p].at = "none"
    /\ request["login"].at \in Pending => user = NoUser
    /\ \A s \in {"restore", "login"} :
         request[s].at = "sent" => request[s].by.user = tokens.user
    /\ \A s \in Slots : post[s] # NoUser => post[s] = tokens.user

\* The inductive invariant.
IInv == TypeOK /\ Shared /\ BlankWhileRestoring /\ InStep /\ TokensFollowUser

USE UsersAssumption, SlotsAssumption

-----------------------------------------------------------------------------
LEMMA Requests ==
  /\ NoTokens \in TokensType /\ NoTokens.user = NoUser
  /\ NoRequest \in RequestType /\ NoRequest.at = "none"
  /\ \A u \in Users, kind \in {"login", "register"} :
       Form(u, kind) \in RequestType /\ Form(u, kind).at = kind
  /\ \A u \in Somebody, retried \in BOOLEAN, pair \in TokensType :
       /\ Sent(u, retried, pair) \in RequestType
       /\ Sent(u, retried, pair).at = "sent" /\ Sent(u, retried, pair).by = pair
  /\ \A r \in RequestType : /\ Aged(r) \in RequestType /\ Aged(r).at = r.at
                            /\ Aged(r).by.user = r.by.user /\ Aged(r).post = r.post
  /\ \A pair \in TokensType : Stale(pair) \in TokensType /\ Stale(pair).user = pair.user
<1>1. NoTokens \in TokensType /\ NoTokens.user = NoUser
  BY DEF NoTokens, TokensType, Somebody
<1>2. NoRequest \in RequestType /\ NoRequest.at = "none"
  BY <1>1 DEF NoRequest, RequestType, Somebody
<1>3. ASSUME NEW u \in Users, NEW kind \in {"login", "register"}
      PROVE  Form(u, kind) \in RequestType /\ Form(u, kind).at = kind
  BY <1>1 DEF Form, RequestType, Somebody
<1>4. ASSUME NEW u \in Somebody, NEW retried \in BOOLEAN, NEW pair \in TokensType
      PROVE  /\ Sent(u, retried, pair) \in RequestType
             /\ Sent(u, retried, pair).at = "sent" /\ Sent(u, retried, pair).by = pair
  BY DEF Sent, RequestType
<1>5. ASSUME NEW pair \in TokensType
      PROVE  Stale(pair) \in TokensType /\ Stale(pair).user = pair.user
  BY DEF Stale, TokensType
<1>6. ASSUME NEW r \in RequestType
      PROVE  /\ Aged(r) \in RequestType /\ Aged(r).at = r.at
             /\ Aged(r).by.user = r.by.user /\ Aged(r).post = r.post
  <2>1. Stale(r.by) \in TokensType /\ Stale(r.by).user = r.by.user
    BY <1>5 DEF RequestType
  <2>2. QED
    BY <2>1 DEF Aged, RequestType
<1>7. QED
  BY <1>1, <1>2, <1>3, <1>4, <1>5, <1>6

\* The request that restores a session.
LEMMA Restoring ==
  ASSUME NEW pair \in TokensType
  PROVE  /\ Sent(NoUser, FALSE, pair) \in RequestType /\ Sent(NoUser, FALSE, pair).at = "sent"
         /\ Sent(NoUser, FALSE, pair).by = pair
<1>1. NoUser \in Somebody /\ FALSE \in BOOLEAN
  BY DEF Somebody
<1>2. QED
  BY <1>1, Requests, Zenon

\* A page that is loaded starts afresh.
LEMMA LoadKeeps ==
  ASSUME account' \in [Users -> {"none", "uncommitted", "active", "inactive"}],
         NEW pair \in TokensType, Load(pair)
  PROVE  IInv'
<1>1. /\ \A s \in Slots : request'[s] = IF s = "restore" /\ pair.user # NoUser
                                       THEN Sent(NoUser, FALSE, pair) ELSE NoRequest
      /\ "restore" \in Slots /\ "login" \in Slots /\ "none" \notin Slots
  BY DEF Load, Slots
<1>2. /\ Sent(NoUser, FALSE, pair) \in RequestType /\ Sent(NoUser, FALSE, pair).at = "sent"
      /\ Sent(NoUser, FALSE, pair).by = pair
  BY Restoring
<1>3. TypeOK'
  <2>1. request' \in [Slots -> RequestType]
    BY <1>1, <1>2, Requests DEF Load
  <2>2. QED
    BY <2>1 DEF Load, TypeOK, Somebody
<1>4. Shared'
  BY <1>1, <1>2, Requests DEF Load, Shared
<1>5. BlankWhileRestoring'
  BY <1>1, <1>2, Requests DEF Load, BlankWhileRestoring
<1>6. InStep'
  BY <1>1, <1>2, Requests DEF Load, InStep, Pending, Slots
<1>7. TokensFollowUser'
  BY <1>1, <1>2, Requests DEF Load, TokensFollowUser
<1>8. QED
  BY <1>3, <1>4, <1>5, <1>6, <1>7 DEF IInv

LEMMA InitIInv == Init => IInv
<1> SUFFICES ASSUME Init PROVE IInv
  OBVIOUS
<1>1. /\ \A s \in Slots : request[s] = IF s = "restore" /\ tokens.user # NoUser
                                       THEN Sent(NoUser, FALSE, tokens) ELSE NoRequest
      /\ "restore" \in Slots /\ "login" \in Slots /\ "none" \notin Slots
      /\ tokens \in TokensType /\ loading = (tokens.user # NoUser)
      /\ user = NoUser /\ refreshInFlight = "none" /\ ~overtaken
      /\ \A s \in Slots : post[s] = NoUser
  <2>1. PICK u \in Somebody, fresh \in BOOLEAN :
          /\ tokens = [user |-> u, fresh |-> fresh /\ u # NoUser]
          /\ loading = (u # NoUser)
          /\ request = [s \in Slots |-> IF s = "restore" /\ u # NoUser
                                        THEN Sent(NoUser, FALSE, tokens) ELSE NoRequest]
    BY Zenon DEF Init
  <2>2. tokens \in TokensType /\ tokens.user = u
    BY <2>1 DEF TokensType
  <2>3. \A s \in Slots : request[s] = IF s = "restore" /\ u # NoUser
                                     THEN Sent(NoUser, FALSE, tokens) ELSE NoRequest
    BY <2>1, Zenon
  <2>4. /\ "restore" \in Slots /\ "login" \in Slots /\ "none" \notin Slots
        /\ user = NoUser /\ refreshInFlight = "none" /\ ~overtaken
        /\ \A s \in Slots : post[s] = NoUser
    BY DEF Init, Slots
  <2>5. QED
    BY <2>1, <2>2, <2>3, <2>4, Zenon
<1>2. /\ Sent(NoUser, FALSE, tokens) \in RequestType /\ Sent(NoUser, FALSE, tokens).at = "sent"
      /\ Sent(NoUser, FALSE, tokens).by = tokens
  BY <1>1, Restoring
<1>3. TypeOK
  <2>1. request \in [Slots -> RequestType]
    BY <1>1, <1>2, Requests DEF Init
  <2>2. QED
    BY <1>1, <2>1 DEF Init, TypeOK, Somebody
<1>4. \A s \in Slots : s # "restore" => request[s].at = "none"
  BY <1>1, Requests
<1>5. request["restore"].at = IF tokens.user # NoUser THEN "sent" ELSE "none"
  BY <1>1, <1>2, Requests
<1>6. tokens.user # NoUser => request["restore"].by = tokens
  BY <1>1, <1>2
<1>7. Shared
  BY <1>1, <1>4, <1>5 DEF Shared
<1>8. BlankWhileRestoring
  BY <1>1, <1>5 DEF BlankWhileRestoring
<1>9. InStep
  BY <1>1, <1>4, <1>5, <1>6 DEF InStep, Pending, Slots
<1>10. TokensFollowUser
  BY <1>1, <1>4, <1>5 DEF TokensFollowUser
<1>11. QED
  BY <1>3, <1>7, <1>8, <1>9, <1>10 DEF IInv

\* The facts of the types the steps need.
LEMMA Types ==
  ASSUME IInv
  PROVE  /\ tokens \in TokensType /\ tokens.user \in Somebody /\ user \in Somebody
         /\ "restore" \in Slots /\ "login" \in Slots /\ "none" \notin Slots
         /\ \A s \in Slots : /\ request[s] \in RequestType /\ request[s].by \in TokensType
                             /\ request[s].target \in Somebody
                             /\ request[s].by.user \in Somebody
                             /\ post[s] \in Somebody
BY DEF IInv, TypeOK, TokensType, RequestType, Slots

\* Requests that begin or end without an answer of the server.
LEMMA FormKeeps ==
  ASSUME IInv, NEW r \in RequestType, NEW s \in Slots, r.at \notin Pending,
         request[s].at \notin Pending,
         s # "login" => request[s].at = r.at,
         request' = [request EXCEPT ![s] = r],
         UNCHANGED <<tokens, user, loading, post, refreshInFlight, overtaken>>,
         account' \in [Users -> {"none", "uncommitted", "active", "inactive"}]
  PROVE  IInv'
<1>1. /\ request'[s].at = r.at
      /\ \A t \in Slots : t # s => request'[t] = request[t]
      /\ r.at # "waiting" /\ r.at # "sent"
      /\ request[s].at # "waiting" /\ request[s].at # "sent"
  BY DEF IInv, TypeOK, Pending
<1>2. TypeOK'
  BY DEF IInv, TypeOK
<1>3. Shared'
  BY <1>1 DEF IInv, Shared
<1>4. BlankWhileRestoring'
  BY <1>1, Types DEF IInv, BlankWhileRestoring
<1>5. InStep'
  BY <1>1, Types DEF IInv, InStep, Pending, Slots
<1>6. TokensFollowUser'
  BY <1>1, Types DEF IInv, TokensFollowUser
<1>7. QED
  BY <1>2, <1>3, <1>4, <1>5, <1>6 DEF IInv

\* The server's rows are no part of the rest.
LEMMA AccountKeeps ==
  ASSUME IInv, UNCHANGED <<tokens, user, loading, request, post, refreshInFlight, overtaken>>,
         account' \in [Users -> {"none", "uncommitted", "active", "inactive"}]
  PROVE  IInv'
BY DEF IInv, TypeOK, Shared, BlankWhileRestoring, InStep, TokensFollowUser

LEMMA LogoutKeeps ==
  ASSUME IInv, Logout
  PROVE  IInv'
<1>1. TypeOK'
  BY Requests, Types DEF Logout, IInv, TypeOK, Somebody
<1>2. Shared' /\ BlankWhileRestoring'
  BY DEF Logout, IInv, Shared, BlankWhileRestoring
<1>3. InStep'
  BY Requests, Types DEF Logout, IInv, InStep, Pending, OnTheirWay
<1>4. TokensFollowUser'
  BY Requests DEF Logout, TokensFollowUser
<1>5. QED
  BY <1>1, <1>2, <1>3, <1>4 DEF IInv

LEMMA FetchKeeps ==
  ASSUME IInv, NEW p \in Pages, Fetch(p)
  PROVE  IInv'
<1>1. /\ p \in Slots /\ p # "restore" /\ p # "login" /\ user \in Somebody
      /\ request[p].at = "none" /\ user # NoUser
      /\ request' = [request EXCEPT ![p] = Sent(user, FALSE, tokens)]
      /\ UNCHANGED <<account, tokens, user, loading, post, refreshInFlight, overtaken>>
  BY Types DEF Fetch, Slots
<1>2. Sent(user, FALSE, tokens) \in RequestType /\ Sent(user, FALSE, tokens).at = "sent"
  <2>1. FALSE \in BOOLEAN
    OBVIOUS
  <2>2. QED
    BY <1>1, <2>1, Types, Requests, Zenon
<1>3. /\ request'[p].at = "sent" /\ \A t \in Slots : t # p => request'[t] = request[t]
      /\ "restore" \in Slots /\ "login" \in Slots
  BY <1>1, <1>2, Types DEF IInv, TypeOK
<1>4. TypeOK'
  BY <1>1, <1>2 DEF IInv, TypeOK
<1>5. Shared'
  BY <1>1, <1>3 DEF IInv, Shared
<1>6. BlankWhileRestoring' /\ TokensFollowUser'
  BY <1>1, <1>3 DEF IInv, BlankWhileRestoring, TokensFollowUser
<1>7. InStep'
  BY <1>1, <1>3 DEF IInv, InStep, Pending
<1>8. QED
  BY <1>4, <1>5, <1>6, <1>7 DEF IInv

\* New tokens while something else is on its way: it is overtaken.
LEMMA TokensReceivedKeeps ==
  ASSUME IInv, NEW u \in Users, request["login"].at \in {"login", "register"},
         TokensReceived(u),
         account' \in [Users -> {"none", "uncommitted", "active", "inactive"}]
  PROVE  IInv'
<1> DEFINE pair == [user |-> u, fresh |-> TRUE]
<1>1. pair \in TokensType /\ pair.user = u /\ u # NoUser
  BY DEF TokensType, Somebody
<1>2. /\ tokens' = pair
      /\ request' = [request EXCEPT !["login"] = Sent(NoUser, FALSE, pair)]
      /\ overtaken' = (overtaken \/ user # NoUser \/ request["restore"].at # "none"
                         \/ OnTheirWay # {})
      /\ UNCHANGED <<user, loading, post, refreshInFlight>>
  BY DEF TokensReceived
<1> HIDE DEF pair
<1>3. /\ Sent(NoUser, FALSE, pair) \in RequestType /\ Sent(NoUser, FALSE, pair).at = "sent"
      /\ Sent(NoUser, FALSE, pair).by = pair
  BY <1>1, Restoring
<1>4. /\ request'["login"].at = "sent" /\ request'["login"].by = pair
      /\ \A t \in Slots : t # "login" => request'[t] = request[t]
      /\ request["login"].at # "waiting" /\ "login" # "restore"
  BY <1>2, <1>3, Types DEF IInv, TypeOK
<1>5. TypeOK'
  BY <1>1, <1>2, <1>3, Types DEF IInv, TypeOK
<1>6. Shared' /\ BlankWhileRestoring'
  BY <1>2, <1>4, Types DEF IInv, Shared, BlankWhileRestoring
<1>7. InStep'
  BY <1>1, <1>2, <1>4, Types DEF InStep, Pending, OnTheirWay
<1>8. TokensFollowUser'
  BY <1>1, <1>2, <1>4 DEF TokensFollowUser
<1>9. QED
  BY <1>5, <1>6, <1>7, <1>8 DEF IInv

LEMMA LoginKeeps ==
  ASSUME IInv, NEW u \in Users, LoginAnswered(u) \/ RegisterAnswered(u)
  PROVE  IInv'
<1>1. /\ request["login"].at \in {"login", "register"} /\ request["login"].at \notin Pending
      /\ "login" \in Slots /\ NoRequest \in RequestType /\ NoRequest.at \notin Pending
  BY Types, Requests DEF LoginAnswered, RegisterAnswered, Pending
<1>2. account' \in [Users -> {"none", "uncommitted", "active", "inactive"}]
  BY DEF LoginAnswered, RegisterAnswered, IInv, TypeOK
<1>3. CASE UNCHANGED <<tokens, user, loading, post, refreshInFlight, overtaken>>
             /\ request' = [request EXCEPT !["login"] = NoRequest]
  BY <1>1, <1>2, <1>3, FormKeeps
<1>4. CASE TokensReceived(u)
  BY <1>1, <1>2, <1>4, TokensReceivedKeeps
<1>5. QED
  BY <1>3, <1>4 DEF LoginAnswered, RegisterAnswered

\* An answer, or an error, reaches whoever asked.
LEMMA EndsKeep ==
  ASSUME IInv, NEW s \in Slots, request[s].at = "sent", UNCHANGED account,
         Rejected(s) \/ Fulfilled(s)
  PROVE  IInv'
<1>1. /\ request' = [request EXCEPT ![s] = NoRequest]
      /\ loading' = (loading /\ s # "restore")
      /\ UNCHANGED <<post, refreshInFlight>>
  BY DEF Rejected, Fulfilled
<1>2. /\ request'[s].at = "none" /\ \A t \in Slots : t # s => request'[t] = request[t]
      /\ request[s].at # "waiting"
  BY <1>1, Requests DEF IInv, TypeOK
<1>3. TypeOK'
  <2>1. request' \in [Slots -> RequestType]
    BY <1>1, Requests DEF IInv, TypeOK
  <2>2. tokens' \in TokensType /\ user' \in Somebody
    BY Requests, Types DEF Rejected, Fulfilled
  <2>3. loading' \in BOOLEAN
    BY <1>1 DEF IInv, TypeOK
  <2>4. overtaken' \in BOOLEAN
    BY DEF Rejected, Fulfilled, IInv, TypeOK
  <2>5. QED
    BY <1>1, <2>1, <2>2, <2>3, <2>4 DEF IInv, TypeOK
<1>4. Shared'
  BY <1>1, <1>2 DEF IInv, Shared
<1>5. BlankWhileRestoring'
  BY <1>1, <1>2, Types DEF IInv, BlankWhileRestoring
<1>6. InStep' /\ TokensFollowUser'
  <2>1. CASE Rejected(s)
    <3>1. InStep'
      <4>1. CASE s = "restore"
        <5>1. ~overtaken => \A t \in Slots : t # s => request[t].at \notin Pending
          BY <4>1, Types DEF IInv, InStep, Pending, Slots
        <5>2. ~overtaken => \A t \in Slots : post[t] = NoUser
          BY <1>2, <5>1 DEF IInv, Shared, Pending
        <5>3. QED
          BY <1>1, <1>2, <2>1, <4>1, <5>1, <5>2, Types DEF Rejected, IInv, InStep, Pending
      <4>2. CASE s # "restore"
        BY <1>1, <1>2, <2>1, <4>2, Types DEF Rejected, IInv, InStep, Pending, Slots
      <4>3. QED
        BY <4>1, <4>2
    <3>2. TokensFollowUser'
      BY <1>1, <1>2, <2>1, Requests, Types DEF Rejected, IInv, InStep, Pending,
         BlankWhileRestoring, TokensFollowUser
    <3>3. QED
      BY <3>1, <3>2
  <2>2. CASE Fulfilled(s)
    <3>1. InStep'
      BY <1>1, <1>2, <2>2, Types DEF Fulfilled, IInv, InStep, Pending, Slots, Shared
    <3>2. TokensFollowUser'
      BY <1>1, <1>2, <2>2, Types DEF Fulfilled, IInv, InStep, Pending, BlankWhileRestoring,
         TokensFollowUser, Slots
    <3>3. QED
      BY <3>1, <3>2
  <2>3. QED
    BY <2>1, <2>2
<1>7. QED
  BY <1>3, <1>4, <1>5, <1>6 DEF IInv

\* A request refused for the first time waits for the refresh, its own or another's.
LEMMA RefreshedKeeps ==
  ASSUME IInv, NEW s \in Slots, request[s].at = "sent",
         refreshInFlight = "none" => tokens.user # NoUser, Refreshed(s),
         UNCHANGED <<account, tokens, user, loading, overtaken>>
  PROVE  IInv'
<1> DEFINE shared == IF refreshInFlight = "none" THEN s ELSE refreshInFlight
<1>1. /\ post' = IF shared = s THEN [post EXCEPT ![s] = tokens.user] ELSE post
      /\ refreshInFlight' = shared
      /\ request' = [request EXCEPT ![s] = Waiting(s, shared)]
  BY DEF Refreshed
<1>2. /\ shared \in Slots /\ shared # "none" /\ refreshInFlight # s
      /\ refreshInFlight = "none" => shared = s
      /\ refreshInFlight # "none" => shared = refreshInFlight /\ shared # s
  BY Types DEF IInv, TypeOK, Shared
<1> HIDE DEF shared
<1>3. Waiting(s, shared) \in RequestType /\ Waiting(s, shared).at = "waiting"
        /\ Waiting(s, shared).post = shared
  BY <1>2, Types, Requests DEF Waiting, RequestType
<1>4. /\ request'[s].at = "waiting" /\ request'[s].post = shared
      /\ \A t \in Slots : t # s => request'[t] = request[t]
  BY <1>1, <1>3 DEF IInv, TypeOK
<1>5. /\ \A t \in Slots : t # s => post'[t] = post[t]
      /\ post'[s] = IF shared = s THEN tokens.user ELSE post[s]
  BY <1>1, Types DEF IInv, TypeOK
<1>6. TypeOK'
  BY <1>1, <1>2, <1>3, Types DEF IInv, TypeOK
<1>7. Shared'
  <2>1. CASE refreshInFlight = "none"
    BY <1>1, <1>2, <1>4, <1>5, <2>1 DEF IInv, Shared
  <2>2. CASE refreshInFlight # "none"
    BY <1>1, <1>2, <1>4, <1>5, <2>2 DEF IInv, Shared
  <2>3. QED
    BY <2>1, <2>2
<1>8. BlankWhileRestoring' /\ TokensFollowUser'
  BY <1>4, Types DEF IInv, BlankWhileRestoring, TokensFollowUser
<1>9. InStep'
  BY <1>4, <1>5, Types DEF IInv, InStep, Pending, Slots
<1>10. QED
  BY <1>6, <1>7, <1>8, <1>9 DEF IInv

LEMMA ReplyKeeps ==
  ASSUME IInv, NEW s \in Slots, Answered(s) \/ Unauthorized(s) \/ RefreshFails(s) \/ Fails(s)
  PROVE  IInv'
<1>1. account' \in [Users -> {"none", "uncommitted", "active", "inactive"}] /\ UNCHANGED account
  BY DEF Answered, Unauthorized, RefreshFails, Fails, IInv, TypeOK
<1>2. CASE SignedOut
  BY <1>1, <1>2, LoadKeeps, Requests DEF SignedOut
<1>3. CASE (Rejected(s) \/ Fulfilled(s)) /\ request[s].at = "sent"
  BY <1>1, <1>3, EndsKeep
<1>4. CASE /\ request[s].at = "sent" /\ (refreshInFlight = "none" => tokens.user # NoUser)
           /\ Refreshed(s) /\ UNCHANGED <<tokens, user, loading, overtaken>>
  BY <1>1, <1>4, RefreshedKeeps
<1>5. QED
  BY <1>2, <1>3, <1>4 DEF Answered, Unauthorized, RefreshFails, Fails

\* The answer to the refresh releases whoever waits.
LEMMA RefreshAnsweredKeeps ==
  ASSUME IInv, NEW s \in Slots, RefreshAnswered(s)
  PROVE  IInv'
<1> DEFINE pair == [user |-> post[s], fresh |-> TRUE]
<1>1. pair \in TokensType /\ pair.user = post[s] /\ post[s] # NoUser /\ refreshInFlight = s
  BY Types DEF TokensType, RefreshAnswered, IInv, Shared
<1>2. /\ tokens' = pair /\ post' = [post EXCEPT ![s] = NoUser] /\ refreshInFlight' = "none"
      /\ request' = [w \in Slots |->
                       IF request[w].at = "waiting" /\ request[w].post = s
                       THEN Resent(w, pair) ELSE request[w]]
      /\ UNCHANGED <<account, user, loading, overtaken>>
  BY DEF RefreshAnswered
<1> HIDE DEF pair
<1>3. ASSUME NEW w \in Slots
      PROVE  /\ request'[w] \in RequestType
             /\ request[w].at = "waiting" => request'[w].at = "sent" /\ request'[w].by = pair
             /\ request[w].at # "waiting" => request'[w] = request[w]
  <2>1. request[w].at = "waiting" => request[w].post = s
    BY <1>1 DEF IInv, Shared
  <2>2. request'[w] = IF request[w].at = "waiting" /\ request[w].post = s
                      THEN Resent(w, pair) ELSE request[w]
    BY <1>2
  <2>3. request[w].target \in Somebody /\ TRUE \in BOOLEAN /\ request[w] \in RequestType
    BY Types
  <2>4. /\ Resent(w, pair) \in RequestType /\ Resent(w, pair).at = "sent"
        /\ Resent(w, pair).by = pair
    BY <1>1, <2>3, Requests, Zenon DEF Resent
  <2>5. QED
    BY <2>1, <2>2, <2>3, <2>4
<1>4. \A t \in Slots : post'[t] = NoUser
  BY <1>1, <1>2 DEF IInv, TypeOK, Shared
<1>5. TypeOK'
  BY <1>1, <1>2, <1>3 DEF IInv, TypeOK, Somebody
<1>6. Shared'
  BY <1>2, <1>3, <1>4, Types DEF Shared
<1>7. BlankWhileRestoring'
  BY <1>2, <1>3, Types DEF IInv, BlankWhileRestoring
<1>8. ~overtaken => tokens'.user = tokens.user
  BY <1>1, <1>2 DEF IInv, InStep
<1>9. InStep'
  BY <1>1, <1>2, <1>3, <1>4, <1>8, Types DEF IInv, InStep, Pending, Slots
<1>10. TokensFollowUser'
  BY <1>2, <1>3, <1>8, Types DEF IInv, TokensFollowUser
<1>11. QED
  BY <1>5, <1>6, <1>7, <1>9, <1>10 DEF IInv

LEMMA ExpireKeeps ==
  ASSUME IInv, Expire
  PROVE  IInv'
<1>1. /\ tokens' = Stale(tokens)
      /\ UNCHANGED <<account, user, loading, post, refreshInFlight, overtaken>>
  BY DEF Expire
<1>2. \A s \in Slots : /\ request'[s] \in RequestType /\ request'[s].at = request[s].at
                      /\ request'[s].by.user = request[s].by.user
                      /\ request'[s].post = request[s].post
  BY Types, Requests DEF Expire
<1>3. tokens' \in TokensType /\ tokens'.user = tokens.user
  BY <1>1, Types, Requests
<1>4. TypeOK'
  <2>1. request' \in [Slots -> RequestType]
    BY <1>2 DEF Expire
  <2>2. QED
    BY <1>1, <1>3, <2>1 DEF IInv, TypeOK
<1>5. Shared'
  BY <1>1, <1>2 DEF IInv, Shared
<1>6. BlankWhileRestoring' /\ TokensFollowUser'
  BY <1>1, <1>2, <1>3, Types DEF IInv, BlankWhileRestoring, TokensFollowUser
<1>7. InStep'
  BY <1>1, <1>2, <1>3, Types DEF IInv, InStep, Pending, Slots
<1>8. QED
  BY <1>4, <1>5, <1>6, <1>7 DEF IInv

LEMMA NextKeeps ==
  ASSUME IInv, [Next]_vars
  PROVE  IInv'
<1>1. CASE UNCHANGED vars
  BY <1>1 DEF vars, IInv, TypeOK, Shared, BlankWhileRestoring, InStep, TokensFollowUser
<1>2. CASE Reload
  BY <1>2, LoadKeeps, Types DEF Reload, IInv, TypeOK
<1>3. CASE Logout
  BY <1>3, LogoutKeeps
<1>4. ASSUME NEW u \in Users, NEW kind \in {"login", "register"}, Submit(u, kind)
      PROVE  IInv'
  <2>1. Form(u, kind) \in RequestType /\ Form(u, kind).at \notin Pending
    BY Requests DEF Pending
  <2>2. request["login"].at \notin Pending /\ "login" \in Slots
    BY <1>4, Types DEF Submit, Pending
  <2>3. QED
    BY <1>4, <2>1, <2>2, FormKeeps DEF Submit, IInv, TypeOK
<1>5. ASSUME NEW p \in Pages, Fetch(p)
      PROVE  IInv'
  BY <1>5, FetchKeeps
<1>6. ASSUME NEW u \in Users, LoginAnswered(u) \/ RegisterAnswered(u)
      PROVE  IInv'
  BY <1>6, LoginKeeps
<1>7. ASSUME NEW u \in Users, AccountCommitted(u) \/ Deactivate(u)
      PROVE  IInv'
  BY <1>7, AccountKeeps DEF AccountCommitted, Deactivate, IInv, TypeOK
<1>8. ASSUME NEW s \in Slots, Reply(s)
      PROVE  IInv'
  BY <1>8, ReplyKeeps, RefreshAnsweredKeeps DEF Reply
<1>9. CASE Expire
  BY <1>9, ExpireKeeps
<1>10. CASE LoginFails
  <2>1. /\ request["login"].at \notin Pending /\ "login" \in Slots
        /\ NoRequest \in RequestType /\ NoRequest.at \notin Pending
    BY <1>10, Types, Requests DEF LoginFails, Pending
  <2>2. QED
    BY <1>10, <2>1, FormKeeps DEF LoginFails, IInv, TypeOK
<1>11. QED
  BY <1>1, <1>2, <1>3, <1>4, <1>5, <1>6, <1>7, <1>8, <1>9, <1>10 DEF Next

-----------------------------------------------------------------------------
\* The inductive invariant holds of every tab.
THEOREM DashboardInvariant == Spec => []IInv
<1>1. Init => IInv
  BY InitIInv
<1>2. IInv /\ [Next]_vars => IInv'
  BY NextKeeps
<1>3. QED
  BY <1>1, <1>2, PTL DEF Spec

\* Type correctness.
THEOREM DashboardTypeOK == Spec => []TypeOK
<1>1. IInv => TypeOK
  BY DEF IInv
<1>2. QED
  BY <1>1, DashboardInvariant, PTL

\* "exactly one in-flight token refresh, shared by every request" (client.ts).
THEOREM RefreshIsShared == Spec => []OneRefresh
<1>1. IInv => OneRefresh
  BY DEF IInv, Shared, OneRefresh, OnTheirWay
<1>2. QED
  BY <1>1, DashboardInvariant, PTL

\* Nobody waits for a refresh that has been answered already, or was never sent.
THEOREM WaitersAreAnswered == Spec => []NobodyLeftWaiting
<1>1. IInv => NobodyLeftWaiting
  BY DEF IInv, TypeOK, Shared, NobodyLeftWaiting
<1>2. QED
  BY <1>1, DashboardInvariant, PTL

\* The tokens stored are those of the user shown, and none are left behind, unless an answer
\* was overtaken.
THEOREM TokensAreTheirs == Spec => []TokensFollowUser
<1>1. IInv => TokensFollowUser
  BY DEF IInv
<1>2. QED
  BY <1>1, DashboardInvariant, PTL
=============================================================================
