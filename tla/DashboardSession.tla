-------------------------- MODULE DashboardSession --------------------------
(***************************************************************************)
(* One tab of the dashboard and the accounts behind it: the tokens in the  *)
(* browser's storage, the user the page shows (AuthContext.tsx), requests  *)
(* that may be answered 401, share one refresh of the tokens and are sent  *)
(* again (client.ts), and the server that checks every request against the *)
(* live row of its user (deps.py, auth_service.py).  Answers arrive in any *)
(* order, and logging in, logging out and reloading happen in between.     *)
(* A user stands for their restaurant too.  The database session of a      *)
(* request is committed only after its response has been sent: the pinned  *)
(* FastAPI leaves a dependency's exit code until then (db/session.py).     *)
(***************************************************************************)
EXTENDS Integers

CONSTANTS
  Users, \* users, each the owner of a restaurant
  Pages  \* requests a page may have on their way at once

NoUser == "no user"
ASSUME UsersAssumption == NoUser \notin Users

\* restoreSession, login or register, and the requests of pages
Slots == {"restore", "login"} \cup Pages
ASSUME SlotsAssumption == {"restore", "login", "none"} \cap Pages = {}

VARIABLES
  account,   \* the rows of `users`
  tokens,    \* the stored pair: whose it is, and whether the access token is still good
  user,      \* the user shown
  loading,   \* isLoading
  request,   \* the requests on their way
  post,      \* the refresh requests on their way, and whose token each carries
  refreshInFlight, \* the one that is shared
  overtaken  \* history: an answer on its way was overtaken by a login or a logout, or a
             \* login failed half-way

vars == <<account, tokens, user, loading, request, post, refreshInFlight, overtaken>>

NoTokens == [user |-> NoUser, fresh |-> FALSE]
NoRequest == [at |-> "none", by |-> NoTokens, target |-> NoUser, retried |-> FALSE,
              post |-> "none"]

Somebody == Users \cup {NoUser}

\* A request as the interceptor sends it: with whatever token is stored.
Sent(target, retried, pair) ==
  [at |-> "sent", by |-> pair, target |-> target, retried |-> retried, post |-> "none"]

OnTheirWay == {s \in Slots : post[s] # NoUser}

-----------------------------------------------------------------------------
(* Loading the page, and being sent away from it.                           *)

\* A page is loaded with the tokens there are: everything on its way is forgotten, and
\* the session is restored if there is one.
Load(pair) ==
  /\ tokens' = pair
  /\ user' = NoUser
  /\ loading' = (pair.user # NoUser)
  /\ request' = [s \in Slots |->
                   IF s = "restore" /\ pair.user # NoUser THEN Sent(NoUser, FALSE, pair)
                   ELSE NoRequest]
  /\ post' = [s \in Slots |-> NoUser]
  /\ refreshInFlight' = "none"
  /\ overtaken' = FALSE

Reload == Load(tokens) /\ UNCHANGED account

\* The refresh failed or there was nothing to refresh with: clearTokens, and the browser
\* goes to /login.
SignedOut == Load(NoTokens)

-----------------------------------------------------------------------------
(* The person at the page.                                                  *)

Form(u, kind) ==
  [at |-> kind, by |-> NoTokens, target |-> u, retried |-> FALSE, post |-> "none"]

\* The login form is there whenever no user is shown.
Submit(u, kind) ==
  /\ user = NoUser /\ request["login"].at = "none"
  /\ request' = [request EXCEPT !["login"] = Form(u, kind)]
  /\ UNCHANGED <<account, tokens, user, loading, post, refreshInFlight, overtaken>>

\* (mutant: the tokens stay behind)
Logout_KeepsTokens ==
  /\ user # NoUser
  /\ user' = NoUser
  /\ overtaken' = (overtaken \/ OnTheirWay # {})
  /\ UNCHANGED <<account, tokens, loading, request, post, refreshInFlight>>

\* What is on its way stays on its way.
Logout ==
  /\ user # NoUser
  /\ tokens' = NoTokens
  /\ user' = NoUser
  /\ overtaken' = (overtaken \/ OnTheirWay # {})
  /\ UNCHANGED <<account, loading, request, post, refreshInFlight>>

\* A page asks for something of the restaurant of the user shown.
Fetch(p) ==
  /\ user # NoUser /\ request[p].at = "none"
  /\ request' = [request EXCEPT ![p] = Sent(user, FALSE, tokens)]
  /\ UNCHANGED <<account, tokens, user, loading, post, refreshInFlight, overtaken>>

-----------------------------------------------------------------------------
(* Logging in and registering.                                              *)

\* The tokens are stored, and the user they belong to is asked for.
TokensReceived(u) ==
  LET pair == [user |-> u, fresh |-> TRUE] IN
    /\ tokens' = pair
    /\ request' = [request EXCEPT !["login"] = Sent(NoUser, FALSE, pair)]
    /\ overtaken' = (overtaken \/ user # NoUser \/ request["restore"].at # "none"
                       \/ OnTheirWay # {})
    /\ UNCHANGED <<user, loading, post, refreshInFlight>>

LoginAnswered(u) ==
  /\ request["login"].at = "login" /\ request["login"].target = u
  /\ IF account[u] = "active" THEN TokensReceived(u)
     ELSE /\ request' = [request EXCEPT !["login"] = NoRequest]
          /\ UNCHANGED <<tokens, user, loading, post, refreshInFlight, overtaken>>
  /\ UNCHANGED account

\* register_restaurant_owner flushes restaurant and owner, and its answer goes out before
\* the commit; an address that is taken is refused.
RegisterAnswered(u) ==
  /\ request["login"].at = "register" /\ request["login"].target = u
  /\ IF account[u] = "none"
     THEN account' = [account EXCEPT ![u] = "uncommitted"] /\ TokensReceived(u)
     ELSE /\ request' = [request EXCEPT !["login"] = NoRequest]
          /\ UNCHANGED <<account, tokens, user, loading, post, refreshInFlight, overtaken>>

\* get_db_session commits the registration, or fails to and leaves neither row.
AccountCommitted(u) ==
  /\ account[u] = "uncommitted"
  /\ account' \in {[account EXCEPT ![u] = s] : s \in {"active", "none"}}
  /\ UNCHANGED <<tokens, user, loading, request, post, refreshInFlight, overtaken>>

-----------------------------------------------------------------------------
(* The server's answers.                                                    *)

\* require_restaurant_access; /auth/me asks for no restaurant.
MayAccess(s) == request[s].target \in {NoUser, request[s].by.user}

\* get_current_user: a token that is still good, and an active user behind it.
Authenticated(s) ==
  /\ request[s].by.user # NoUser /\ request[s].by.fresh
  /\ account[request[s].by.user] = "active"

\* (mutant: the page goes on loading)
Rejected_StillLoading(s) ==
  /\ request' = [request EXCEPT ![s] = NoRequest]
  /\ tokens' = IF s = "restore" THEN NoTokens ELSE tokens
  /\ overtaken' = (overtaken \/ s = "login")
  /\ UNCHANGED <<user, loading, post, refreshInFlight>>

\* An error reaches whoever asked.  restoreSession clears the tokens, whatever the error;
\* a login that cannot find out its user shows the error and keeps them.
Rejected(s) ==
  /\ request' = [request EXCEPT ![s] = NoRequest]
  /\ tokens' = IF s = "restore" THEN NoTokens ELSE tokens
  /\ loading' = (loading /\ s # "restore")
  /\ overtaken' = (overtaken \/ s = "login")
  /\ UNCHANGED <<user, post, refreshInFlight>>

Fulfilled(s) ==
  /\ request' = [request EXCEPT ![s] = NoRequest]
  /\ user' = IF s \in Pages THEN user ELSE request[s].by.user
  /\ loading' = (loading /\ s # "restore")
  /\ UNCHANGED <<tokens, post, refreshInFlight, overtaken>>

Answered(s) ==
  /\ request[s].at = "sent" /\ Authenticated(s)
  /\ IF MayAccess(s) THEN Fulfilled(s) ELSE Rejected(s)
  /\ UNCHANGED account

\* A request that waits for the refresh started by that of slot p.
Waiting(s, p) ==
  [at |-> "waiting", by |-> NoTokens, target |-> request[s].target, retried |-> TRUE,
   post |-> p]

\* The refresh on its way is shared, or one is started.
Refreshed(s) ==
  LET shared == IF refreshInFlight = "none" THEN s ELSE refreshInFlight IN
    /\ post' = IF shared = s THEN [post EXCEPT ![s] = tokens.user] ELSE post
    /\ refreshInFlight' = shared
    /\ request' = [request EXCEPT ![s] = Waiting(s, shared)]

\* 401.  A request that was sent again already is not sent a third time.
Unauthorized(s) ==
  /\ request[s].at = "sent" /\ ~Authenticated(s)
  /\ \/ request[s].retried /\ Rejected(s)
     \/ /\ ~request[s].retried
        /\ refreshInFlight = "none" => tokens.user # NoUser
        /\ Refreshed(s)
        /\ UNCHANGED <<tokens, user, loading, overtaken>>
     \/ /\ ~request[s].retried /\ refreshInFlight = "none" /\ tokens.user = NoUser
        /\ SignedOut
  /\ UNCHANGED account

\* (mutant: requests are sent again as often as they are refused)
Resent_NotMarked(s, pair) == Sent(request[s].target, FALSE, pair)

Resent(s, pair) == Sent(request[s].target, TRUE, pair)

\* (mutant: only the request that started the refresh is sent again)
RefreshAnswered_OneWaiter(s) ==
  /\ post[s] # NoUser /\ account[post[s]] = "active"
  /\ LET pair == [user |-> post[s], fresh |-> TRUE] IN
       /\ tokens' = pair
       /\ request' = [request EXCEPT ![s] = Resent(s, pair)]
  /\ post' = [post EXCEPT ![s] = NoUser]
  /\ refreshInFlight' = "none"
  /\ UNCHANGED <<account, user, loading, overtaken>>

\* /auth/refresh issues a new pair for an active user: it is stored, and whoever waited
\* is sent again with it.
RefreshAnswered(s) ==
  /\ post[s] # NoUser /\ account[post[s]] = "active"
  /\ LET pair == [user |-> post[s], fresh |-> TRUE] IN
       /\ tokens' = pair
       /\ request' = [w \in Slots |->
                        IF request[w].at = "waiting" /\ request[w].post = s
                        THEN Resent(w, pair) ELSE request[w]]
  /\ post' = [post EXCEPT ![s] = NoUser]
  /\ refreshInFlight' = "none"
  /\ UNCHANGED <<account, user, loading, overtaken>>

\* It is refused, or does not come through.
RefreshFails(s) ==
  /\ post[s] # NoUser
  /\ SignedOut
  /\ UNCHANGED account

\* The network, or the server, fails a request.
Fails(s) ==
  /\ request[s].at = "sent"
  /\ Rejected(s)
  /\ UNCHANGED account

LoginFails ==
  /\ request["login"].at \in {"login", "register"}
  /\ request' = [request EXCEPT !["login"] = NoRequest]
  /\ UNCHANGED <<account, tokens, user, loading, post, refreshInFlight, overtaken>>

-----------------------------------------------------------------------------
(* The clock, and the operator of the platform.                             *)

Stale(pair) == [pair EXCEPT !.fresh = FALSE]

Aged(r) == [r EXCEPT !.by = Stale(r.by)]

\* Access tokens issued so far run out.
Expire ==
  /\ tokens.fresh \/ \E s \in Slots : request[s].by.fresh
  /\ tokens' = Stale(tokens)
  /\ request' = [s \in Slots |-> Aged(request[s])]
  /\ UNCHANGED <<account, user, loading, post, refreshInFlight, overtaken>>

Deactivate(u) ==
  /\ account[u] = "active"
  /\ account' = [account EXCEPT ![u] = "inactive"]
  /\ UNCHANGED <<tokens, user, loading, request, post, refreshInFlight, overtaken>>

Init ==
  /\ account \in [Users -> {"none", "active"}]
  /\ \E u \in Somebody, fresh \in BOOLEAN :
       /\ tokens = [user |-> u, fresh |-> fresh /\ u # NoUser]
       /\ loading = (u # NoUser)
       /\ request = [s \in Slots |-> IF s = "restore" /\ u # NoUser
                                     THEN Sent(NoUser, FALSE, tokens) ELSE NoRequest]
  /\ user = NoUser
  /\ post = [s \in Slots |-> NoUser]
  /\ refreshInFlight = "none"
  /\ overtaken = FALSE

Reply(s) ==
  Answered(s) \/ Unauthorized(s) \/ RefreshAnswered(s) \/ RefreshFails(s) \/ Fails(s)

Next ==
  \/ Reload
  \/ Logout
  \/ \E u \in Users, kind \in {"login", "register"} : Submit(u, kind)
  \/ \E p \in Pages : Fetch(p)
  \/ \E u \in Users : LoginAnswered(u) \/ RegisterAnswered(u)
  \/ LoginFails
  \/ \E u \in Users : AccountCommitted(u) \/ Deactivate(u)
  \/ \E s \in Slots : Reply(s)
  \/ Expire

Spec == Init /\ [][Next]_vars

\* A request is answered or fails: the browser does not wait for ever.
FairSpec == Spec /\ \A s \in Slots : WF_vars(Reply(s))

-----------------------------------------------------------------------------
(* Properties.                                                              *)

TokensType == [user : Somebody, fresh : BOOLEAN]

RequestType ==
  [at : {"none", "login", "register", "sent", "waiting"}, by : TokensType, target : Somebody,
   retried : BOOLEAN, post : Slots \cup {"none"}]

\* Every variable keeps its type.
TypeOK ==
  /\ account \in [Users -> {"none", "uncommitted", "active", "inactive"}]
  /\ tokens \in TokensType
  /\ user \in Somebody /\ loading \in BOOLEAN
  /\ request \in [Slots -> RequestType]
  /\ post \in [Slots -> Somebody]
  /\ refreshInFlight \in Slots \cup {"none"}
  /\ overtaken \in BOOLEAN

\* However many requests are refused together, one refresh of the tokens is on its way
\* (client.ts: "exactly one in-flight token refresh, shared by every request").
OneRefresh == \A s, t \in OnTheirWay : s = t

\* Whoever waits for a refresh waits for one that is still to be answered: nobody is left
\* behind when it is, however late they joined (refreshInFlight).
NobodyLeftWaiting ==
  \A s \in Slots : request[s].at = "waiting" => post[request[s].post] # NoUser

\* The tokens are those of the user shown, and there are none when nobody is shown or is
\* being found out -- unless a login or a logout overtook an answer, or a login failed
\* half-way (AuthContext.tsx, tokenStorage.ts).
TokensFollowUser ==
  ~overtaken =>
    /\ user # NoUser => tokens.user = user
    /\ user = NoUser /\ ~loading /\ request["login"].at # "sent"
         /\ request["login"].at # "waiting" => tokens.user = NoUser

\* A request of a page is answered in the end, with a result or an error: it is sent again
\* once at the most, however often tokens run out (_retried).
EveryFetchEnds == \A p \in Pages : request[p].at # "none" ~> request[p].at = "none"

\* The page does not stay blank: restoring the session ends, unless the person reloads the
\* page for ever (restoreSession).
LoadingEnds == <>[][~Reload]_vars => (loading ~> ~loading)
=============================================================================
