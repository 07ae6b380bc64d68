---------------------------- MODULE AuthSession -----------------------------
(***************************************************************************)
(* A signed-in session in the tabs of one browser (shared/api, shared/lib/    *)
(* auth, PrivateRoute) and the refresh tokens of the server (auth).           *)
(*                                                                         *)
(* The tabs share the access token (localStorage) and the refresh token (a    *)
(* cookie).  Every refresh rotates the refresh token: the old one is refused  *)
(* from then on.  Requests that are answered 401 wait for the one refresh     *)
(* their tab runs, then are sent again; a tab knows nothing of another tab's. *)
(***************************************************************************)
EXTENDS Naturals, FiniteSets

CONSTANTS
  Tabs,
  Users, NoUser,
  MaxTokens,     \* bound: refresh tokens the server issues
  MaxRequests,   \* bound: requests under way
  MaxOutages     \* bound: answers that are lost, tabs that are reloaded

ASSUME AuthUsersAssumption == NoUser \notin Users
ASSUME AuthBoundsAssumption ==
  MaxTokens \in Nat \ {0} /\ MaxRequests \in Nat /\ MaxOutages \in Nat

VARIABLES
  holder,     \* refresh_token: whom each token was issued to
  valid,      \* refresh_token: those neither revoked nor expired
  expired,    \* access tokens whose time is over; each has its refresh token's number
  cookie,     \* the refresh token the browser holds
  access,     \* localStorage accessToken
  user,       \* localStorage user
  place,      \* where a tab is: the login form, a protected page, or blank before it
  awaits,     \* tabs whose PrivateRoute waits for the tab's refresh
  refreshes,  \* refreshPromise of a tab that has one
  requests,   \* requests of the pages under way
  signs,      \* logins and logouts under way
  outages,
  causes      \* history: why the session may have ended

authServer == <<holder, valid, expired>>
authBrowser == <<cookie, access, user>>
authNet == <<refreshes, requests, signs>>
authVars == <<authServer, authBrowser, place, awaits, authNet, outages, causes>>

Tokens == 1..MaxTokens
NoToken == 0

Issued == {t \in Tokens : holder[t] # NoUser}
NextToken == Cardinality(Issued) + 1

Outage == outages < MaxOutages /\ outages' = outages + 1

-----------------------------------------------------------------------------
(* shared/lib/auth.                                                          *)

IsAuthenticated == access # NoToken /\ access \notin expired

SaveAuthTokens(token) == access' = token /\ UNCHANGED user

SaveAuthSession(token) == access' = token /\ user' = holder[token]

ClearAuthSession == access' = NoToken /\ user' = NoUser

-----------------------------------------------------------------------------
(* ApiClient.                                                                *)

RefreshesOf(t) == {r \in refreshes : r.tab = t}

Refresh(t, n) == [tab |-> t, sent |-> cookie, served |-> FALSE, token |-> NoToken, n |-> n]

\* Mutant: every request that is refused starts a refresh of its own.
MutRefreshAuthSession(t) ==
  /\ Cardinality(RefreshesOf(t)) < 2
  /\ refreshes' = refreshes \cup {Refresh(t, Cardinality(RefreshesOf(t)))}
  /\ causes' = causes \cup (IF refreshes \subseteq RefreshesOf(t) THEN {} ELSE {"two tabs"})

\* refreshAuthSession: the refresh under way, or a new one.
RefreshAuthSession(t) ==
  IF RefreshesOf(t) # {} THEN UNCHANGED <<refreshes, causes>>
  ELSE /\ refreshes' = refreshes \cup {Refresh(t, 0)}
       /\ causes' = causes \cup (IF refreshes = {} THEN {} ELSE {"two tabs"})

\* AuthService.refresh, under the token's row lock: the old token is revoked.
\* Nothing at this commit makes a user inactive or demands a new password, the
\* other causes of a refusal, nor revokes all tokens of a user.
\* Mutant: the token is not rotated in the database.
MutRotated(old, new) == valid

Rotated(old, new) == (valid \ {old}) \cup {new}

ServeRefresh(r) ==
  /\ r \in refreshes
  /\ ~r.served
  /\ \/ /\ r.sent \in valid
        /\ NextToken \in Tokens
        /\ holder' = [holder EXCEPT ![NextToken] = holder[r.sent]]
        /\ valid' = Rotated(r.sent, NextToken)
        /\ refreshes' = (refreshes \ {r}) \cup {[r EXCEPT !.served = TRUE, !.token = NextToken]}
     \/ /\ r.sent \notin valid
        /\ refreshes' = (refreshes \ {r}) \cup {[r EXCEPT !.served = TRUE]}
        /\ UNCHANGED <<holder, valid>>
  /\ UNCHANGED <<expired, authBrowser, place, awaits, requests, signs, outages, causes>>

WaitingIn(t) == {q \in requests : q.tab = t /\ q.stage = "waiting"}

\* withLatestAuthHeader.
Resent(q, token) == [q EXCEPT !.stage = "resent", !.token = token]

\* The tab's requests and its PrivateRoute go on.
SettleRefresh(r, next) ==
  /\ refreshes' = refreshes \ {r}
  /\ place' = [place EXCEPT ![r.tab] = IF r.tab \in awaits THEN next ELSE @]
  /\ awaits' = awaits \ {r.tab}
  /\ UNCHANGED <<authServer, signs>>

RefreshSucceeds(r) ==
  /\ r \in refreshes
  /\ r.served /\ r.token # NoToken
  /\ cookie' = r.token
  /\ SaveAuthTokens(r.token)
  /\ requests' = (requests \ WaitingIn(r.tab)) \cup {Resent(q, r.token) : q \in WaitingIn(r.tab)}
  /\ SettleRefresh(r, "page")
  /\ UNCHANGED <<outages, causes>>

\* Refused, or no answer: the session is given up either way.  Each waiting request
\* gives it up once more when the body of its own refusal has been read
\* (handleResponse), which is taken into this step.
RefreshFails(r) ==
  /\ r \in refreshes
  /\ \/ r.served /\ r.token = NoToken /\ UNCHANGED <<outages, causes>>
     \/ Outage /\ causes' = causes \cup {"no answer"}
  /\ ClearAuthSession
  /\ requests' = requests \ WaitingIn(r.tab)
  /\ SettleRefresh(r, "login")
  /\ UNCHANGED cookie

\* A request without an access token is refused and changes nothing.
\* Bound: a tab sends when the access token is there.
SendRequest(t) ==
  /\ place[t] = "page"
  /\ access # NoToken
  /\ Cardinality(requests) < MaxRequests
  /\ requests' = requests \cup {[tab |-> t, token |-> access, stage |-> "sent", n |-> Cardinality(requests)]}
  /\ UNCHANGED <<authServer, authBrowser, place, awaits, refreshes, signs, outages, causes>>

\* The access token is checked by its time alone; a failed request ends there.
Answered(q) ==
  /\ q \in requests
  /\ q.stage # "waiting"
  /\ q.token \notin expired
  /\ requests' = requests \ {q}
  /\ UNCHANGED <<authServer, authBrowser, place, awaits, refreshes, signs, outages, causes>>

\* fetchWithSessionRefresh.
Unauthorized(q) ==
  /\ q \in requests
  /\ q.stage = "sent"
  /\ q.token \in expired
  /\ requests' = (requests \ {q}) \cup {[q EXCEPT !.stage = "waiting"]}
  /\ RefreshAuthSession(q.tab)
  /\ UNCHANGED <<authServer, authBrowser, place, awaits, signs, outages>>

\* handleResponse: the second 401 ends the session.
UnauthorizedAgain(q) ==
  /\ q \in requests
  /\ q.stage = "resent"
  /\ q.token \in expired
  /\ requests' = requests \ {q}
  /\ ClearAuthSession
  /\ UNCHANGED <<authServer, cookie, place, awaits, refreshes, signs, outages, causes>>

-----------------------------------------------------------------------------
(* PrivateRoute.                                                             *)

\* Mutant: the effect leaves a refresh that is under way to the effect before it.
MutCheck(t, shown) ==
  /\ place' = [place EXCEPT ![t] = shown]
  /\ IF IsAuthenticated \/ RefreshesOf(t) # {}
     THEN awaits' = awaits \ {t} /\ UNCHANGED <<refreshes, causes>>
     ELSE awaits' = awaits \cup {t} /\ RefreshAuthSession(t)

\* The effect; the one before no longer waits.
Check(t, shown) ==
  /\ place' = [place EXCEPT ![t] = shown]
  /\ IF IsAuthenticated
     THEN awaits' = awaits \ {t} /\ UNCHANGED <<refreshes, causes>>
     ELSE awaits' = awaits \cup {t} /\ RefreshAuthSession(t)

\* The page is blank until the answer unless there is a session.
EnterProtected(t) ==
  /\ place[t] = "login"
  /\ Check(t, IF IsAuthenticated THEN "page" ELSE "blank")
  /\ UNCHANGED <<authServer, authBrowser, requests, signs, outages>>

\* A blank page whose session another tab has renewed meanwhile stays blank.
ChangePath(t) ==
  /\ place[t] # "login"
  /\ ~(place[t] = "blank" /\ IsAuthenticated)
  /\ Check(t, place[t])
  /\ UNCHANGED <<authServer, authBrowser, requests, signs, outages>>

ChangeBlankPath(t) ==
  /\ place[t] = "blank"
  /\ IsAuthenticated
  /\ awaits' = awaits \ {t}
  /\ causes' = causes \cup {"left blank"}
  /\ UNCHANGED <<authServer, authBrowser, place, authNet, outages>>

\* Whether the cookie of an answer under way is stored is not known.
ReloadTab(t) ==
  /\ place[t] # "login"
  /\ Outage
  /\ cookie' \in {cookie} \cup {r.token : r \in {r \in RefreshesOf(t) : r.token # NoToken}}
  /\ refreshes' = refreshes \ RefreshesOf(t)
  /\ requests' = {q \in requests : q.tab # t}
  /\ signs' = {s \in signs : s.tab # t}
  /\ place' = [place EXCEPT ![t] = "login"]
  /\ awaits' = awaits \ {t}
  /\ causes' = causes \cup (IF RefreshesOf(t) = {} THEN {} ELSE {"no answer"})
  /\ UNCHANGED <<authServer, access, user>>

-----------------------------------------------------------------------------
(* LoginForm and useLogout.                                                  *)

Sign(t, kind) == [tab |-> t, kind |-> kind, sent |-> cookie, served |-> FALSE, token |-> NoToken]

HandleSubmit(t) ==
  /\ place[t] = "login"
  /\ \A s \in signs : s.tab # t
  /\ ~IsAuthenticated
  /\ signs' = signs \cup {Sign(t, "login")}
  /\ UNCHANGED <<authServer, authBrowser, place, awaits, refreshes, requests, outages, causes>>

ServeLogin(s) ==
  /\ s \in signs
  /\ s.kind = "login" /\ ~s.served
  /\ NextToken \in Tokens
  /\ \E u \in Users : holder' = [holder EXCEPT ![NextToken] = u]
  /\ valid' = valid \cup {NextToken}
  /\ signs' = (signs \ {s}) \cup {[s EXCEPT !.served = TRUE, !.token = NextToken]}
  /\ UNCHANGED <<expired, authBrowser, place, awaits, refreshes, requests, outages, causes>>

\* A session begins; what was under way before may still end it.
LoginArrives(s) ==
  LET before == refreshes # {} \/ signs # {s} \/ \E q \in requests : q.stage = "resent"
  IN  /\ s \in signs
      /\ s.kind = "login" /\ s.served
      /\ signs' = signs \ {s}
      /\ cookie' = s.token
      /\ SaveAuthSession(s.token)
      /\ causes' = (causes \cap {"left blank"}) \cup (IF before THEN {"overtaken"} ELSE {})
      /\ UNCHANGED <<authServer, place, awaits, refreshes, requests, outages>>

Logout(t) ==
  /\ place[t] = "page"
  /\ \A s \in signs : s.tab # t
  /\ signs' = signs \cup {Sign(t, "logout")}
  /\ causes' = causes \cup {"signed out"}
  /\ UNCHANGED <<authServer, authBrowser, place, awaits, refreshes, requests, outages>>

ServeLogout(s) ==
  /\ s \in signs
  /\ s.kind = "logout" /\ ~s.served
  /\ valid' = valid \ {s.sent}
  /\ signs' = (signs \ {s}) \cup {[s EXCEPT !.served = TRUE]}
  /\ UNCHANGED <<holder, expired, authBrowser, place, awaits, refreshes, requests, outages, causes>>

\* The cookie goes with the answer, the rest also without.
LogoutArrives(s) ==
  /\ s \in signs
  /\ s.kind = "logout"
  /\ \/ s.served /\ cookie' = NoToken /\ UNCHANGED outages
     \/ Outage /\ UNCHANGED cookie
  /\ signs' = signs \ {s}
  /\ ClearAuthSession
  /\ place' = [place EXCEPT ![s.tab] = "login"]
  /\ awaits' = awaits \ {s.tab}
  /\ UNCHANGED <<authServer, refreshes, requests, causes>>

-----------------------------------------------------------------------------
\* An access token lives much longer than a request is under way.
AccessExpires ==
  /\ \E t \in Issued \ expired :
       /\ \A q \in requests : ~(q.stage = "resent" /\ q.token = t)
       /\ \A r \in refreshes : r.token # t
       /\ \A s \in signs : s.token # t
       /\ expired' = expired \cup {t}
  /\ UNCHANGED <<holder, valid, authBrowser, place, awaits, authNet, outages, causes>>

RefreshExpires ==
  /\ cookie \in valid
  /\ Outage
  /\ valid' = valid \ {cookie}
  /\ expired' = expired \cup {cookie}
  /\ causes' = causes \cup {"expired"}
  /\ UNCHANGED <<holder, authBrowser, place, awaits, authNet>>

AuthInit ==
  /\ holder = [t \in Tokens |-> NoUser]
  /\ valid = {}
  /\ expired = {}
  /\ cookie = NoToken
  /\ access = NoToken
  /\ user = NoUser
  /\ place = [t \in Tabs |-> "login"]
  /\ awaits = {}
  /\ refreshes = {}
  /\ requests = {}
  /\ signs = {}
  /\ outages = 0
  /\ causes = {"not signed in"}

AuthNext ==
  \/ \E r \in refreshes : ServeRefresh(r) \/ RefreshSucceeds(r) \/ RefreshFails(r)
  \/ \E q \in requests : Answered(q) \/ Unauthorized(q) \/ UnauthorizedAgain(q)
  \/ \E t \in Tabs :
       \/ SendRequest(t) \/ EnterProtected(t) \/ ChangePath(t) \/ ChangeBlankPath(t)
       \/ ReloadTab(t) \/ HandleSubmit(t) \/ Logout(t)
  \/ \E s \in signs : ServeLogin(s) \/ LoginArrives(s) \/ ServeLogout(s) \/ LogoutArrives(s)
  \/ AccessExpires
  \/ RefreshExpires

AuthSpec == AuthInit /\ [][AuthNext]_authVars

-----------------------------------------------------------------------------
(* Properties.                                                              *)

AuthTypeOK ==
  /\ holder \in [Tokens -> Users \cup {NoUser}]
  /\ valid \subseteq Issued
  /\ expired \subseteq Issued
  /\ cookie \in Issued \cup {NoToken}
  /\ access \in Issued \cup {NoToken}
  /\ user \in Users \cup {NoUser}
  /\ place \in [Tabs -> {"login", "blank", "page"}]
  /\ awaits \subseteq Tabs
  /\ \A r \in refreshes : r.tab \in Tabs /\ r.sent \in Issued \cup {NoToken} /\ r.token \in Issued \cup {NoToken}
  /\ \A q \in requests : q.tab \in Tabs /\ q.token \in Issued
  /\ \A s \in signs : s.tab \in Tabs /\ s.token \in Issued \cup {NoToken}
  /\ outages \in 0..MaxOutages

\* However many requests are refused at once, and whenever, a session lasts:
\* the browser keeps its user with a token of that user's, and the cookie's
\* token is the one the server accepts or is being replaced.  It ends for a cause: the
\* user signed out, the refresh token's time was over, the answer of a refresh
\* was lost, two tabs refreshed at once, or something from before it came in.
SessionLasts ==
  causes \subseteq {"left blank"} =>
    /\ access # NoToken /\ user = holder[access]
    /\ cookie \in valid \/ \E r \in refreshes : r.token \in valid

\* A protected page that is blank waits for a refresh of its tab, which will
\* show it or the login form: unless its path changed after another tab had
\* renewed the session.
BlankAwaitsRefresh ==
  "left blank" \notin causes =>
    \A t \in Tabs : place[t] = "blank" => t \in awaits /\ RefreshesOf(t) # {}

=============================================================================
