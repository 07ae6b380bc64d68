------------------------ MODULE SmallParts_proof -----------------------------
(***************************************************************************)
(* Proofs about the parts whose state is small, for any values of their      *)
(* constants: the signed-in browser (AuthSession), what keeps the assistant's*)
(* answers in order, which is the guard that lets one answer at a time into a *)
(* session (GenerationGate) and the row and the messages it is written to    *)
(* (ChatRuntime), and what keeps a domain pack up to date, which is the review*)
(* of simulation feedback (SimulationReview) and the builds of the matching  *)
(* profiles (ProfileBuildQueue).                                             *)
(***************************************************************************)
EXTENDS AuthSession, GenerationGate, ChatRuntime, SimulationReview, ProfileBuildQueue,
        FiniteSetTheorems, SequenceTheorems, TLAPS

-----------------------------------------------------------------------------
(***************************************************************************)
(* Proofs about AuthSession.                                                 *)
(*                                                                           *)
(* Two inductive invariants carry the session.  A token in an answer under way*)
(* is known to nobody else (FreshTokens), so no answer can use up the token of*)
(* another.  While nothing has ended the session, at most one refresh is under*)
(* way and it carries the cookie's token or its answer (GoodSession).        *)
(***************************************************************************)

(* Types *)

\* The fields of what is under way.
RefreshRecord == [tab : Tabs, sent : Nat, served : BOOLEAN, token : Nat, n : {0}]

\* n tells apart two requests of one tab with the same token.
RequestRecord(v) == [tab : Tabs, token : Nat, stage : {"sent", "waiting", "resent"}, n : {v}]

SignRecord == [tab : Tabs, kind : {"login", "logout"}, sent : Nat, served : BOOLEAN, token : Nat]

\* A refresh, and a request whatever its number.
RefreshForm(r) == r \in RefreshRecord

RequestForm(q) == \E v : q \in RequestRecord(v)

\* The server's answer to a login holds a token.
SignForm(s) ==
  /\ s \in SignRecord
  /\ s.kind = "login" /\ s.served => s.token # NoToken

\* The server numbers its tokens one after the other.
Numbered == \E k \in 0..MaxTokens : Issued = 1..k

\* The type, with the form of everything under way.
AuthTyped ==
  /\ AuthTypeOK
  /\ Numbered
  /\ \A r \in refreshes : RefreshForm(r)
  /\ \A q \in requests : RequestForm(q)
  /\ \A s \in signs : SignForm(s) /\ s.sent \in Issued \cup {NoToken}

\* Tokens are numbers, and no token is none of them.
LEMMA TokensAreNumbers == Issued \subseteq Nat \ {0} /\ Issued \cup {NoToken} \subseteq Nat
BY AuthBoundsAssumption DEF Issued, Tokens, NoToken

\* The next token is one nobody has.
LEMMA NextTokenIsNew ==
  ASSUME AuthTyped
  PROVE  NextToken \in Nat \ {0} /\ NextToken \notin Issued
<1>1. PICK k \in 0..MaxTokens : Issued = 1..k
  BY DEF AuthTyped, Numbered
<1>2. k \in Nat
  BY <1>1, AuthBoundsAssumption
<1>3. Cardinality(1..k) = k
  BY <1>2, FS_Interval
<1> QED
  BY <1>1, <1>2, <1>3 DEF NextToken

\* Issuing it adds it to those issued and leaves their holders alone.
LEMMA IssueToken ==
  ASSUME AuthTyped, NextToken \in Tokens,
         NEW u \in Users, holder' = [holder EXCEPT ![NextToken] = u]
  PROVE  /\ holder' \in [Tokens -> Users \cup {NoUser}]
         /\ holder'[NextToken] = u
         /\ Issued' = Issued \cup {NextToken}
         /\ \A t \in Issued : holder'[t] = holder[t]
         /\ Numbered'
<1>1. holder \in [Tokens -> Users \cup {NoUser}]
  BY DEF AuthTyped, AuthTypeOK
<1>2. NextToken \notin Issued
  BY NextTokenIsNew
<1>3. \A t \in Tokens : holder'[t] = IF t = NextToken THEN u ELSE holder[t]
  BY <1>1
<1>4. Issued' = Issued \cup {NextToken}
  BY <1>3, AuthUsersAssumption DEF Issued
<1>5. Numbered'
  <2>1. PICK k \in 0..MaxTokens : Issued = 1..k
    BY DEF AuthTyped, Numbered
  <2>2. k \in Nat /\ Cardinality(1..k) = k
    BY <2>1, AuthBoundsAssumption, FS_Interval
  <2>3. NextToken = k + 1
    BY <2>1, <2>2 DEF NextToken
  <2>4. Issued' = 1..(k + 1) /\ k + 1 \in 0..MaxTokens
    BY <1>4, <2>1, <2>2, <2>3, AuthBoundsAssumption DEF Tokens
  <2> QED
    BY <2>4 DEF Numbered
<1> QED
  BY <1>1, <1>2, <1>3, <1>4, <1>5 DEF Issued

\* Nothing is issued and nothing is under way.
LEMMA AuthInitType == AuthInit => AuthTyped
<1> SUFFICES ASSUME AuthInit PROVE AuthTyped
  OBVIOUS
<1>1. Issued = {}
  BY DEF AuthInit, Issued
<1>2. Numbered
  <2>1. 0 \in 0..MaxTokens /\ 1..0 = {}
    BY AuthBoundsAssumption
  <2> QED
    BY <1>1, <2>1 DEF Numbered
<1>3. 0 \in 0..MaxOutages
  BY AuthBoundsAssumption
<1> QED
  BY <1>1, <1>2, <1>3 DEF AuthInit, AuthTyped, AuthTypeOK

\* What is changed of a refresh, a request or a sign, and what is kept.
LEMMA RefreshChanged ==
  ASSUME NEW r, RefreshForm(r), NEW token \in Nat
  PROVE  /\ LET x == [r EXCEPT !.served = TRUE]
            IN  /\ RefreshForm(x) /\ x.tab = r.tab /\ x.sent = r.sent
                /\ x.served /\ x.token = r.token
         /\ LET x == [r EXCEPT !.served = TRUE, !.token = token]
            IN  /\ RefreshForm(x) /\ x.tab = r.tab /\ x.sent = r.sent
                /\ x.served /\ x.token = token
BY DEF RefreshForm, RefreshRecord

\* A request that waits keeps its tab and token.
LEMMA RequestChanged ==
  ASSUME NEW q, RequestForm(q)
  PROVE  LET x == [q EXCEPT !.stage = "waiting"]
         IN  RequestForm(x) /\ x.tab = q.tab /\ x.stage = "waiting" /\ x.token = q.token
<1>1. PICK v : q \in RequestRecord(v)
  BY DEF RequestForm
<1>2. LET x == [q EXCEPT !.stage = "waiting"]
      IN  x \in RequestRecord(v) /\ x.tab = q.tab /\ x.stage = "waiting" /\ x.token = q.token
  BY <1>1 DEF RequestRecord
<1> QED
  BY <1>2 DEF RequestForm

\* A request sent again carries the new token.
LEMMA RequestResent ==
  ASSUME NEW q, RequestForm(q), NEW token \in Nat
  PROVE  /\ RequestForm(Resent(q, token)) /\ Resent(q, token).tab = q.tab
         /\ Resent(q, token).stage = "resent" /\ Resent(q, token).token = token
<1>1. PICK v : q \in RequestRecord(v)
  BY DEF RequestForm
<1>2. LET x == Resent(q, token)
      IN  x \in RequestRecord(v) /\ x.tab = q.tab /\ x.stage = "resent" /\ x.token = token
  BY <1>1 DEF RequestRecord, Resent
<1> QED
  BY <1>2 DEF RequestForm

\* The answer to a login or a logout.
LEMMA SignChanged ==
  ASSUME NEW s, SignForm(s), NEW token \in Nat \ {0}
  PROVE  /\ s.kind = "logout" =>
              LET x == [s EXCEPT !.served = TRUE]
              IN  /\ SignForm(x) /\ x.tab = s.tab /\ x.kind = s.kind /\ x.sent = s.sent
                  /\ x.served /\ x.token = s.token
         /\ LET x == [s EXCEPT !.served = TRUE, !.token = token]
            IN  /\ SignForm(x) /\ x.tab = s.tab /\ x.kind = s.kind /\ x.sent = s.sent
                /\ x.served /\ x.token = token
BY DEF SignForm, SignRecord, NoToken

\* What is begun.
LEMMA FormBegins ==
  ASSUME AuthTyped, NEW t \in Tabs
  PROVE  /\ LET x == Refresh(t, 0)
            IN  RefreshForm(x) /\ x.tab = t /\ x.sent = cookie /\ ~x.served /\ x.token = NoToken
         /\ \A k \in {"login", "logout"} :
              LET x == Sign(t, k)
              IN  /\ SignForm(x) /\ x.tab = t /\ x.kind = k /\ x.sent = cookie /\ ~x.served
                  /\ x.token = NoToken
<1>1. cookie \in Nat
  BY TokensAreNumbers DEF AuthTyped, AuthTypeOK
<1> QED
  BY <1>1 DEF Refresh, Sign, RefreshForm, RefreshRecord, SignForm, SignRecord, NoToken

\* A refresh begun is well formed.
LEMMA RefreshBegins ==
  ASSUME AuthTyped, NEW t \in Tabs, RefreshAuthSession(t)
  PROVE  /\ \A r \in refreshes' : RefreshForm(r)
         /\ \A r \in refreshes' : /\ r.tab \in Tabs
                                  /\ r.sent \in Issued \cup {NoToken}
                                  /\ r.token \in Issued \cup {NoToken}
<1>1. refreshes' \subseteq refreshes \cup {Refresh(t, 0)}
  BY DEF RefreshAuthSession
<1>2. /\ RefreshForm(Refresh(t, 0)) /\ Refresh(t, 0).tab = t
      /\ Refresh(t, 0).sent = cookie /\ Refresh(t, 0).token = NoToken
  BY FormBegins
<1> QED
  BY <1>1, <1>2 DEF AuthTyped, AuthTypeOK

\* The steps keep the form of everything under way.
LEMMA AuthStepType ==
  ASSUME AuthTyped, [AuthNext]_authVars
  PROVE  AuthTyped'
<1>0. /\ holder \in [Tokens -> Users \cup {NoUser}]
      /\ place \in [Tabs -> {"login", "blank", "page"}]
      /\ outages \in 0..MaxOutages
  BY DEF AuthTyped, AuthTypeOK
<1>o. Outage => outages' \in 0..MaxOutages
  BY <1>0, AuthBoundsAssumption DEF Outage
<1>i. UNCHANGED holder => Issued' = Issued /\ Numbered'
  BY DEF AuthTyped, Numbered, Issued
<1>1. ASSUME NEW r \in refreshes, ServeRefresh(r) PROVE AuthTyped'
  <2> DEFINE new(tok) == [r EXCEPT !.served = TRUE, !.token = tok]
  <2>1. RefreshForm(r) /\ r.tab \in Tabs /\ r.sent \in Issued \cup {NoToken}
    BY DEF AuthTyped, AuthTypeOK
  <2>2. CASE r.sent \in valid
    <3>1. r.sent \in Issued /\ holder[r.sent] \in Users
      BY <1>0, <2>2 DEF AuthTyped, AuthTypeOK, Issued
    <3>2. /\ NextToken \in Tokens
          /\ holder' = [holder EXCEPT ![NextToken] = holder[r.sent]]
          /\ valid' = Rotated(r.sent, NextToken)
          /\ refreshes' = (refreshes \ {r}) \cup {new(NextToken)}
          /\ UNCHANGED <<expired, authBrowser, place, awaits, requests, signs, outages, causes>>
      BY <1>1, <2>2 DEF ServeRefresh
    <3>3. /\ holder' \in [Tokens -> Users \cup {NoUser}]
          /\ Issued' = Issued \cup {NextToken} /\ Numbered'
      BY <3>1, <3>2, IssueToken
    <3>4. LET x == new(NextToken)
          IN  RefreshForm(x) /\ x.tab = r.tab /\ x.sent = r.sent /\ x.token = NextToken
      BY <2>1, NextTokenIsNew, RefreshChanged
    <3>5. \A x \in refreshes' : /\ RefreshForm(x) /\ x.tab \in Tabs
                                /\ x.sent \in Issued' \cup {NoToken}
                                /\ x.token \in Issued' \cup {NoToken}
      <4>1. ASSUME NEW x \in refreshes
            PROVE  /\ RefreshForm(x) /\ x.tab \in Tabs
                   /\ x.sent \in Issued' \cup {NoToken}
                   /\ x.token \in Issued' \cup {NoToken}
        BY <3>3 DEF AuthTyped, AuthTypeOK
      <4> QED
        BY <2>1, <3>2, <3>3, <3>4, <4>1
    <3> QED
      BY <3>2, <3>3, <3>5 DEF AuthTyped, AuthTypeOK, Rotated, authBrowser
  <2>3. CASE r.sent \notin valid
    <3>1. /\ refreshes' = (refreshes \ {r}) \cup {[r EXCEPT !.served = TRUE]}
          /\ UNCHANGED <<holder, valid, expired, authBrowser, place, awaits, requests, signs, outages>>
      BY <1>1, <2>3 DEF ServeRefresh
    <3>2. LET x == [r EXCEPT !.served = TRUE]
          IN  RefreshForm(x) /\ x.tab = r.tab /\ x.sent = r.sent /\ x.token = r.token
      BY <2>1, RefreshChanged
    <3> QED
      BY <1>i, <3>1, <3>2 DEF AuthTyped, AuthTypeOK, authBrowser
  <2> QED
    BY <2>2, <2>3
<1>2. ASSUME NEW r \in refreshes, RefreshSucceeds(r) PROVE AuthTyped'
  <2>1. r.tab \in Tabs /\ r.token \in Issued
    BY <1>2 DEF AuthTyped, AuthTypeOK, RefreshSucceeds
  <2>2. \A q \in requests' : RequestForm(q) /\ q.tab \in Tabs /\ q.token \in Issued
    <3>0. r.token \in Nat
      BY <2>1, TokensAreNumbers
    <3>1. ASSUME NEW q \in requests
          PROVE  /\ RequestForm(Resent(q, r.token))
                 /\ Resent(q, r.token).tab = q.tab /\ Resent(q, r.token).token = r.token
      <4>1. RequestForm(q)
        BY DEF AuthTyped
      <4> QED
        BY <3>0, <4>1, RequestResent
    <3>2. ASSUME NEW x \in requests', x \notin requests
          PROVE  \E q \in requests : x = Resent(q, r.token)
      BY <1>2, <3>2 DEF RefreshSucceeds, WaitingIn
    <3> QED
      BY <2>1, <3>1, <3>2 DEF AuthTyped, AuthTypeOK
  <2>3. place' \in [Tabs -> {"login", "blank", "page"}]
    BY <1>0, <1>2 DEF RefreshSucceeds, SettleRefresh
  <2>4. /\ UNCHANGED <<authServer, signs, outages, user>>
        /\ cookie' = r.token /\ access' = r.token
        /\ refreshes' \subseteq refreshes /\ awaits' \subseteq awaits
    BY <1>2 DEF RefreshSucceeds, SettleRefresh, SaveAuthTokens
  <2> QED
    BY <1>i, <2>1, <2>2, <2>3, <2>4 DEF AuthTyped, AuthTypeOK, authServer
<1>3. ASSUME NEW r \in refreshes, RefreshFails(r) PROVE AuthTyped'
  <2>1. place' \in [Tabs -> {"login", "blank", "page"}]
    BY <1>0, <1>3 DEF RefreshFails, SettleRefresh
  <2>2. /\ UNCHANGED <<authServer, signs, cookie>>
        /\ access' = NoToken /\ user' = NoUser
        /\ refreshes' \subseteq refreshes /\ awaits' \subseteq awaits /\ requests' \subseteq requests
    BY <1>3 DEF RefreshFails, SettleRefresh, ClearAuthSession
  <2>3. outages' \in 0..MaxOutages
    BY <1>0, <1>o, <1>3 DEF RefreshFails
  <2> QED
    BY <1>i, <2>1, <2>2, <2>3 DEF AuthTyped, AuthTypeOK, authServer
<1>4. ASSUME NEW t \in Tabs, SendRequest(t) PROVE AuthTyped'
  <2> DEFINE q == [tab |-> t, token |-> access, stage |-> "sent", n |-> Cardinality(requests)]
  <2>1. access \in Issued /\ access \in Nat
    BY <1>4, TokensAreNumbers DEF SendRequest, AuthTyped, AuthTypeOK
  <2>2. q \in RequestRecord(Cardinality(requests)) /\ q.tab = t /\ q.token = access
    BY <2>1 DEF RequestRecord
  <2>3. requests' = requests \cup {q}
    BY <1>4 DEF SendRequest
  <2>4. RequestForm(q)
    BY <2>2 DEF RequestForm
  <2> HIDE DEF q
  <2> QED
    BY <1>i, <1>4, <2>1, <2>2, <2>3, <2>4
       DEF SendRequest, AuthTyped, AuthTypeOK, authServer, authBrowser
<1>5. ASSUME NEW q \in requests, Answered(q) PROVE AuthTyped'
  BY <1>i, <1>5 DEF Answered, AuthTyped, AuthTypeOK, authServer, authBrowser
<1>6. ASSUME NEW q \in requests, Unauthorized(q) PROVE AuthTyped'
  <2>1. RequestForm(q) /\ q.tab \in Tabs /\ q.token \in Issued
    BY DEF AuthTyped, AuthTypeOK
  <2>2. LET x == [q EXCEPT !.stage = "waiting"]
        IN  RequestForm(x) /\ x.tab = q.tab /\ x.token = q.token
    BY <2>1, RequestChanged
  <2>3. RefreshAuthSession(q.tab)
    BY <1>6 DEF Unauthorized
  <2> QED
    BY <1>i, <1>6, <2>1, <2>2, <2>3, RefreshBegins
       DEF Unauthorized, AuthTyped, AuthTypeOK, authServer, authBrowser
<1>7. ASSUME NEW q \in requests, UnauthorizedAgain(q) PROVE AuthTyped'
  BY <1>i, <1>7 DEF UnauthorizedAgain, ClearAuthSession, AuthTyped, AuthTypeOK, authServer
<1>8. ASSUME NEW t \in Tabs, EnterProtected(t) \/ ChangePath(t) PROVE AuthTyped'
  <2>1. UNCHANGED <<authServer, authBrowser, requests, signs, outages>>
    BY <1>8 DEF EnterProtected, ChangePath
  <2>2. /\ place' \in [Tabs -> {"login", "blank", "page"}]
        /\ awaits' \subseteq awaits \cup {t}
        /\ UNCHANGED refreshes \/ RefreshAuthSession(t)
    BY <1>0, <1>8 DEF EnterProtected, ChangePath, Check
  <2> QED
    BY <1>i, <2>1, <2>2, RefreshBegins DEF AuthTyped, AuthTypeOK, authServer, authBrowser
<1>9. ASSUME NEW t \in Tabs, ChangeBlankPath(t) PROVE AuthTyped'
  BY <1>i, <1>9 DEF ChangeBlankPath, AuthTyped, AuthTypeOK, authServer, authBrowser, authNet
<1>10. ASSUME NEW t \in Tabs, ReloadTab(t) PROVE AuthTyped'
  <2>1. /\ UNCHANGED <<authServer, access, user>>
        /\ refreshes' \subseteq refreshes /\ requests' \subseteq requests
        /\ signs' \subseteq signs /\ awaits' \subseteq awaits
    BY <1>10 DEF ReloadTab
  <2>2. place' \in [Tabs -> {"login", "blank", "page"}]
    BY <1>0, <1>10 DEF ReloadTab
  <2>3. cookie' \in Issued \cup {NoToken}
    BY <1>10 DEF ReloadTab, RefreshesOf, AuthTyped, AuthTypeOK
  <2>4. outages' \in 0..MaxOutages
    BY <1>o, <1>10 DEF ReloadTab
  <2> QED
    BY <1>i, <2>1, <2>2, <2>3, <2>4 DEF AuthTyped, AuthTypeOK, authServer
<1>11. ASSUME NEW t \in Tabs, HandleSubmit(t) \/ Logout(t) PROVE AuthTyped'
  <2>1. /\ UNCHANGED <<authServer, authBrowser, place, awaits, refreshes, requests, outages>>
        /\ signs' = signs \cup {Sign(t, "login")} \/ signs' = signs \cup {Sign(t, "logout")}
    BY <1>11 DEF HandleSubmit, Logout
  <2>2. ASSUME NEW kind \in {"login", "logout"}
        PROVE  /\ SignForm(Sign(t, kind)) /\ Sign(t, kind).tab = t
               /\ Sign(t, kind).sent = cookie /\ Sign(t, kind).token = NoToken
    BY FormBegins
  <2> QED
    BY <1>i, <2>1, <2>2 DEF AuthTyped, AuthTypeOK, authServer, authBrowser
<1>12. ASSUME NEW s \in signs, ServeLogin(s) PROVE AuthTyped'
  <2>1. SignForm(s) /\ s.tab \in Tabs /\ s.sent \in Issued \cup {NoToken}
    BY DEF AuthTyped, AuthTypeOK
  <2>2. PICK u \in Users : holder' = [holder EXCEPT ![NextToken] = u]
    BY <1>12 DEF ServeLogin
  <2>3. /\ holder' \in [Tokens -> Users \cup {NoUser}]
        /\ Issued' = Issued \cup {NextToken} /\ Numbered'
    BY <1>12, <2>2, IssueToken DEF ServeLogin
  <2>4. LET x == [s EXCEPT !.served = TRUE, !.token = NextToken]
        IN  SignForm(x) /\ x.tab = s.tab /\ x.sent = s.sent /\ x.token = NextToken
    BY <2>1, NextTokenIsNew, SignChanged
  <2>5. \A x \in signs' : /\ SignForm(x) /\ x.tab \in Tabs
                          /\ x.sent \in Issued' \cup {NoToken}
                          /\ x.token \in Issued' \cup {NoToken}
    <3>1. ASSUME NEW x \in signs
          PROVE  /\ SignForm(x) /\ x.tab \in Tabs
                 /\ x.sent \in Issued' \cup {NoToken}
                 /\ x.token \in Issued' \cup {NoToken}
      BY <2>3 DEF AuthTyped, AuthTypeOK
    <3> QED
      BY <1>12, <2>1, <2>3, <2>4, <3>1 DEF ServeLogin
  <2> QED
    BY <1>12, <2>3, <2>5 DEF ServeLogin, AuthTyped, AuthTypeOK, authBrowser
<1>13. ASSUME NEW s \in signs, LoginArrives(s) PROVE AuthTyped'
  <2>1. /\ UNCHANGED <<authServer, place, awaits, refreshes, requests, outages>>
        /\ signs' \subseteq signs /\ cookie' = s.token /\ access' = s.token /\ user' = holder[s.token]
        /\ s.served /\ s.kind = "login"
    BY <1>13 DEF LoginArrives, SaveAuthSession
  <2>2. s.token \in Issued
    BY <2>1 DEF AuthTyped, AuthTypeOK, SignForm
  <2>3. holder[s.token] \in Users \cup {NoUser}
    BY <1>0, <2>2 DEF Issued
  <2> QED
    BY <1>i, <2>1, <2>2, <2>3 DEF AuthTyped, AuthTypeOK, authServer
<1>14. ASSUME NEW s \in signs, ServeLogout(s) PROVE AuthTyped'
  <2>1. SignForm(s) /\ s.tab \in Tabs
    BY DEF AuthTyped, AuthTypeOK
  <2>2. LET x == [s EXCEPT !.served = TRUE]
        IN  SignForm(x) /\ x.tab = s.tab /\ x.sent = s.sent /\ x.token = s.token
    <3>1. s.kind = "logout" /\ 1 \in Nat \ {0}
      BY <1>14 DEF ServeLogout
    <3> QED
      BY <2>1, <3>1, SignChanged
  <2> QED
    BY <1>i, <1>14, <2>1, <2>2 DEF ServeLogout, AuthTyped, AuthTypeOK, authBrowser
<1>15. ASSUME NEW s \in signs, LogoutArrives(s) PROVE AuthTyped'
  <2>1. /\ UNCHANGED <<authServer, refreshes, requests>>
        /\ access' = NoToken /\ user' = NoUser /\ signs' \subseteq signs /\ awaits' \subseteq awaits
        /\ cookie' \in {cookie, NoToken}
    BY <1>15 DEF LogoutArrives, ClearAuthSession
  <2>2. place' \in [Tabs -> {"login", "blank", "page"}]
    BY <1>0, <1>15 DEF LogoutArrives
  <2>3. outages' \in 0..MaxOutages
    BY <1>0, <1>o, <1>15 DEF LogoutArrives
  <2> QED
    BY <1>i, <2>1, <2>2, <2>3 DEF AuthTyped, AuthTypeOK, authServer
<1>16. CASE AccessExpires
  BY <1>i, <1>16 DEF AccessExpires, AuthTyped, AuthTypeOK, authBrowser, authNet
<1>17. CASE RefreshExpires
  BY <1>i, <1>o, <1>17 DEF RefreshExpires, AuthTyped, AuthTypeOK, authBrowser, authNet
<1>18. CASE UNCHANGED authVars
  BY <1>i, <1>18 DEF authVars, authServer, authBrowser, authNet, AuthTyped, AuthTypeOK
<1> QED
  BY <1>1, <1>2, <1>3, <1>4, <1>5, <1>6, <1>7, <1>8, <1>9, <1>10, <1>11, <1>12, <1>13,
     <1>14, <1>15, <1>16, <1>17, <1>18 DEF AuthNext

\* Every variable of the browser and of the server has its type.
THEOREM AuthTypeCorrect == AuthSpec => []AuthTypeOK
<1>1. AuthTyped => AuthTypeOK
  BY DEF AuthTyped
<1> QED
  BY <1>1, AuthInitType, AuthStepType, PTL DEF AuthSpec

-----------------------------------------------------------------------------
(* Blank pages *)

\* A refresh that is asked for is under way.
LEMMA RefreshIsUnderWay ==
  ASSUME AuthTyped, NEW t \in Tabs, RefreshAuthSession(t)
  PROVE  refreshes \subseteq refreshes' /\ RefreshesOf(t)' # {}
<1>1. Refresh(t, 0).tab = t
  BY FormBegins
<1>2. CASE RefreshesOf(t) # {}
  BY <1>2 DEF RefreshAuthSession, RefreshesOf
<1>3. CASE refreshes' = refreshes \cup {Refresh(t, 0)}
  BY <1>1, <1>3 DEF RefreshesOf
<1> QED
  BY <1>2, <1>3 DEF RefreshAuthSession

\* A page turns blank with a refresh under way, and not blank with its end.
LEMMA BlankStep ==
  ASSUME AuthTyped, BlankAwaitsRefresh, [AuthNext]_authVars
  PROVE  BlankAwaitsRefresh'
<1>0. place \in [Tabs -> {"login", "blank", "page"}]
  BY DEF AuthTyped, AuthTypeOK
<1>1. CASE /\ UNCHANGED <<place, awaits>> /\ refreshes \subseteq refreshes'
           /\ "left blank" \in causes => "left blank" \in causes'
  BY <1>1 DEF BlankAwaitsRefresh, RefreshesOf
<1>2. ASSUME NEW r \in refreshes, ServeRefresh(r) PROVE BlankAwaitsRefresh'
  <2>1. PICK x : refreshes' = (refreshes \ {r}) \cup {x} /\ x.tab = r.tab
    <3>1. /\ [r EXCEPT !.served = TRUE].tab = r.tab
          /\ [r EXCEPT !.served = TRUE, !.token = NextToken].tab = r.tab
      BY NextTokenIsNew, RefreshChanged DEF AuthTyped
    <3> QED
      BY <1>2, <3>1 DEF ServeRefresh
  <2>2. \A t \in Tabs : RefreshesOf(t) # {} => RefreshesOf(t)' # {}
    BY <2>1 DEF RefreshesOf
  <2>3. UNCHANGED <<place, awaits, causes>>
    BY <1>2 DEF ServeRefresh
  <2> QED
    BY <2>2, <2>3 DEF BlankAwaitsRefresh
<1>3. ASSUME NEW r \in refreshes, NEW next \in {"page", "login"}, SettleRefresh(r, next),
             "left blank" \in causes => "left blank" \in causes'
      PROVE  BlankAwaitsRefresh'
  <2> SUFFICES ASSUME "left blank" \notin causes, NEW t \in Tabs, place'[t] = "blank"
               PROVE  t \in awaits' /\ RefreshesOf(t)' # {}
    BY <1>3 DEF BlankAwaitsRefresh
  <2>1. /\ refreshes' = refreshes \ {r} /\ awaits' = awaits \ {r.tab}
        /\ place' = [place EXCEPT ![r.tab] = IF r.tab \in awaits THEN next ELSE @]
    BY <1>3 DEF SettleRefresh
  <2>2. CASE t = r.tab
    <3>1. t \notin awaits /\ place[t] = "blank"
      BY <1>0, <2>1, <2>2
    <3> QED
      BY <3>1 DEF BlankAwaitsRefresh
  <2>3. CASE t # r.tab
    <3>1. place[t] = "blank"
      BY <1>0, <2>1, <2>3
    <3> QED
      BY <2>1, <2>3, <3>1 DEF BlankAwaitsRefresh, RefreshesOf
  <2> QED
    BY <2>2, <2>3
<1>4. ASSUME NEW r \in refreshes, RefreshSucceeds(r) PROVE BlankAwaitsRefresh'
  BY <1>3, <1>4 DEF RefreshSucceeds
<1>5. ASSUME NEW r \in refreshes, RefreshFails(r) PROVE BlankAwaitsRefresh'
  BY <1>3, <1>5 DEF RefreshFails
<1>6. ASSUME NEW t \in Tabs, NEW shown \in {"blank", "page"}, Check(t, shown),
             IsAuthenticated => shown = "page"
      PROVE  BlankAwaitsRefresh'
  <2> SUFFICES ASSUME "left blank" \notin causes', NEW x \in Tabs, place'[x] = "blank"
               PROVE  x \in awaits' /\ RefreshesOf(x)' # {}
    BY DEF BlankAwaitsRefresh
  <2>1. place' = [place EXCEPT ![t] = shown]
    BY <1>6 DEF Check
  <2>2. x # t => x \in awaits /\ RefreshesOf(x) # {}
    <3>1. "left blank" \notin causes
      BY <1>6 DEF Check, RefreshAuthSession
    <3>2. x # t => place[x] = "blank"
      BY <1>0, <2>1
    <3> QED
      BY <3>1, <3>2 DEF BlankAwaitsRefresh
  <2>3. CASE IsAuthenticated
    <3>1. x # t
      BY <1>0, <1>6, <2>1, <2>3
    <3> QED
      BY <1>6, <2>2, <2>3, <3>1 DEF Check, RefreshesOf
  <2>4. CASE ~IsAuthenticated
    <3>1. awaits' = awaits \cup {t} /\ RefreshAuthSession(t)
      BY <1>6, <2>4 DEF Check
    <3>2. refreshes \subseteq refreshes' /\ RefreshesOf(t)' # {}
      BY <3>1, RefreshIsUnderWay
    <3> QED
      BY <2>2, <3>1, <3>2 DEF RefreshesOf
  <2> QED
    BY <2>3, <2>4
<1>7. ASSUME NEW t \in Tabs, EnterProtected(t) PROVE BlankAwaitsRefresh'
  BY <1>6, <1>7 DEF EnterProtected
<1>8. ASSUME NEW t \in Tabs, ChangePath(t) PROVE BlankAwaitsRefresh'
  <2>1. place[t] \in {"blank", "page"} /\ (IsAuthenticated => place[t] = "page")
    BY <1>0, <1>8 DEF ChangePath
  <2> QED
    BY <1>6, <1>8, <2>1 DEF ChangePath
<1>9. ASSUME NEW t \in Tabs, ChangeBlankPath(t) PROVE BlankAwaitsRefresh'
  BY <1>9 DEF ChangeBlankPath, BlankAwaitsRefresh
<1>10. ASSUME NEW t \in Tabs, place' = [place EXCEPT ![t] = "login"], awaits' = awaits \ {t},
              refreshes \ RefreshesOf(t) \subseteq refreshes',
              "left blank" \in causes => "left blank" \in causes'
       PROVE  BlankAwaitsRefresh'
  <2> SUFFICES ASSUME "left blank" \notin causes, NEW x \in Tabs, place'[x] = "blank"
               PROVE  x \in awaits' /\ RefreshesOf(x)' # {}
    BY <1>10 DEF BlankAwaitsRefresh
  <2>1. x # t /\ place[x] = "blank"
    BY <1>0, <1>10
  <2> QED
    BY <1>10, <2>1 DEF BlankAwaitsRefresh, RefreshesOf
<1>11. ASSUME NEW t \in Tabs, ReloadTab(t) PROVE BlankAwaitsRefresh'
  BY <1>10, <1>11 DEF ReloadTab
<1>12. ASSUME NEW s \in signs, LogoutArrives(s) PROVE BlankAwaitsRefresh'
  <2>1. s.tab \in Tabs
    BY DEF AuthTyped, AuthTypeOK
  <2> QED
    BY <1>10, <1>12, <2>1 DEF LogoutArrives
<1>13. ASSUME NEW q \in requests, Unauthorized(q) PROVE BlankAwaitsRefresh'
  BY <1>1, <1>13 DEF Unauthorized, RefreshAuthSession
<1>14. ASSUME NEW s \in signs, LoginArrives(s) PROVE BlankAwaitsRefresh'
  BY <1>1, <1>14 DEF LoginArrives
<1> QED
  BY <1>1, <1>2, <1>4, <1>5, <1>7, <1>8, <1>9, <1>11, <1>12, <1>13, <1>14
     DEF AuthNext, Answered, UnauthorizedAgain, SendRequest, HandleSubmit, Logout, ServeLogin,
         ServeLogout, AccessExpires, RefreshExpires, authVars, authNet

\* A page is blank only while its tab's refresh is under way, whatever tabs,
\* requests, logins and reloads meet (PrivateRoute).
THEOREM BlankPagesAwaitRefresh == AuthSpec => []BlankAwaitsRefresh
<1>1. AuthInit => BlankAwaitsRefresh
  BY DEF AuthInit, BlankAwaitsRefresh
<1> QED
  BY <1>1, AuthInitType, AuthStepType, BlankStep, PTL DEF AuthSpec

-----------------------------------------------------------------------------
(* Sessions *)

\* A token under way is accepted by the server, in one answer only, and neither
\* the cookie nor sent by anything else under way.
FreshTokens ==
  /\ \A r \in refreshes : r.token # NoToken =>
       /\ r.served /\ r.token \in valid /\ r.token # cookie
       /\ \A x \in refreshes : x.sent # r.token /\ (x.token = r.token => x = r)
       /\ \A s \in signs : s.sent # r.token /\ s.token # r.token
  /\ \A s \in signs : s.token # NoToken =>
       /\ s.kind = "login" /\ s.token \in valid /\ s.token # cookie
       /\ \A x \in refreshes : x.sent # s.token
       /\ \A z \in signs : z.sent # s.token /\ (z.token = s.token => z = s)

\* Only the server makes tokens, and every answer has its own.
LEMMA FreshStep ==
  ASSUME AuthTyped, AuthTyped', FreshTokens, [AuthNext]_authVars
  PROVE  FreshTokens'
<1>0. cookie \in Issued \cup {NoToken} /\ NextToken \notin Issued \cup {NoToken}
  BY NextTokenIsNew DEF AuthTyped, AuthTypeOK, NoToken
<1>1. CASE /\ UNCHANGED cookie /\ refreshes' \subseteq refreshes /\ signs' \subseteq signs
           /\ \A t \in valid : t # cookie /\ (\A x \in refreshes \cup signs : x.sent # t) => t \in valid'
  BY <1>1 DEF FreshTokens
<1>2. ASSUME NEW r \in refreshes, ServeRefresh(r) PROVE FreshTokens'
  <2>1. PICK x : /\ refreshes' = (refreshes \ {r}) \cup {x}
                 /\ x.sent = r.sent /\ x.served
                 /\ \/ x.token = NextToken /\ valid' = (valid \ {r.sent}) \cup {NextToken}
                    \/ x.token = r.token /\ valid' = valid
    <3>1. RefreshForm(r)
      BY DEF AuthTyped
    <3>2. LET x == [r EXCEPT !.served = TRUE]
          IN  x.sent = r.sent /\ x.served /\ x.token = r.token
      BY <3>1, NextTokenIsNew, RefreshChanged
    <3>3. LET x == [r EXCEPT !.served = TRUE, !.token = NextToken]
          IN  x.sent = r.sent /\ x.served /\ x.token = NextToken
      BY <3>1, NextTokenIsNew, RefreshChanged
    <3> QED
      BY <1>2, <3>2, <3>3 DEF ServeRefresh, Rotated
  <2>2. r.token = NoToken
    BY <1>2 DEF ServeRefresh, FreshTokens
  <2>3. UNCHANGED <<cookie, signs>>
    BY <1>2 DEF ServeRefresh, authBrowser
  <2>4. /\ \A y \in refreshes : y.token # NextToken /\ y.sent # NextToken
        /\ \A s \in signs : s.token # NextToken /\ s.sent # NextToken
    BY <1>0 DEF AuthTyped, AuthTypeOK
  <2>5. CASE x.token = NextToken /\ valid' = (valid \ {r.sent}) \cup {NextToken}
    BY <1>0, <2>1, <2>3, <2>4, <2>5 DEF FreshTokens
  <2>6. CASE x.token = r.token /\ valid' = valid
    BY <2>1, <2>2, <2>3, <2>6 DEF FreshTokens
  <2> QED
    BY <2>1, <2>5, <2>6
<1>3. ASSUME NEW r \in refreshes, RefreshSucceeds(r) PROVE FreshTokens'
  <2>1. /\ r.token # NoToken /\ cookie' = r.token /\ refreshes' = refreshes \ {r}
        /\ UNCHANGED <<signs, valid>>
    BY <1>3 DEF RefreshSucceeds, SettleRefresh, authServer
  <2> QED
    BY <2>1 DEF FreshTokens
<1>4. ASSUME NEW r \in refreshes, RefreshFails(r) PROVE FreshTokens'
  BY <1>1, <1>4 DEF RefreshFails, SettleRefresh, authServer
<1>5. ASSUME NEW t \in Tabs, RefreshAuthSession(t), UNCHANGED <<cookie, signs, valid>>
      PROVE  FreshTokens'
  <2>1. CASE UNCHANGED refreshes
    BY <1>1, <1>5, <2>1
  <2>2. CASE refreshes' = refreshes \cup {Refresh(t, 0)}
    <3>1. LET x == Refresh(t, 0) IN x.sent = cookie /\ x.token = NoToken
      BY FormBegins
    <3> HIDE DEF Refresh
    <3> QED
      BY <1>5, <2>2, <3>1 DEF FreshTokens
  <2> QED
    BY <1>5, <2>1, <2>2 DEF RefreshAuthSession
<1>6. ASSUME NEW q \in requests, Unauthorized(q) PROVE FreshTokens'
  <2>1. q.tab \in Tabs
    BY DEF AuthTyped, AuthTypeOK
  <2> QED
    BY <1>5, <1>6, <2>1 DEF Unauthorized, authServer, authBrowser
<1>7. ASSUME NEW t \in Tabs, EnterProtected(t) \/ ChangePath(t) PROVE FreshTokens'
  <2>1. UNCHANGED <<cookie, signs, valid>>
    BY <1>7 DEF EnterProtected, ChangePath, authServer, authBrowser
  <2>2. UNCHANGED refreshes \/ RefreshAuthSession(t)
    BY <1>7 DEF EnterProtected, ChangePath, Check
  <2> QED
    BY <1>1, <1>5, <2>1, <2>2
<1>8. ASSUME NEW t \in Tabs, ReloadTab(t) PROVE FreshTokens'
  <2>1. /\ cookie' = cookie
           \/ \E r \in RefreshesOf(t) : r.token # NoToken /\ cookie' = r.token
        /\ refreshes' = refreshes \ RefreshesOf(t) /\ signs' \subseteq signs /\ UNCHANGED valid
    BY <1>8 DEF ReloadTab, authServer
  <2>2. ASSUME NEW r \in RefreshesOf(t), r.token # NoToken, cookie' = r.token PROVE FreshTokens'
    <3>1. r \in refreshes /\ r \notin refreshes'
      BY <2>1 DEF RefreshesOf
    <3> QED
      BY <2>1, <2>2, <3>1 DEF FreshTokens
  <2> QED
    BY <1>1, <2>1, <2>2
<1>9. ASSUME NEW t \in Tabs, HandleSubmit(t) \/ Logout(t) PROVE FreshTokens'
  <2>1. PICK x : /\ signs' = signs \cup {x} /\ x.sent = cookie /\ x.token = NoToken
    BY <1>9, FormBegins DEF HandleSubmit, Logout
  <2>2. UNCHANGED <<cookie, refreshes, valid>>
    BY <1>9 DEF HandleSubmit, Logout, authServer, authBrowser
  <2> QED
    BY <2>1, <2>2 DEF FreshTokens
<1>10. ASSUME NEW s \in signs, ServeLogin(s) PROVE FreshTokens'
  <2>1. PICK x : /\ signs' = (signs \ {s}) \cup {x}
                 /\ x.sent = s.sent /\ x.token = NextToken /\ x.kind = "login"
    <3>1. SignForm(s)
      BY DEF AuthTyped
    <3>2. LET x == [s EXCEPT !.served = TRUE, !.token = NextToken]
          IN  x.sent = s.sent /\ x.token = NextToken /\ x.kind = s.kind
      BY <3>1, NextTokenIsNew, SignChanged
    <3> QED
      BY <1>10, <3>2 DEF ServeLogin
  <2>2. UNCHANGED <<cookie, refreshes>> /\ valid' = valid \cup {NextToken}
    BY <1>10 DEF ServeLogin, authBrowser
  <2>3. /\ \A y \in refreshes : y.token # NextToken /\ y.sent # NextToken
        /\ \A z \in signs : z.token # NextToken /\ z.sent # NextToken
    BY <1>0 DEF AuthTyped, AuthTypeOK
  <2> QED
    BY <1>0, <2>1, <2>2, <2>3 DEF FreshTokens
<1>11. ASSUME NEW s \in signs, LoginArrives(s) PROVE FreshTokens'
  <2>1. /\ s.kind = "login" /\ s.served /\ cookie' = s.token /\ signs' = signs \ {s}
        /\ UNCHANGED <<refreshes, valid>>
    BY <1>11 DEF LoginArrives, authServer
  <2>2. s.token # NoToken
    BY <2>1 DEF AuthTyped, SignForm
  <2> QED
    BY <2>1, <2>2 DEF FreshTokens
<1>12. ASSUME NEW s \in signs, ServeLogout(s) PROVE FreshTokens'
  <2>1. PICK x : /\ signs' = (signs \ {s}) \cup {x} /\ x.sent = s.sent /\ x.token = s.token
    <3>1. SignForm(s) /\ s.kind = "logout" /\ 1 \in Nat \ {0}
      BY <1>12 DEF AuthTyped, ServeLogout
    <3>2. LET x == [s EXCEPT !.served = TRUE] IN x.sent = s.sent /\ x.token = s.token
      BY <3>1, SignChanged
    <3> QED
      BY <1>12, <3>2 DEF ServeLogout
  <2>2. UNCHANGED <<cookie, refreshes>> /\ valid' = valid \ {s.sent}
    BY <1>12 DEF ServeLogout, authBrowser
  <2>3. s.token = NoToken
    BY <1>12 DEF ServeLogout, FreshTokens
  <2> QED
    BY <2>1, <2>2, <2>3 DEF FreshTokens
<1>13. ASSUME NEW s \in signs, LogoutArrives(s) PROVE FreshTokens'
  <2>1. /\ cookie' \in {cookie, NoToken} /\ signs' \subseteq signs
        /\ UNCHANGED <<refreshes, valid>>
    BY <1>13 DEF LogoutArrives, authServer
  <2> QED
    BY <2>1 DEF FreshTokens
<1>14. CASE RefreshExpires
  BY <1>1, <1>14 DEF RefreshExpires, authBrowser, authNet
<1> QED
  BY <1>1, <1>2, <1>3, <1>4, <1>6, <1>7, <1>8, <1>9, <1>10, <1>11, <1>12, <1>13, <1>14
     DEF AuthNext, Answered, UnauthorizedAgain, SendRequest, ChangeBlankPath, AccessExpires,
         authVars, authServer, authBrowser, authNet

\* While nothing has ended the session: at most one refresh is under way, with
\* the cookie's token or with its answer, which is the user's; nothing that was
\* sent again is refused; nobody signs out.
GoodSession ==
  causes \subseteq {"left blank"} =>
    /\ access # NoToken /\ user = holder[access]
    /\ \A r1, r2 \in refreshes : r1 = r2
    /\ refreshes = {} => cookie \in valid
    /\ cookie \in valid => holder[cookie] = user
    /\ \A r \in refreshes :
         /\ ~r.served => r.sent = cookie /\ cookie \in valid
         /\ r.served => r.token # NoToken /\ holder[r.token] = user
         /\ r.token \notin expired
    /\ \A q \in requests : q.stage = "resent" => q.token \notin expired
    /\ \A s \in signs : s.kind # "logout"

\* Only what is in causes ends a session.
LEMMA GoodStep ==
  ASSUME AuthTyped, AuthTyped', FreshTokens, GoodSession, [AuthNext]_authVars
  PROVE  GoodSession'
<1> SUFFICES ASSUME causes' \subseteq {"left blank"} PROVE GoodSession'
  BY DEF GoodSession
<1>0. /\ valid \subseteq Issued /\ expired \subseteq Issued
      /\ cookie \in Issued \cup {NoToken} /\ access \in Issued \cup {NoToken}
      /\ \A r \in refreshes : r.token \in Issued \cup {NoToken}
      /\ NextToken \notin Issued /\ NoToken \notin Issued
      /\ NextToken # NoToken
  <2>1. NextToken \notin Issued /\ NextToken # NoToken
    BY NextTokenIsNew DEF NoToken
  <2>2. NoToken \notin Issued
    BY TokensAreNumbers DEF NoToken
  <2> QED
    BY <2>1, <2>2 DEF AuthTyped, AuthTypeOK
<1>2. ASSUME NEW r \in refreshes, ServeRefresh(r) PROVE GoodSession'
  <2>1. UNCHANGED <<causes, cookie, access, user, expired, requests, signs>> /\ ~r.served
    BY <1>2 DEF ServeRefresh, authBrowser
  <2>2. causes \subseteq {"left blank"}
    BY <2>1
  <2>3. refreshes = {r} /\ r.sent = cookie /\ cookie \in valid /\ holder[cookie] = user
    BY <2>1, <2>2 DEF GoodSession
  <2>4. /\ NextToken \in Tokens /\ holder' = [holder EXCEPT ![NextToken] = holder[cookie]]
        /\ valid' = (valid \ {cookie}) \cup {NextToken}
        /\ refreshes' = {[r EXCEPT !.served = TRUE, !.token = NextToken]}
    BY <1>2, <2>3 DEF ServeRefresh, Rotated
  <2>5. PICK x : refreshes' = {x} /\ x.served /\ x.token = NextToken
    <3>1. RefreshForm(r)
      BY DEF AuthTyped
    <3>2. LET x == [r EXCEPT !.served = TRUE, !.token = NextToken]
          IN  x.served /\ x.token = NextToken
      BY <3>1, NextTokenIsNew, RefreshChanged
    <3> QED
      BY <2>4, <3>2
  <2>6. holder[cookie] \in Users
    BY <1>0, <2>3 DEF AuthTyped, AuthTypeOK, Issued
  <2>7. /\ holder'[NextToken] = holder[cookie]
        /\ \A t \in Issued : holder'[t] = holder[t]
    BY <2>4, <2>6, IssueToken
  <2>8. access \in Issued /\ user = holder[access]
    BY <1>0, <2>2 DEF GoodSession
  <2>9. cookie \in Issued /\ cookie \notin valid'
    BY <1>0, <2>3, <2>4
  <2>10. x.token \notin expired' /\ holder'[x.token] = user' /\ access' # NoToken
         /\ user' = holder'[access']
    BY <1>0, <2>1, <2>3, <2>5, <2>7, <2>8
  <2>11. /\ \A q \in requests : q.stage = "resent" => q.token \notin expired
         /\ \A s \in signs : s.kind # "logout"
    BY <2>2 DEF GoodSession
  <2> QED
    BY <1>0, <2>1, <2>5, <2>9, <2>10, <2>11 DEF GoodSession
<1>3. ASSUME NEW r \in refreshes, RefreshSucceeds(r) PROVE GoodSession'
  <2>1. /\ r.served /\ r.token # NoToken /\ cookie' = r.token /\ access' = r.token
        /\ refreshes' = refreshes \ {r}
        /\ UNCHANGED <<causes, holder, valid, expired, user, signs>>
    BY <1>3 DEF RefreshSucceeds, SettleRefresh, SaveAuthTokens, authServer
  <2>2. causes \subseteq {"left blank"}
    BY <2>1
  <2>3. /\ refreshes = {r} /\ holder[r.token] = user /\ r.token \notin expired
        /\ r.token \in valid
    BY <2>1, <2>2 DEF GoodSession, FreshTokens
  <2>4. \A q \in requests' : q.stage = "resent" => q.token \notin expired
    <3>0. r.token \in Nat
      BY <1>0, TokensAreNumbers
    <3>1. ASSUME NEW q \in requests PROVE Resent(q, r.token).token = r.token
      <4>1. RequestForm(q)
        BY DEF AuthTyped
      <4> QED
        BY <3>0, <4>1, RequestResent
    <3>2. ASSUME NEW x \in requests', x \notin requests PROVE x.token = r.token
      <4>1. PICK q \in requests : x = Resent(q, r.token)
        BY <1>3, <3>2 DEF RefreshSucceeds, WaitingIn
      <4> QED
        BY <3>1, <4>1
    <3> QED
      BY <2>2, <2>3, <3>2 DEF GoodSession
  <2> QED
    BY <2>1, <2>2, <2>3, <2>4 DEF GoodSession
<1>4. ASSUME NEW r \in refreshes, RefreshFails(r) PROVE FALSE
  <2>1. r.served /\ r.token = NoToken /\ UNCHANGED causes
    BY <1>4 DEF RefreshFails
  <2> QED
    BY <2>1 DEF GoodSession
<1>5. ASSUME NEW t \in Tabs, RefreshAuthSession(t),
             UNCHANGED <<holder, valid, expired, cookie, access, user, signs>>,
             \A q \in requests' : q.stage = "resent" => q \in requests
      PROVE  GoodSession'
  <2>1. causes \subseteq {"left blank"}
    BY <1>5 DEF RefreshAuthSession
  <2>2. CASE UNCHANGED refreshes
    BY <1>5, <2>1, <2>2 DEF GoodSession
  <2>3. CASE /\ refreshes' = refreshes \cup {Refresh(t, 0)}
             /\ causes' = causes \cup (IF refreshes = {} THEN {} ELSE {"two tabs"})
    <3>0. LET x == Refresh(t, 0) IN x.sent = cookie /\ ~x.served /\ x.token = NoToken
      BY FormBegins
    <3>1. PICK x : x = Refresh(t, 0) /\ x.sent = cookie /\ ~x.served /\ x.token = NoToken
      BY <3>0
    <3>2. refreshes = {} /\ refreshes' = {x}
      BY <2>3, <3>1
    <3> QED
      BY <1>0, <1>5, <2>1, <3>1, <3>2 DEF GoodSession
  <2> QED
    BY <1>5, <2>2, <2>3 DEF RefreshAuthSession
<1>6. ASSUME NEW q \in requests, Unauthorized(q) PROVE GoodSession'
  <2>1. q.tab \in Tabs /\ [q EXCEPT !.stage = "waiting"].stage = "waiting"
    BY RequestChanged DEF AuthTyped, AuthTypeOK
  <2> QED
    BY <1>5, <1>6, <2>1 DEF Unauthorized, authServer, authBrowser
<1>7. ASSUME NEW t \in Tabs, EnterProtected(t) \/ ChangePath(t) PROVE GoodSession'
  <2>1. UNCHANGED <<holder, valid, expired, cookie, access, user, signs, requests>>
    BY <1>7 DEF EnterProtected, ChangePath, authServer, authBrowser
  <2>2. UNCHANGED <<refreshes, causes>> \/ RefreshAuthSession(t)
    BY <1>7 DEF EnterProtected, ChangePath, Check
  <2> QED
    BY <1>5, <2>1, <2>2 DEF GoodSession
<1>8. ASSUME NEW t \in Tabs, ReloadTab(t) PROVE GoodSession'
  <2>1. RefreshesOf(t) = {} /\ causes' = causes
    BY <1>8 DEF ReloadTab
  <2>2. /\ UNCHANGED <<holder, valid, expired, access, user, cookie, refreshes>>
        /\ requests' \subseteq requests /\ signs' \subseteq signs
    BY <1>8, <2>1 DEF ReloadTab, authServer
  <2> QED
    BY <2>1, <2>2 DEF GoodSession
<1>9. ASSUME NEW t \in Tabs, SendRequest(t) PROVE GoodSession'
  <2> DEFINE q == [tab |-> t, token |-> access, stage |-> "sent", n |-> Cardinality(requests)]
  <2>1. q.stage = "sent" /\ requests' = requests \cup {q}
    BY <1>9 DEF SendRequest
  <2> HIDE DEF q
  <2> QED
    BY <1>9, <2>1 DEF SendRequest, authServer, authBrowser, GoodSession
<1>10. ASSUME NEW q \in requests, Answered(q) PROVE GoodSession'
  BY <1>10 DEF Answered, authServer, authBrowser, GoodSession
<1>11. ASSUME NEW q \in requests, UnauthorizedAgain(q) PROVE FALSE
  BY <1>11 DEF UnauthorizedAgain, GoodSession
<1>12. ASSUME NEW t \in Tabs, ChangeBlankPath(t) PROVE GoodSession'
  BY <1>12 DEF ChangeBlankPath, authServer, authBrowser, authNet, GoodSession
<1>13. ASSUME NEW t \in Tabs, HandleSubmit(t) PROVE GoodSession'
  <2>0. LET x == Sign(t, "login") IN x.kind = "login"
    BY FormBegins
  <2>1. PICK x : signs' = signs \cup {x} /\ x.kind = "login"
    BY <1>13, <2>0 DEF HandleSubmit
  <2> QED
    BY <1>13, <2>1 DEF HandleSubmit, authServer, authBrowser, GoodSession
<1>14. ASSUME NEW t \in Tabs, Logout(t) PROVE FALSE
  BY <1>14 DEF Logout
<1>15. ASSUME NEW s \in signs, ServeLogin(s) PROVE GoodSession'
  <2>1. PICK u \in Users : holder' = [holder EXCEPT ![NextToken] = u]
    BY <1>15 DEF ServeLogin
  <2>2. \A t \in Issued : holder'[t] = holder[t]
    BY <1>15, <2>1, IssueToken DEF ServeLogin
  <2>3. PICK x : signs' = (signs \ {s}) \cup {x} /\ x.kind = "login"
    <3>1. SignForm(s)
      BY DEF AuthTyped
    <3>2. LET x == [s EXCEPT !.served = TRUE, !.token = NextToken] IN x.kind = s.kind
      BY <3>1, NextTokenIsNew, SignChanged
    <3> QED
      BY <1>15, <3>2 DEF ServeLogin
  <2>4. /\ UNCHANGED <<expired, cookie, access, user, refreshes, requests, causes>>
        /\ valid' = valid \cup {NextToken}
    BY <1>15 DEF ServeLogin, authBrowser
  <2> QED
    BY <1>0, <2>2, <2>3, <2>4 DEF GoodSession
<1>16. ASSUME NEW s \in signs, LoginArrives(s) PROVE GoodSession'
  <2>1. /\ s.kind = "login" /\ s.served /\ cookie' = s.token /\ access' = s.token
        /\ user' = holder[s.token] /\ signs' = signs \ {s}
        /\ UNCHANGED <<holder, valid, expired, refreshes, requests>>
    BY <1>16 DEF LoginArrives, SaveAuthSession, authServer
  <2>2. s.token # NoToken
    BY <2>1 DEF AuthTyped, SignForm
  <2>3. refreshes = {} /\ signs = {s} /\ \A q \in requests : q.stage # "resent"
    BY <1>16 DEF LoginArrives
  <2> QED
    BY <2>1, <2>2, <2>3 DEF GoodSession, FreshTokens
<1>17. ASSUME NEW s \in signs, ServeLogout(s) \/ LogoutArrives(s) PROVE FALSE
  BY <1>17 DEF ServeLogout, LogoutArrives, GoodSession
<1>18. CASE AccessExpires
  <2>1. PICK t \in Issued \ expired :
          /\ \A q \in requests : ~(q.stage = "resent" /\ q.token = t)
          /\ \A r \in refreshes : r.token # t
          /\ expired' = expired \cup {t}
    BY <1>18 DEF AccessExpires
  <2> QED
    BY <1>18, <2>1 DEF AccessExpires, authBrowser, authNet, GoodSession
<1>19. CASE RefreshExpires
  BY <1>19 DEF RefreshExpires
<1>20. CASE UNCHANGED authVars
  <2>1. UNCHANGED <<holder, valid, expired, cookie, access, user, refreshes, requests, signs, causes>>
    BY <1>20 DEF authVars, authServer, authBrowser, authNet
  <2> QED
    BY <2>1 DEF GoodSession
<1> QED
  BY <1>2, <1>3, <1>4, <1>6, <1>7, <1>8, <1>9, <1>10, <1>11, <1>12, <1>13, <1>14, <1>15,
     <1>16, <1>17, <1>18, <1>19, <1>20 DEF AuthNext

\* A session lasts until something ends it, however many requests are refused
\* at once and whenever a token's time is over (ApiClient.refreshAuthSession).
THEOREM SessionsLast == AuthSpec => []SessionLasts
<1>1. AuthInit => FreshTokens /\ GoodSession
  BY DEF AuthInit, FreshTokens, GoodSession
<1>2. AuthTyped /\ FreshTokens /\ GoodSession => SessionLasts
  BY DEF FreshTokens, GoodSession, SessionLasts
<1> QED
  BY <1>1, <1>2, AuthInitType, AuthStepType, FreshStep, GoodStep, PTL DEF AuthSpec

-----------------------------------------------------------------------------
(***************************************************************************)
(* Proofs about GenerationGate: its type, that no gate is left in the map,    *)
(* and that it implements GenerationLease.                                   *)
(*                                                                         *)
(* The inductive invariant says what the count of a gate counts (Holders) and *)
(* that a gate with a holder is the one its chat has in the map; the permit   *)
(* of a gate that left the map is therefore nobody's.                        *)
(***************************************************************************)

Counted(w) == worker[w].at \in {"retained", "refused", "leased", "releasing"}

Holders(g) == {w \in Workers : Counted(w) /\ worker[w].gate = g}

HoldersAreMapped ==
  \A w \in Workers : Counted(w) => gateOf[worker[w].chat] = worker[w].gate

ReferencesCountHolders == \A g \in Gates : references[g] = Cardinality(Holders(g))

PermitIsLeased ==
  /\ \A w \in Workers : At(w, "leased") => permits[worker[w].gate] = 0
  /\ \A w, v \in Workers :
       At(w, "leased") /\ At(v, "leased") /\ worker[w].gate = worker[v].gate => w = v
  /\ \A g \in Gates :
       permits[g] = 0 => \E w \in Workers : At(w, "leased") /\ worker[w].gate = g

GatesDiffer ==
  \A c, d \in ChatIds : gateOf[c] = gateOf[d] /\ gateOf[c] # NoGate => c = d

GateInv ==
  /\ GateTypeOK
  /\ HoldersAreMapped
  /\ ReferencesCountHolders
  /\ PermitIsLeased
  /\ GatesDiffer
  /\ NoGateLeaks

-----------------------------------------------------------------------------
\* The holders of a gate are finitely many.
LEMMA HoldersFinite ==
  ASSUME NEW g
  PROVE  IsFiniteSet(Holders(g))
BY WorkersAssumption, FS_Subset DEF Holders

LEMMA GateInitInv == GateInit => GateInv
<1> SUFFICES ASSUME GateInit PROVE GateInv
  OBVIOUS
<1> USE DEF GateInit
<1>1. GateTypeOK
  BY GateAssumption DEF GateTypeOK, Stages, At
<1>2. \A w \in Workers : At(w, "idle")
  BY DEF At
<1>3. HoldersAreMapped /\ PermitIsLeased /\ GatesDiffer /\ NoGateLeaks
  BY <1>2 DEF HoldersAreMapped, Counted, PermitIsLeased, GatesDiffer, NoGateLeaks, At
<1>4. \A g \in Gates : Holders(g) = {}
  BY <1>2 DEF Holders, Counted, At
<1>5. ReferencesCountHolders
  BY <1>4, FS_EmptySet DEF ReferencesCountHolders
<1> QED
  BY <1>1, <1>3, <1>5 DEF GateInv

-----------------------------------------------------------------------------
\* A thread gets the gate of its chat, which is new when the chat has none.
LEMMA EnterInv ==
  ASSUME GateInv, NEW w \in Workers, NEW c \in ChatIds, Enter(w, c)
  PROVE  GateInv'
<1> USE GateAssumption DEF GateInv
<1>1. PICK g \in Gates :
        /\ IF gateOf[c] = NoGate
           THEN /\ Unused(g)
                /\ references' = [references EXCEPT ![g] = 1]
                /\ permits' = [permits EXCEPT ![g] = 1]
           ELSE /\ g = gateOf[c]
                /\ references' = [references EXCEPT ![g] = @ + 1]
                /\ UNCHANGED permits
        /\ gateOf' = [gateOf EXCEPT ![c] = g]
        /\ worker' = [worker EXCEPT ![w] = [at |-> "retained", chat |-> c, gate |-> g]]
  BY DEF Enter
<1>2. At(w, "idle")
  BY DEF Enter
<1>3. /\ worker'[w] = [at |-> "retained", chat |-> c, gate |-> g]
      /\ \A v \in Workers \ {w} : worker'[v] = worker[v]
  BY <1>1 DEF GateTypeOK
<1>4. /\ gateOf'[c] = g
      /\ \A d \in ChatIds \ {c} : gateOf'[d] = gateOf[d] /\ gateOf[d] # g
  BY <1>1 DEF GateTypeOK, GatesDiffer, Unused
<1>5. \A v \in Workers \ {w} : Counted(v) /\ worker[v].gate # NoGate => (worker[v].gate = g <=> worker[v].chat = c /\ gateOf[c] = g)
  BY <1>1, <1>4 DEF HoldersAreMapped, Unused, Counted, GateTypeOK
<1>6. GateTypeOK'
  <2>1. gateOf' \in [ChatIds -> Gates \cup {NoGate}]
    BY <1>1 DEF GateTypeOK
  <2>2. references' \in [Gates -> Nat] /\ permits' \in [Gates -> {0, 1}]
    <3>1. CASE gateOf[c] = NoGate
      BY <3>1, <1>1 DEF GateTypeOK
    <3>2. CASE gateOf[c] # NoGate
      BY <3>2, <1>1 DEF GateTypeOK
    <3> QED
      BY <3>1, <3>2
  <2>3. worker' \in [Workers -> [at : Stages, chat : ChatIds, gate : Gates \cup {NoGate}]]
    BY <1>1 DEF GateTypeOK, Stages
  <2>4. \A v \in Workers : ~At(v, "idle")' => worker'[v].gate \in Gates
    BY <1>3 DEF GateTypeOK, At
  <2> QED
    BY <2>1, <2>2, <2>3, <2>4 DEF GateTypeOK
<1>7. HoldersAreMapped'
  <2> SUFFICES ASSUME NEW v \in Workers, Counted(v)'
               PROVE  gateOf'[worker'[v].chat] = worker'[v].gate
    BY DEF HoldersAreMapped
  <2>1. CASE v = w
    BY <2>1, <1>3, <1>4
  <2>2. CASE v # w
    <3>1. Counted(v) /\ worker[v].chat \in ChatIds /\ worker[v].gate \in Gates /\ worker'[v] = worker[v]
      BY <2>2, <1>3 DEF Counted, GateTypeOK, At
    <3>2. gateOf[worker[v].chat] = worker[v].gate
      BY <3>1 DEF HoldersAreMapped
    <3>3. CASE worker[v].chat = c
      BY <3>1, <3>2, <3>3, <1>1, <1>4
    <3>4. CASE worker[v].chat # c
      BY <3>1, <3>2, <3>4, <1>4
    <3> QED
      BY <3>3, <3>4
  <2> QED
    BY <2>1, <2>2
<1>8. ReferencesCountHolders'
  <2> SUFFICES ASSUME NEW h \in Gates
               PROVE  references'[h] = Cardinality(Holders(h)')
    BY DEF ReferencesCountHolders
  <2>1. w \notin Holders(h)
    BY <1>2 DEF Holders, Counted, At
  <2>2. CASE h # g
    <3>1. Holders(h)' = Holders(h)
      BY <2>1, <2>2, <1>3 DEF Holders, Counted
    <3> QED
      BY <3>1, <2>2, <1>1 DEF ReferencesCountHolders, GateTypeOK
  <2>3. CASE h = g
    <3>1. Holders(g)' = Holders(g) \cup {w}
      BY <1>3 DEF Holders, Counted
    <3>2. Cardinality(Holders(g)') = Cardinality(Holders(g)) + 1
      BY <2>1, <2>3, <3>1, HoldersFinite, FS_AddElement
    <3>3. CASE gateOf[c] = NoGate
      <4>1. Holders(g) = {}
        BY <3>3, <1>1 DEF Holders, Counted, Unused
      <4> QED
        BY <4>1, <3>2, <3>3, <2>3, <1>1, FS_EmptySet DEF GateTypeOK
    <3>4. CASE gateOf[c] # NoGate
      BY <3>2, <3>4, <2>3, <1>1 DEF ReferencesCountHolders, GateTypeOK
    <3> QED
      BY <3>3, <3>4
  <2> QED
    BY <2>2, <2>3
<1>9. PermitIsLeased'
  <2>1. \A v \in Workers : At(v, "leased")' <=> At(v, "leased")
    BY <1>2, <1>3 DEF At
  <2>2. \A v \in Workers : At(v, "leased") => worker'[v] = worker[v] /\ worker[v].gate \in Gates
    BY <1>2, <1>3 DEF At, GateTypeOK
  <2>3. CASE gateOf[c] = NoGate
    <3>1. \A v \in Workers : At(v, "leased") => worker[v].gate # g
      BY <2>3, <1>1 DEF Unused, At
    <3>2. permits' = [permits EXCEPT ![g] = 1]
      BY <2>3, <1>1
    <3> QED
      BY <2>1, <2>2, <3>1, <3>2 DEF PermitIsLeased, GateTypeOK
  <2>4. CASE gateOf[c] # NoGate
    <3>1. permits' = permits
      BY <2>4, <1>1
    <3> QED
      BY <2>1, <2>2, <3>1 DEF PermitIsLeased
  <2> QED
    BY <2>3, <2>4
<1>10. GatesDiffer'
  BY <1>4 DEF GatesDiffer
<1>11. NoGateLeaks'
  <2> SUFFICES ASSUME NEW d \in ChatIds, gateOf'[d] # NoGate
               PROVE  \E v \in Workers : ~At(v, "idle")' /\ worker'[v].chat = d /\ worker'[v].gate = gateOf'[d]
    BY DEF NoGateLeaks
  <2>1. CASE d = c
    BY <2>1, <1>3, <1>4 DEF At
  <2>2. CASE d # c
    <3>1. PICK v \in Workers : ~At(v, "idle") /\ worker[v].chat = d /\ worker[v].gate = gateOf[d]
      BY <2>2, <1>4 DEF NoGateLeaks
    <3> QED
      BY <2>2, <3>1, <1>2, <1>3, <1>4 DEF At
  <2> QED
    BY <2>1, <2>2
<1> QED
  BY <1>6, <1>7, <1>8, <1>9, <1>10, <1>11

\* The other steps of a thread: it keeps its chat and its gate.
LEMMA Moved ==
  ASSUME GateTypeOK, NEW w \in Workers, NEW stage, GoTo(w, stage)
  PROVE  /\ worker'[w].at = stage
         /\ worker'[w].chat = worker[w].chat
         /\ worker'[w].gate = worker[w].gate
         /\ \A v \in Workers \ {w} : worker'[v] = worker[v]
         /\ worker' \in [Workers -> [at : Stages \cup {stage}, chat : ChatIds, gate : Gates \cup {NoGate}]]
BY DEF GateTypeOK, GoTo

\* A step between two stages that both count changes no count.
LEMMA SameHolders ==
  ASSUME GateTypeOK, NEW w \in Workers, NEW stage, GoTo(w, stage), Counted(w),
         stage \in {"retained", "refused", "leased", "releasing"}
  PROVE  \A g : Holders(g)' = Holders(g)
BY Moved DEF Holders, Counted

LEMMA TryAcquireInv ==
  ASSUME GateInv, NEW w \in Workers, TryAcquire(w)
  PROVE  GateInv'
<1> USE DEF GateInv
<1> DEFINE g == worker[w].gate
<1>1. At(w, "retained") /\ Counted(w) /\ g \in Gates /\ worker[w].chat \in ChatIds
  BY DEF TryAcquire, At, Counted, GateTypeOK
<1>2. PICK stage \in {"leased", "refused"} :
        /\ GoTo(w, stage)
        /\ stage = "leased" => permits[g] > 0 /\ permits' = [permits EXCEPT ![g] = @ - 1]
        /\ stage = "refused" => permits' = permits
  BY DEF TryAcquire
<1>3. gateOf' = gateOf /\ references' = references
  BY DEF TryAcquire
<1>4. /\ worker'[w].at = stage /\ worker'[w].chat = worker[w].chat /\ worker'[w].gate = g
      /\ \A v \in Workers \ {w} : worker'[v] = worker[v]
      /\ worker' \in [Workers -> [at : Stages \cup {stage}, chat : ChatIds, gate : Gates \cup {NoGate}]]
  BY <1>2, Moved
<1>5. GateTypeOK'
  <2>1. Stages \cup {stage} = Stages
    BY DEF Stages
  <2>2. permits' \in [Gates -> {0, 1}]
    BY <1>1, <1>2 DEF GateTypeOK
  <2>3. \A v \in Workers : ~At(v, "idle")' => worker'[v].gate \in Gates
    BY <1>1, <1>4 DEF At, GateTypeOK
  <2> QED
    BY <2>1, <2>2, <2>3, <1>3, <1>4 DEF GateTypeOK
<1>6. HoldersAreMapped'
  BY <1>1, <1>3, <1>4 DEF HoldersAreMapped, Counted
<1>7. ReferencesCountHolders'
  BY <1>1, <1>2, <1>3, SameHolders DEF ReferencesCountHolders
<1>8. PermitIsLeased'
  <2>1. CASE stage = "refused"
    <3>1. \A v \in Workers : (At(v, "leased")' <=> At(v, "leased")) /\ (At(v, "leased") => worker'[v].gate = worker[v].gate)
      BY <2>1, <1>1, <1>4 DEF At
    <3> QED
      BY <2>1, <3>1, <1>2 DEF PermitIsLeased
  <2>2. CASE stage = "leased"
    <3>1. permits[g] = 1 /\ permits'[g] = 0 /\ \A h \in Gates \ {g} : permits'[h] = permits[h]
      BY <2>2, <1>1, <1>2 DEF GateTypeOK
    <3>2. \A v \in Workers \ {w} : At(v, "leased")' => worker[v].gate # g /\ At(v, "leased")
      BY <3>1, <1>4 DEF PermitIsLeased, At
    <3>3. \A v \in Workers : At(v, "leased") => v # w /\ worker[v].gate \in Gates
      BY <1>1 DEF At, GateTypeOK
    <3>4. \A v \in Workers : At(v, "leased")' => permits'[worker'[v].gate] = 0
      BY <3>1, <3>2, <3>3, <1>4 DEF PermitIsLeased
    <3>5. \A v, u \in Workers :
            At(v, "leased")' /\ At(u, "leased")' /\ worker'[v].gate = worker'[u].gate => v = u
      BY <3>2, <1>4 DEF PermitIsLeased
    <3>6. \A h \in Gates : permits'[h] = 0 => \E v \in Workers : At(v, "leased")' /\ worker'[v].gate = h
      <4> SUFFICES ASSUME NEW h \in Gates, permits'[h] = 0
                   PROVE  \E v \in Workers : At(v, "leased")' /\ worker'[v].gate = h
        OBVIOUS
      <4>1. CASE h = g
        BY <4>1, <2>2, <1>4 DEF At
      <4>2. CASE h # g
        BY <4>2, <3>1, <3>3, <1>4 DEF PermitIsLeased, At
      <4> QED
        BY <4>1, <4>2
    <3> QED
      BY <3>4, <3>5, <3>6 DEF PermitIsLeased
  <2> QED
    BY <2>1, <2>2
<1>9. GatesDiffer'
  BY <1>3 DEF GatesDiffer
<1>10. NoGateLeaks'
  BY <1>3, <1>4 DEF NoGateLeaks, At
<1> QED
  BY <1>5, <1>6, <1>7, <1>8, <1>9, <1>10

LEMMA ReleaseInv ==
  ASSUME GateInv, NEW w \in Workers, Release(w)
  PROVE  GateInv'
<1> USE DEF GateInv
<1> DEFINE g == worker[w].gate
<1>1. At(w, "leased") /\ Counted(w) /\ g \in Gates /\ worker[w].chat \in ChatIds
  BY DEF Release, At, Counted, GateTypeOK
<1>2. GoTo(w, "releasing") /\ gateOf' = gateOf /\ references' = references
  BY DEF Release
<1>3. permits[g] = 0 /\ permits' = [permits EXCEPT ![g] = 1]
  <2>1. permits[g] = 0
    BY <1>1 DEF PermitIsLeased
  <2>2. permits' = [permits EXCEPT ![g] = permits[g] + 1]
    BY DEF Release
  <2>3. permits[g] + 1 = 1
    BY <2>1
  <2> QED
    BY <2>1, <2>2, <2>3
<1>4. /\ worker'[w].at = "releasing" /\ worker'[w].chat = worker[w].chat /\ worker'[w].gate = g
      /\ \A v \in Workers \ {w} : worker'[v] = worker[v]
      /\ worker' \in [Workers -> [at : Stages \cup {"releasing"}, chat : ChatIds, gate : Gates \cup {NoGate}]]
  BY <1>2, Moved
<1>5. GateTypeOK'
  <2>1. Stages \cup {"releasing"} = Stages
    BY DEF Stages
  <2>2. permits' \in [Gates -> {0, 1}]
    BY <1>3 DEF GateTypeOK
  <2>3. \A v \in Workers : ~At(v, "idle")' => worker'[v].gate \in Gates
    BY <1>1, <1>4 DEF At, GateTypeOK
  <2> QED
    BY <2>1, <2>2, <2>3, <1>2, <1>4 DEF GateTypeOK
<1>6. HoldersAreMapped'
  BY <1>1, <1>2, <1>4 DEF HoldersAreMapped, Counted
<1>7. ReferencesCountHolders'
  BY <1>1, <1>2, SameHolders DEF ReferencesCountHolders
<1>8. PermitIsLeased'
  <2>1. \A v \in Workers : At(v, "leased")' => v # w /\ At(v, "leased") /\ worker'[v] = worker[v]
    BY <1>4 DEF At
  <2>2. \A v \in Workers : At(v, "leased")' => worker[v].gate # g /\ worker[v].gate \in Gates
    BY <2>1, <1>1 DEF PermitIsLeased, GateTypeOK, At
  <2>3. \A h \in Gates : permits'[h] = 0 => h # g /\ permits[h] = 0
    BY <1>1, <1>3 DEF GateTypeOK
  <2>4. \A v \in Workers : At(v, "leased") /\ worker[v].gate # g => At(v, "leased")' /\ worker'[v].gate = worker[v].gate
    BY <1>4 DEF At
  <2>5. \A v \in Workers : At(v, "leased")' => permits'[worker'[v].gate] = 0
    BY <2>1, <2>2, <1>3 DEF PermitIsLeased, GateTypeOK
  <2>6. \A v, u \in Workers :
          At(v, "leased")' /\ At(u, "leased")' /\ worker'[v].gate = worker'[u].gate => v = u
    BY <2>1 DEF PermitIsLeased
  <2>7. \A h \in Gates : permits'[h] = 0 => \E v \in Workers : At(v, "leased")' /\ worker'[v].gate = h
    BY <2>3, <2>4 DEF PermitIsLeased
  <2> QED
    BY <2>5, <2>6, <2>7 DEF PermitIsLeased
<1>9. GatesDiffer'
  BY <1>2 DEF GatesDiffer
<1>10. NoGateLeaks'
  BY <1>2, <1>4 DEF NoGateLeaks, At
<1> QED
  BY <1>5, <1>6, <1>7, <1>8, <1>9, <1>10

LEMMA DropReferenceInv ==
  ASSUME GateInv, NEW w \in Workers, DropReference(w)
  PROVE  GateInv'
<1> USE DEF GateInv
<1> DEFINE g == worker[w].gate
<1>1. ~At(w, "leased") /\ Counted(w) /\ g \in Gates /\ worker[w].chat \in ChatIds
  BY DEF DropReference, At, Counted, GateTypeOK
<1>2. GoTo(w, "dropped") /\ gateOf' = gateOf /\ permits' = permits
  BY DEF DropReference
<1>3. /\ worker'[w].at = "dropped" /\ worker'[w].chat = worker[w].chat /\ worker'[w].gate = g
      /\ \A v \in Workers \ {w} : worker'[v] = worker[v]
      /\ worker' \in [Workers -> [at : Stages \cup {"dropped"}, chat : ChatIds, gate : Gates \cup {NoGate}]]
  BY <1>2, Moved
<1>4. references' = [references EXCEPT ![g] = @ - 1]
  BY DEF DropReference
<1>5. Holders(g)' = Holders(g) \ {w} /\ w \in Holders(g)
  BY <1>1, <1>3 DEF Holders, Counted
<1>6. Cardinality(Holders(g)') = references[g] - 1
  BY <1>1, <1>5, HoldersFinite, FS_RemoveElement DEF ReferencesCountHolders
<1>7. \A h \in Gates \ {g} : Holders(h)' = Holders(h)
  BY <1>3 DEF Holders, Counted
<1>8. references[g] - 1 \in Nat
  <2>1. references[g] # 0
    BY <1>1, <1>5, HoldersFinite, FS_EmptySet DEF ReferencesCountHolders
  <2> QED
    BY <2>1, <1>1 DEF GateTypeOK
<1>9. GateTypeOK'
  <2>1. Stages \cup {"dropped"} = Stages
    BY DEF Stages
  <2>2. references' \in [Gates -> Nat]
    BY <1>4, <1>8 DEF GateTypeOK
  <2>3. \A v \in Workers : ~At(v, "idle")' => worker'[v].gate \in Gates
    BY <1>1, <1>3 DEF At, GateTypeOK
  <2> QED
    BY <2>1, <2>2, <2>3, <1>2, <1>3 DEF GateTypeOK
<1>10. HoldersAreMapped'
  BY <1>2, <1>3 DEF HoldersAreMapped, Counted
<1>11. ReferencesCountHolders'
  <2>1. references'[g] = Cardinality(Holders(g)')
    BY <1>1, <1>4, <1>6 DEF GateTypeOK
  <2>2. \A h \in Gates \ {g} : references'[h] = references[h]
    BY <1>4 DEF GateTypeOK
  <2>3. \A h \in Gates \ {g} : references'[h] = Cardinality(Holders(h)')
    BY <2>2, <1>7 DEF ReferencesCountHolders
  <2> SUFFICES ASSUME NEW h \in Gates PROVE references'[h] = Cardinality(Holders(h)')
    BY DEF ReferencesCountHolders
  <2>4. CASE h = g
    BY <2>1, <2>4, <1>3 DEF Holders, Counted
  <2>5. CASE h # g
    BY <2>3, <2>5
  <2> QED
    BY <2>4, <2>5
<1>12. PermitIsLeased'
  <2>1. \A v \in Workers : (At(v, "leased")' <=> At(v, "leased")) /\ worker'[v].gate = worker[v].gate
    BY <1>1, <1>3 DEF At
  <2> QED
    BY <2>1, <1>2 DEF PermitIsLeased
<1>13. GatesDiffer'
  BY <1>2 DEF GatesDiffer
<1>14. NoGateLeaks'
  BY <1>2, <1>3 DEF NoGateLeaks, At
<1> QED
  BY <1>9, <1>10, <1>11, <1>12, <1>13, <1>14

\* A gate leaves the map with its last caller; one that stays has another.
LEMMA RemoveGateInv ==
  ASSUME GateInv, NEW w \in Workers, RemoveGate(w)
  PROVE  GateInv'
<1> USE DEF GateInv
<1> DEFINE g == worker[w].gate
           c == worker[w].chat
<1>1. At(w, "dropped") /\ ~Counted(w) /\ g \in Gates /\ c \in ChatIds
  BY DEF RemoveGate, At, Counted, GateTypeOK
<1>2. GoTo(w, "idle") /\ references' = references /\ permits' = permits
  BY DEF RemoveGate
<1>3. gateOf' = IF RemovesGate(w) THEN [gateOf EXCEPT ![c] = NoGate] ELSE gateOf
  BY DEF RemoveGate
<1>4. /\ worker'[w].at = "idle" /\ worker'[w].chat = c /\ worker'[w].gate = g
      /\ \A v \in Workers \ {w} : worker'[v] = worker[v]
      /\ worker' \in [Workers -> [at : Stages \cup {"idle"}, chat : ChatIds, gate : Gates \cup {NoGate}]]
  BY <1>2, Moved
<1>5. \A h : Holders(h)' = Holders(h)
  BY <1>1, <1>4 DEF Holders, Counted
<1>6. RemovesGate(w) => gateOf[c] = g /\ \A v \in Workers : Counted(v) => worker[v].chat # c
  <2> SUFFICES ASSUME RemovesGate(w), NEW v \in Workers, Counted(v), worker[v].chat = c
               PROVE  FALSE
    BY DEF RemovesGate
  <2>1. gateOf[c] = g /\ references[g] = 0
    BY DEF RemovesGate, CanRemove
  <2>2. v \in Holders(g)
    BY <2>1 DEF HoldersAreMapped, Holders
  <2> QED
    BY <2>1, <2>2, <1>1, HoldersFinite, FS_EmptySet DEF ReferencesCountHolders
<1>7. GateTypeOK'
  <2>1. Stages \cup {"idle"} = Stages
    BY DEF Stages
  <2>2. gateOf' \in [ChatIds -> Gates \cup {NoGate}]
    BY <1>3 DEF GateTypeOK
  <2>3. \A v \in Workers : ~At(v, "idle")' => worker'[v].gate \in Gates
    BY <1>1, <1>4 DEF At, GateTypeOK
  <2> QED
    BY <2>1, <2>2, <2>3, <1>2, <1>4 DEF GateTypeOK
<1>8. HoldersAreMapped'
  <2> SUFFICES ASSUME NEW v \in Workers, Counted(v)'
               PROVE  gateOf'[worker'[v].chat] = worker'[v].gate
    BY DEF HoldersAreMapped
  <2>1. v # w /\ Counted(v) /\ worker'[v] = worker[v] /\ worker[v].chat \in ChatIds
    BY <1>4 DEF Counted, GateTypeOK
  <2> QED
    BY <2>1, <1>3, <1>6 DEF HoldersAreMapped, GateTypeOK
<1>9. ReferencesCountHolders'
  BY <1>2, <1>5 DEF ReferencesCountHolders
<1>10. PermitIsLeased'
  <2>1. \A v \in Workers : (At(v, "leased")' <=> At(v, "leased")) /\ worker'[v].gate = worker[v].gate
    BY <1>1, <1>4 DEF At
  <2> QED
    BY <2>1, <1>2 DEF PermitIsLeased
<1>11. GatesDiffer'
  BY <1>3 DEF GatesDiffer, GateTypeOK
<1>12. NoGateLeaks'
  <2> SUFFICES ASSUME NEW d \in ChatIds, gateOf'[d] # NoGate
               PROVE  \E v \in Workers : ~At(v, "idle")' /\ worker'[v].chat = d /\ worker'[v].gate = gateOf'[d]
    BY DEF NoGateLeaks
  <2>1. gateOf'[d] = gateOf[d]
    BY <1>3 DEF GateTypeOK
  <2>2. PICK v \in Workers : ~At(v, "idle") /\ worker[v].chat = d /\ worker[v].gate = gateOf[d]
    BY <2>1 DEF NoGateLeaks
  <2>3. CASE v # w
    BY <2>1, <2>2, <2>3, <1>4 DEF At
  <2>4. CASE v = w
    <3>1. d = c /\ gateOf[c] = g /\ ~RemovesGate(w)
      BY <2>1, <2>2, <2>4, <1>3, <1>1 DEF GateTypeOK
    <3>2. Holders(g) # {}
      <4>1. CASE references[g] # 0
        BY <4>1, <1>1, FS_EmptySet DEF ReferencesCountHolders
      <4>2. CASE permits[g] = 0
        BY <4>2, <1>1 DEF PermitIsLeased, Holders, Counted, At
      <4> QED
        BY <4>1, <4>2, <3>1, <1>1 DEF RemovesGate, CanRemove, GateTypeOK
    <3>3. PICK u \in Workers : Counted(u) /\ worker[u].gate = g
      BY <3>2 DEF Holders
    <3>4. u # w /\ worker[u].chat = c
      BY <3>1, <3>3, <1>1, GateAssumption DEF HoldersAreMapped, GatesDiffer, GateTypeOK
    <3> QED
      BY <3>1, <3>3, <3>4, <2>1, <1>4 DEF At, Counted
  <2> QED
    BY <2>3, <2>4
<1> QED
  BY <1>7, <1>8, <1>9, <1>10, <1>11, <1>12

\* GateInv is an invariant of the guard.
THEOREM GateInvariant == GateSpec => []GateInv
<1>1. GateInv /\ [GateNext]_gateVars => GateInv'
  <2> SUFFICES ASSUME GateInv, [GateNext]_gateVars PROVE GateInv'
    OBVIOUS
  <2>1. CASE UNCHANGED gateVars
    BY <2>1 DEF gateVars, GateInv, GateTypeOK, HoldersAreMapped, ReferencesCountHolders,
       PermitIsLeased, GatesDiffer, NoGateLeaks, Holders, Counted, At
  <2>2. CASE GateNext
    BY <2>2, EnterInv, TryAcquireInv, ReleaseInv, DropReferenceInv, RemoveGateInv DEF GateNext
  <2> QED
    BY <2>1, <2>2
<1> QED
  BY <1>1, GateInitInv, PTL DEF GateSpec

\* The state of the guard has its type.
THEOREM GateType == GateSpec => []GateTypeOK
<1>1. GateInv => GateTypeOK
  BY DEF GateInv
<1> QED
  BY <1>1, GateInvariant, PTL

\* However many threads call the guard for however many chats, it keeps no
\* gate that nobody will remove.
THEOREM GatesAreRemoved == GateSpec => []NoGateLeaks
<1>1. GateInv => NoGateLeaks
  BY DEF GateInv
<1> QED
  BY <1>1, GateInvariant, PTL

-----------------------------------------------------------------------------
\* A lease is taken with the permit and given back with it.
LEMMA StepRefines ==
  ASSUME GateInv, [GateNext]_gateVars
  PROVE  [Lease!LeaseNext]_Leases
<1> USE DEF GateInv
<1> SUFFICES ASSUME GateNext PROVE [Lease!LeaseNext]_Leases
  BY DEF gateVars, Leases, At
<1>1. PICK w \in Workers :
        (\E c \in ChatIds : Enter(w, c)) \/ TryAcquire(w) \/ Release(w) \/ DropReference(w) \/ RemoveGate(w)
  BY DEF GateNext
<1>2. CASE (\E c \in ChatIds : Enter(w, c)) \/ DropReference(w) \/ RemoveGate(w)
           \/ (TryAcquire(w) /\ GoTo(w, "refused"))
  <2>1. /\ ~At(w, "leased")
        /\ worker'[w].at # "leased"
        /\ \A v \in Workers \ {w} : worker'[v] = worker[v]
    BY <1>2, Moved DEF Enter, DropReference, RemoveGate, TryAcquire, At, GateTypeOK
  <2>2. Leases' = Leases
    BY <2>1 DEF Leases, At
  <2> QED
    BY <2>2
<1>3. CASE TryAcquire(w) /\ ~GoTo(w, "refused")
  <2> DEFINE c == worker[w].chat
             g == worker[w].gate
  <2>1. GoTo(w, "leased") /\ permits[g] # 0 /\ Counted(w) /\ c \in ChatIds
    BY <1>3 DEF TryAcquire, GateTypeOK, At, Counted
  <2>2. /\ worker'[w].at = "leased" /\ worker'[w].chat = c
        /\ \A v \in Workers \ {w} : worker'[v] = worker[v]
    BY <2>1, Moved
  <2>3. \A v \in Workers : At(v, "leased") => worker[v].chat # c
    BY <2>1 DEF HoldersAreMapped, PermitIsLeased, Counted, At
  <2>4. Leases' = Leases \cup {<<w, c>>}
    BY <2>2, <2>3 DEF Leases, At
  <2>5. Lease!Take(w, c)
    BY <2>3, <2>4 DEF Lease!Take, Leases
  <2> QED
    BY <2>1, <2>5 DEF Lease!LeaseNext
<1>4. CASE Release(w)
  <2> DEFINE c == worker[w].chat
  <2>1. GoTo(w, "releasing") /\ At(w, "leased") /\ c \in ChatIds
    BY <1>4 DEF Release, GateTypeOK
  <2>2. /\ worker'[w].at = "releasing" /\ worker'[w].chat = c
        /\ \A v \in Workers \ {w} : worker'[v] = worker[v]
    BY <2>1, Moved
  <2>3. <<w, c>> \in Leases /\ Leases' = Leases \ {<<w, c>>}
    BY <2>1, <2>2 DEF Leases, At
  <2> QED
    BY <2>1, <2>3 DEF Lease!GiveBack, Lease!LeaseNext
<1> QED
  BY <1>1, <1>2, <1>3, <1>4

\* At most one thread generates the answer of a chat: AiResponseGenerationGuard
\* implements GenerationLease, for any number of threads, chats and gates.
THEOREM GateRefinesLease == GateSpec => GateImplementsLease
<1>1. GateInit => Lease!LeaseInit
  BY DEF GateInit, Lease!LeaseInit, Leases, At
<1>2. GateInv /\ [GateNext]_gateVars => [Lease!LeaseNext]_Leases
  BY StepRefines
<1> QED
  BY <1>1, <1>2, GateInvariant, PTL DEF GateSpec, GateImplementsLease, Lease!LeaseSpec

-----------------------------------------------------------------------------
(***************************************************************************)
(* Proofs about ChatRuntime: its type, that the row stays consistent, that    *)
(* the messages are numbered in order, and that the assistant yields to a     *)
(* counselor.                                                               *)
(*                                                                         *)
(* The inductive invariant adds what the waiting processes rely on: a row      *)
(* read without the lock was consistent and allowed its change, and while the *)
(* demo holds the row its number is the next one and nobody silenced the       *)
(* assistant.                                                                *)
(***************************************************************************)

ReadRowsConsistent ==
  \A w \in Writers : writer[w].change # "none" =>
    Consistent(writer[w].row) /\ May(writer[w].change, writer[w].row)

SilencedIsKept == silenced => overwritten \/ ~AllowsAiAutoResponse(row)

DemoHoldsRow ==
  ~RowFree =>
    /\ demo.seqNo = Len(posted) + 1
    /\ demo.answers => ~silenced \/ overwritten

ChatInv ==
  /\ ChatRuntimeTypeOK
  /\ RowConsistent
  /\ ReadRowsConsistent
  /\ NumberedInOrder
  /\ SilencedIsKept
  /\ DemoHoldsRow

Posted == Seq([seqNo : Nat, role : Roles])

-----------------------------------------------------------------------------
(* The messages.                                                             *)

\* The next number follows the number of messages.
LEMMA NextSeqNoIs ==
  ASSUME posted \in Posted, NumberedInOrder
  PROVE  NextSeqNo = Len(posted) + 1
<1>1. CASE posted = <<>>
  BY <1>1 DEF NextSeqNo
<1>2. CASE posted # <<>>
  <2>1. Len(posted) \in DOMAIN posted
    BY <1>2 DEF Posted
  <2> QED
    BY <1>2, <2>1 DEF NextSeqNo, NumberedInOrder
<1> QED
  BY <1>1, <1>2

\* A message with the next number continues the numbers.
LEMMA NumberAppends ==
  ASSUME posted \in Posted, NumberedInOrder, NEW role \in Roles,
         posted' = Append(posted, ChatMessage(Len(posted) + 1, role))
  PROVE  /\ posted' \in Posted
         /\ NumberedInOrder'
         /\ \A i \in DOMAIN posted' \ DOMAIN posted : posted'[i].role = role
<1> DEFINE m == ChatMessage(Len(posted) + 1, role)
<1>1. posted' = Append(posted, m)
  OBVIOUS
<1>2. m \in [seqNo : Nat, role : Roles] /\ m.seqNo = Len(posted) + 1 /\ m.role = role
  BY DEF ChatMessage, Posted
<1>3. /\ posted' \in Posted
      /\ Len(posted') = Len(posted) + 1
      /\ \A i \in 1..Len(posted) : posted'[i] = posted[i]
      /\ posted'[Len(posted) + 1] = m
  BY <1>1, <1>2, AppendProperties DEF Posted
<1>4. DOMAIN posted = 1..Len(posted) /\ DOMAIN posted' = 1..(Len(posted) + 1) /\ Len(posted) \in Nat
  BY <1>3 DEF Posted
<1>5. NumberedInOrder'
  BY <1>2, <1>3, <1>4 DEF NumberedInOrder
<1> QED
  BY <1>2, <1>3, <1>4, <1>5

\* So a posted message comes last and continues them.
LEMMA PostAppends ==
  ASSUME posted \in Posted, NumberedInOrder, NEW role \in Roles, Post(role)
  PROVE  /\ posted' \in Posted
         /\ NumberedInOrder'
         /\ \A i \in DOMAIN posted' \ DOMAIN posted : posted'[i].role = role
<1>1. posted' = Append(posted, ChatMessage(Len(posted) + 1, role))
  BY NextSeqNoIs DEF Post
<1> QED
  BY <1>1, NumberAppends

\* So do the demo's message and its answer.
LEMMA DemoAppends ==
  ASSUME posted \in Posted, NumberedInOrder, demo.seqNo = Len(posted) + 1,
         posted' = posted \o <<ChatMessage(demo.seqNo, "USER"), ChatMessage(demo.seqNo + 1, "ASSISTANT")>>
  PROVE  posted' \in Posted /\ NumberedInOrder'
<1> DEFINE n == Len(posted)
           m1 == ChatMessage(n + 1, "USER")
           m2 == ChatMessage(n + 2, "ASSISTANT")
<1>0. n \in Nat
  BY DEF Posted
<1>1. posted' = posted \o <<m1, m2>>
  BY <1>0
<1>2. m1 \in [seqNo : Nat, role : Roles] /\ m2 \in [seqNo : Nat, role : Roles]
  BY <1>0 DEF ChatMessage, Roles
<1>3. <<m1, m2>> \in Posted
  BY <1>2 DEF Posted
<1>4. /\ posted' \in Posted
      /\ Len(posted') = n + 2
      /\ \A i \in 1..(n + 2) : posted'[i] = IF i <= n THEN posted[i] ELSE <<m1, m2>>[i - n]
  <2> HIDE DEF m1, m2
  <2> QED
    BY <1>1, <1>2, <1>3, ConcatProperties DEF Posted
<1>5. \A i \in 1..n : posted[i].seqNo = i
  BY DEF NumberedInOrder, Posted
<1>6. m1.seqNo = n + 1 /\ m2.seqNo = n + 2
  BY DEF ChatMessage
<1>7. posted'[n + 1] = m1 /\ posted'[n + 2] = m2 /\ \A i \in 1..n : posted'[i] = posted[i]
  BY <1>0, <1>4
<1>8. \A i \in 1..(n + 2) : posted'[i].seqNo = i
  BY <1>0, <1>5, <1>6, <1>7
<1> QED
  BY <1>4, <1>8 DEF NumberedInOrder, Posted

-----------------------------------------------------------------------------
(* The row.                                                                  *)

\* What is done to a consistent row leaves a consistent one.
LEMMA ChangedConsistent ==
  ASSUME NEW r \in Rows, NEW change \in Changes, Consistent(r), May(change, r)
  PROVE  Changed(change, r) \in Rows /\ Consistent(Changed(change, r))
<1>1. CASE change = "activate"
  BY <1>1 DEF Changed, May, Consistent, Rows, Statuses, Modes, AllowsAiAutoResponse
<1>2. CASE change = "resolve"
  BY <1>2 DEF Changed, May, Consistent, Rows, Statuses, Modes, AllowsAiAutoResponse
<1>3. CASE change = "closeSession"
  BY <1>3 DEF Changed, May, Consistent, Rows, Statuses, Modes, AllowsAiAutoResponse
<1>4. CASE change = "reopen"
  BY <1>4 DEF Changed, May, Consistent, Rows, Statuses, Modes, AllowsAiAutoResponse, NewRow
<1>5. CASE change = "recordHandoff"
  BY <1>5 DEF Changed
<1> QED
  BY <1>1, <1>2, <1>3, <1>4, <1>5 DEF Changes

\* Only a reopening gives the session back to the assistant.
LEMMA ChangedMode ==
  ASSUME NEW r \in Rows, NEW change \in Changes, change # "reopen"
  PROVE  Changed(change, r).mode = r.mode
BY DEF Changed, Changes, Rows

LEMMA ChatInitInv == ChatInit => ChatInv
<1> SUFFICES ASSUME ChatInit PROVE ChatInv
  OBVIOUS
<1> USE DEF ChatInit, NewRow, NoWriter, NoDemo
<1>1. posted \in Posted /\ NumberedInOrder
  BY DEF Posted, NumberedInOrder, ChatMessage, Roles
<1>2. ChatRuntimeTypeOK
  BY <1>1 DEF ChatRuntimeTypeOK, Posted, Rows, Statuses, Modes, Roles
<1>3. RowConsistent /\ SilencedIsKept
  BY DEF RowConsistent, Consistent, AllowsAiAutoResponse, SilencedIsKept
<1>4. ReadRowsConsistent /\ DemoHoldsRow
  BY DEF ReadRowsConsistent, DemoHoldsRow, RowFree
<1> QED
  BY <1>1, <1>2, <1>3, <1>4 DEF ChatInv

\* A locked step that keeps the waiting processes as they are.
LEMMA LockedStep ==
  ASSUME ChatInv, RowFree,
         row' \in Rows, Consistent(row'),
         posted' \in Posted, NumberedInOrder',
         silenced' \in BOOLEAN, silenced' => overwritten \/ ~AllowsAiAutoResponse(row'),
         UNCHANGED <<handler, demo, leases, writer, overwritten>>
  PROVE  ChatInv'
<1> USE DEF ChatInv
<1>1. ChatRuntimeTypeOK'
  BY DEF ChatRuntimeTypeOK, Posted
<1>2. RowConsistent' /\ SilencedIsKept'
  BY DEF RowConsistent, Consistent, SilencedIsKept, AllowsAiAutoResponse
<1>3. ReadRowsConsistent' /\ DemoHoldsRow'
  BY DEF ReadRowsConsistent, DemoHoldsRow, RowFree, Consistent, May, AllowsAiAutoResponse
<1> QED
  BY <1>1, <1>2, <1>3

LEMMA CounselorInv ==
  ASSUME ChatInv, NEW c \in Counselors, CounselorActs(c)
  PROVE  ChatInv'
<1> USE DEF ChatInv
<1>1. posted \in Posted /\ row \in Rows /\ Consistent(row) /\ c # NoCounselor /\ silenced \in BOOLEAN
  BY NoCounselorAssumption DEF ChatRuntimeTypeOK, Posted, RowConsistent
<1>2. CASE AssignSession(c)
  <2>1. posted' \in Posted /\ NumberedInOrder'
    BY <1>1, <1>2, PostAppends DEF AssignSession, Roles
  <2>2. row' \in Rows /\ Consistent(row') /\ ~AllowsAiAutoResponse(row')
    BY <1>1, <1>2 DEF AssignSession, AssignTo, Rows, Statuses, Modes, Consistent, AllowsAiAutoResponse
  <2> QED
    BY <1>2, <2>1, <2>2, LockedStep DEF AssignSession
<1>3. CASE ReleaseSession(c)
  <2>1. row' \in Rows /\ Consistent(row')
    BY <1>1, <1>3 DEF ReleaseSession, ReleaseFrom, Rows, Statuses, Modes, Consistent, AllowsAiAutoResponse
  <2>2. posted' \in Posted /\ NumberedInOrder'
    BY <1>1, <1>3 DEF ReleaseSession, NumberedInOrder
  <2> QED
    BY <1>3, <2>1, <2>2, LockedStep DEF ReleaseSession
<1>4. CASE SendCounselorMessage(c)
  <2>1. posted' \in Posted /\ NumberedInOrder'
    BY <1>1, <1>4, PostAppends DEF SendCounselorMessage, Roles
  <2>2. CASE row' = [row EXCEPT !.mode = "HUMAN_ACTIVE"] /\ silenced' = TRUE
    <3>1. row' \in Rows /\ Consistent(row') /\ ~AllowsAiAutoResponse(row')
      BY <1>1, <1>4, <2>2 DEF SendCounselorMessage, Rows, Modes, Consistent, AllowsAiAutoResponse
    <3> QED
      BY <1>4, <2>1, <2>2, <3>1, LockedStep DEF SendCounselorMessage
  <2>3. CASE UNCHANGED <<row, silenced>>
    BY <1>1, <1>4, <2>1, <2>3, LockedStep DEF SendCounselorMessage, SilencedIsKept
  <2> QED
    BY <1>4, <2>2, <2>3 DEF SendCounselorMessage
<1>5. CASE \E mode \in Modes : UpdateResponseMode(c, mode)
  <2>1. PICK mode \in Modes : UpdateResponseMode(c, mode)
    BY <1>5
  <2>2. row' \in Rows /\ Consistent(row') /\ (mode # "AI_ACTIVE" => ~AllowsAiAutoResponse(row'))
    BY <1>1, <2>1 DEF UpdateResponseMode, MaySwitchTo, Rows, Consistent, AllowsAiAutoResponse
  <2>3. posted' \in Posted /\ NumberedInOrder'
    BY <1>1, <2>1 DEF UpdateResponseMode, NumberedInOrder
  <2> QED
    BY <2>1, <2>2, <2>3, LockedStep DEF UpdateResponseMode
<1> QED
  BY <1>2, <1>3, <1>4, <1>5 DEF CounselorActs

LEMMA WriterInv ==
  ASSUME ChatInv, NEW w \in Writers, (\E change \in Changes : ReadRow(w, change)) \/ WriteRow(w)
  PROVE  ChatInv'
<1> USE DEF ChatInv
<1>1. CASE \E change \in Changes : ReadRow(w, change)
  <2>1. PICK change \in Changes : ReadRow(w, change)
    BY <1>1
  <2>2. ChatRuntimeTypeOK'
    BY <2>1 DEF ReadRow, ChatRuntimeTypeOK
  <2>3. ReadRowsConsistent'
    BY <2>1 DEF ReadRow, ReadRowsConsistent, RowConsistent, ChatRuntimeTypeOK
  <2>4. RowConsistent' /\ NumberedInOrder' /\ SilencedIsKept' /\ DemoHoldsRow'
    BY <2>1 DEF ReadRow, RowConsistent, Consistent, NumberedInOrder, SilencedIsKept, AllowsAiAutoResponse, DemoHoldsRow, RowFree
  <2> QED
    BY <2>2, <2>3, <2>4
<1>2. CASE WriteRow(w)
  <2> DEFINE r == writer[w].row
             change == writer[w].change
  <2>1. r \in Rows /\ change \in Changes /\ Consistent(r) /\ May(change, r)
    BY <1>2 DEF WriteRow, ChatRuntimeTypeOK, ReadRowsConsistent
  <2>2. row' = Changed(change, r) /\ row' \in Rows /\ Consistent(Changed(change, r))
    BY <1>2, <2>1, ChangedConsistent DEF WriteRow
  <2>3. NoWriter \in [change : Changes \cup {"none"}, row : Rows]
    BY DEF NoWriter, NewRow, Rows, Statuses, Modes
  <2>4. writer' = [writer EXCEPT ![w] = NoWriter] /\ NoWriter.change = "none"
    BY <1>2 DEF WriteRow, NoWriter
  <2>5. ChatRuntimeTypeOK'
    BY <1>2, <2>2, <2>3, <2>4 DEF WriteRow, ChatRuntimeTypeOK
  <2>6. ReadRowsConsistent'
    BY <2>4 DEF ReadRowsConsistent, ChatRuntimeTypeOK
  <2>7. RowConsistent' /\ NumberedInOrder'
    BY <1>2, <2>2 DEF WriteRow, RowConsistent, NumberedInOrder
  <2>8. SilencedIsKept'
    <3> SUFFICES ASSUME silenced', ~overwritten' PROVE ~AllowsAiAutoResponse(row)'
      BY DEF SilencedIsKept
    <3>1. silenced /\ change # "reopen" /\ ~overwritten /\ r = row
      BY <1>2 DEF WriteRow
    <3>2. row'.mode = row.mode
      BY <2>1, <2>2, <3>1, ChangedMode
    <3> QED
      BY <3>1, <3>2 DEF SilencedIsKept, AllowsAiAutoResponse
  <2>9. DemoHoldsRow'
    BY <1>2 DEF WriteRow, RowFree, DemoHoldsRow
  <2> QED
    BY <2>5, <2>6, <2>7, <2>8, <2>9
<1> QED
  BY <1>1, <1>2

LEMMA MessageInv ==
  ASSUME ChatInv, SaveAndBroadcast \/ SendMessage
  PROVE  ChatInv'
<1> USE DEF ChatInv
<1>1. posted \in Posted
  BY DEF ChatRuntimeTypeOK, Posted
<1>2. posted' \in Posted /\ NumberedInOrder'
  BY <1>1, PostAppends DEF SaveAndBroadcast, SendMessage, Roles
<1>3. handler' \in [Handlers -> {"idle", "received", "allowed", "generating"}]
  BY DEF SaveAndBroadcast, SendMessage, ChatRuntimeTypeOK
<1>4. RowFree /\ UNCHANGED <<row, demo, leases, writer, silenced, overwritten>>
  BY DEF SaveAndBroadcast, SendMessage
<1>5. ChatRuntimeTypeOK'
  BY <1>2, <1>3, <1>4 DEF ChatRuntimeTypeOK, Posted
<1>6. RowConsistent' /\ ReadRowsConsistent' /\ SilencedIsKept'
  BY <1>4 DEF RowConsistent, Consistent, ReadRowsConsistent, May, SilencedIsKept, AllowsAiAutoResponse
<1>7. DemoHoldsRow'
  BY <1>4 DEF RowFree, DemoHoldsRow
<1> QED
  BY <1>2, <1>5, <1>6, <1>7

LEMMA HandlerInv ==
  ASSUME ChatInv, NEW h \in Handlers, LoadContext(h) \/ TryEnter(h) \/ SaveAssistantMessage(h)
  PROVE  ChatInv'
<1> USE DEF ChatInv
<1>1. posted \in Posted
  BY DEF ChatRuntimeTypeOK, Posted
<1>2. UNCHANGED <<row, demo, writer, silenced, overwritten>>
  BY DEF LoadContext, TryEnter, SaveAssistantMessage
<1>3. handler' \in [Handlers -> {"idle", "received", "allowed", "generating"}]
  BY DEF LoadContext, TryEnter, SaveAssistantMessage, ChatRuntimeTypeOK
<1>4. leases' \subseteq (Handlers \cup {Demo}) \X {Chat}
  BY DEF LoadContext, TryEnter, SaveAssistantMessage, ChatRuntimeTypeOK, Generation!Take, Generation!GiveBack
<1>5. posted' \in Posted /\ NumberedInOrder' /\ (posted' = posted \/ RowFree)
  <2>1. CASE posted' = posted
    BY <1>1, <2>1 DEF NumberedInOrder
  <2>2. CASE posted' # posted
    <3>1. RowFree /\ Post("ASSISTANT")
      BY <2>2 DEF LoadContext, TryEnter, SaveAssistantMessage
    <3> QED
      BY <1>1, <3>1, PostAppends DEF Roles
  <2> QED
    BY <2>1, <2>2
<1>6. ChatRuntimeTypeOK'
  BY <1>2, <1>3, <1>4, <1>5 DEF ChatRuntimeTypeOK, Posted
<1>7. RowConsistent' /\ ReadRowsConsistent' /\ SilencedIsKept'
  BY <1>2 DEF RowConsistent, Consistent, ReadRowsConsistent, May, SilencedIsKept, AllowsAiAutoResponse
<1>8. DemoHoldsRow'
  BY <1>2, <1>5 DEF RowFree, DemoHoldsRow
<1> QED
  BY <1>5, <1>6, <1>7, <1>8

LEMMA DemoInv ==
  ASSUME ChatInv, DemoEnters \/ DemoReadsRow \/ DemoLeaves \/ DemoCommits
  PROVE  ChatInv'
<1> USE DEF ChatInv
<1>1. posted \in Posted
  BY DEF ChatRuntimeTypeOK, Posted
<1>2. UNCHANGED <<row, handler, writer, silenced, overwritten>>
  BY DEF DemoEnters, DemoReadsRow, DemoLeaves, DemoCommits
<1>3. leases' \subseteq (Handlers \cup {Demo}) \X {Chat}
  BY DEF DemoEnters, DemoReadsRow, DemoLeaves, DemoCommits, ChatRuntimeTypeOK, Generation!Take, Generation!GiveBack
<1>4. NextSeqNo = Len(posted) + 1 /\ NextSeqNo \in Nat
  BY <1>1, NextSeqNoIs DEF Posted
<1>5. demo' \in [at : {"idle", "entered", "holding", "leaving"}, seqNo : Nat, answers : BOOLEAN]
  <2>1. AllowsAiAutoResponse(row) \in BOOLEAN
    BY DEF AllowsAiAutoResponse
  <2>2. CASE DemoReadsRow
    BY <1>4, <2>1, <2>2 DEF DemoReadsRow
  <2>3. CASE DemoEnters \/ DemoLeaves
    BY <2>3 DEF DemoEnters, DemoLeaves, ChatRuntimeTypeOK
  <2>4. CASE DemoCommits
    BY <2>4 DEF DemoCommits, NoDemo
  <2> QED
    BY <2>2, <2>3, <2>4
<1>6. posted' \in Posted /\ NumberedInOrder'
  <2>1. CASE posted' = posted
    BY <1>1, <2>1 DEF NumberedInOrder
  <2>2. CASE posted' # posted
    <3>1. DemoCommits /\ demo.seqNo = Len(posted) + 1
      BY <2>2 DEF DemoEnters, DemoReadsRow, DemoLeaves, DemoCommits, DemoHoldsRow, RowFree
    <3>2. CASE posted' = Append(posted, ChatMessage(demo.seqNo, "USER"))
      BY <1>1, <3>1, <3>2, NumberAppends DEF Roles
    <3>3. CASE posted' = posted \o <<ChatMessage(demo.seqNo, "USER"), ChatMessage(demo.seqNo + 1, "ASSISTANT")>>
      BY <1>1, <3>1, <3>3, DemoAppends
    <3> QED
      BY <2>2, <3>1, <3>2, <3>3 DEF DemoCommits
  <2> QED
    BY <2>1, <2>2
<1>7. DemoHoldsRow'
  <2>1. CASE DemoEnters \/ DemoCommits
    BY <2>1 DEF DemoEnters, DemoCommits, NoDemo, DemoHoldsRow, RowFree, ChatRuntimeTypeOK
  <2>2. CASE DemoReadsRow
    BY <2>2, <1>2, <1>4 DEF DemoReadsRow, DemoHoldsRow, SilencedIsKept
  <2>3. CASE DemoLeaves
    BY <2>3, <1>2 DEF DemoLeaves, DemoHoldsRow, RowFree, ChatRuntimeTypeOK
  <2> QED
    BY <2>1, <2>2, <2>3
<1>8. ChatRuntimeTypeOK'
  BY <1>2, <1>3, <1>5, <1>6 DEF ChatRuntimeTypeOK, Posted
<1>9. RowConsistent' /\ ReadRowsConsistent' /\ SilencedIsKept'
  BY <1>2 DEF RowConsistent, Consistent, ReadRowsConsistent, May, SilencedIsKept, AllowsAiAutoResponse
<1> QED
  BY <1>6, <1>7, <1>8, <1>9

LEMMA StutterInv ==
  ASSUME ChatInv, UNCHANGED chatVars
  PROVE  ChatInv'
BY DEF ChatInv, chatVars, ChatRuntimeTypeOK, RowConsistent, Consistent, ReadRowsConsistent, May,
   NumberedInOrder, SilencedIsKept, AllowsAiAutoResponse, DemoHoldsRow, RowFree

\* ChatInv is an invariant of the session.
THEOREM ChatInvariant == ChatSpec => []ChatInv
<1>1. ChatInv /\ [ChatNext]_chatVars => ChatInv'
  BY StutterInv, MessageInv, CounselorInv, WriterInv, HandlerInv, DemoInv DEF ChatNext
<1> QED
  BY <1>1, ChatInitInv, PTL DEF ChatSpec

\* The state of the session has its type.
THEOREM ChatRuntimeType == ChatSpec => []ChatRuntimeTypeOK
<1>1. ChatInv => ChatRuntimeTypeOK
  BY DEF ChatInv
<1> QED
  BY <1>1, ChatInvariant, PTL

\* The row is consistent whatever counselors, the demo and stale writers do.
THEOREM RowStaysConsistent == ChatSpec => []RowConsistent
<1>1. ChatInv => RowConsistent
  BY DEF ChatInv
<1> QED
  BY <1>1, ChatInvariant, PTL

\* The messages are numbered in the order of their commits.
THEOREM MessagesNumbered == ChatSpec => []NumberedInOrder
<1>1. ChatInv => NumberedInOrder
  BY DEF ChatInv
<1> QED
  BY <1>1, ChatInvariant, PTL

-----------------------------------------------------------------------------
\* A step that posts an answer of the assistant's.
LEMMA StepYields ==
  ASSUME ChatInv, [ChatNext]_chatVars
  PROVE  \A i \in DOMAIN posted' \ DOMAIN posted :
           posted'[i].role = "ASSISTANT" => ~silenced \/ overwritten
<1> USE DEF ChatInv
<1>1. posted \in Posted
  BY DEF ChatRuntimeTypeOK, Posted
<1>2. CASE posted' = posted
  BY <1>2
<1>3. CASE \E role \in Roles \ {"ASSISTANT"} : Post(role)
  BY <1>1, <1>3, PostAppends
<1>4. CASE \E h \in Handlers : SaveAssistantMessage(h) /\ MayAnswer
  BY <1>4 DEF MayAnswer, SilencedIsKept
<1>5. CASE DemoCommits
  <2>1. CASE demo.answers
    BY <1>5, <2>1 DEF DemoCommits, DemoHoldsRow, RowFree
  <2>2. CASE posted' = Append(posted, ChatMessage(demo.seqNo, "USER"))
    <3>1. demo.seqNo = Len(posted) + 1
      BY <1>5 DEF DemoCommits, DemoHoldsRow, RowFree
    <3> QED
      BY <1>1, <2>2, <3>1, NumberAppends DEF Roles
  <2> QED
    BY <1>2, <1>5, <2>1, <2>2 DEF DemoCommits
<1>6. CASE ChatNext
  BY <1>2, <1>3, <1>4, <1>5, <1>6 DEF ChatNext, SaveAndBroadcast, SendMessage, CounselorActs, AssignSession,
     ReleaseSession, SendCounselorMessage, UpdateResponseMode, ReadRow, WriteRow, LoadContext, TryEnter,
     SaveAssistantMessage, DemoEnters, DemoReadsRow, DemoLeaves, Roles
<1> QED
  BY <1>2, <1>6 DEF chatVars

\* The assistant yields to a counselor: for any number of counselors, answers
\* being generated and rows read without the lock.
THEOREM AssistantAlwaysYields == ChatSpec => AssistantYields
<1>1. ChatInv /\ [ChatNext]_chatVars =>
        [\A i \in DOMAIN posted' \ DOMAIN posted :
           posted'[i].role = "ASSISTANT" => ~silenced \/ overwritten]_chatVars
  BY StepYields
<1> QED
  BY <1>1, ChatInvariant, PTL DEF ChatSpec, AssistantYields

-----------------------------------------------------------------------------
(***************************************************************************)
(* Proofs about SimulationReview, for any number of threads and of tasks.     *)
(***************************************************************************)

\* What a thread has read, and that a candidate under review has a task.
RowsRead ==
  /\ candidate.status = "READY_FOR_REVIEW" => candidate.task \in Tasks
  /\ \A r \in Reviewers :
       /\ reviewer[r].at \in {"submitting", "tasked"} => reviewer[r].row.status = "DRAFT"
       /\ reviewer[r].at = "tasked" => reviewer[r].task \in Tasks
       /\ reviewer[r].at = "deciding" =>
            /\ reviewer[r].row.status = "READY_FOR_REVIEW"
            /\ reviewer[r].row.task \in Tasks

ReviewInv == ReviewTypeOK /\ RowsRead /\ DecidedOnce

-----------------------------------------------------------------------------
(* The operators.                                                            *)

LEMMA StatusAfter ==
  /\ CandidateAfter("APPROVED") = "APPLIED" /\ CandidateAfter("REJECTED") = "REJECTED"
  /\ FeedbackAfter("APPROVED") = "RESOLVED" /\ FeedbackAfter("REJECTED") = "DISMISSED"
BY DEF CandidateAfter, FeedbackAfter

\* A decision's record tells which decision it was.
LEMMA OneDecision ==
  /\ <<"APPROVED">> # <<"REJECTED">>
  /\ <<"APPROVED">> # <<>> /\ <<"REJECTED">> # <<>>
OBVIOUS

LEMMA IdleType == Idle \in [at : {"idle", "submitting", "tasked", "deciding"},
                            row : Candidates, task : Tasks \cup {NoTask}]
BY DEF Idle, NoCandidate, Candidates

\* Nothing is decided while the feedback still awaits a decision.
LEMMA Undecided ==
  ASSUME ReviewInv, MayBeDecided
  PROVE  decisions = <<>> /\ \A t \in Tasks : tasks[t] # "RESOLVED"
<1>1. \A d \in Decisions : feedback # FeedbackAfter(d)
  BY StatusAfter DEF MayBeDecided, Decisions
<1>2. decisions = <<>>
  BY <1>1 DEF ReviewInv, DecidedOnce, Decisions
<1> QED
  BY <1>2 DEF ReviewInv, DecidedOnce

-----------------------------------------------------------------------------
(* Type correctness and what the threads have read.                          *)

LEMMA InitReview == ReviewInit => ReviewInv
<1> SUFFICES ASSUME ReviewInit PROVE ReviewInv
  OBVIOUS
<1> USE DEF ReviewInit
<1>1. ReviewTypeOK
  <2>1. reviewer \in [Reviewers -> [at : {"idle", "submitting", "tasked", "deciding"},
                                   row : Candidates, task : Tasks \cup {NoTask}]]
    BY IdleType
  <2>2. feedback \in FeedbackStatuses /\ candidate \in Candidates /\ reverted \in BOOLEAN
    BY DEF FeedbackStatuses, Candidates, NoCandidate
  <2>3. tasks \in [Tasks -> TaskStatuses] /\ decisions \in Seq(Decisions)
    BY DEF TaskStatuses
  <2> QED
    BY <2>1, <2>2, <2>3 DEF ReviewTypeOK
<1>2. RowsRead
  BY DEF RowsRead, Idle, NoCandidate
<1>3. DecidedOnce
  BY StatusAfter, OneDecision DEF DecidedOnce, Decisions, NoCandidate
<1> QED
  BY <1>1, <1>2, <1>3 DEF ReviewInv

LEMMA ReviewStepType == ReviewInv /\ [ReviewNext]_reviewVars => ReviewTypeOK'
<1> SUFFICES ASSUME ReviewInv, [ReviewNext]_reviewVars PROVE ReviewTypeOK'
  OBVIOUS
<1> USE DEF ReviewInv, ReviewTypeOK
<1>1. CASE UNCHANGED reviewVars
  BY <1>1 DEF reviewVars
<1>2. CASE CreateFromFeedback
  BY <1>2 DEF CreateFromFeedback, FeedbackStatuses, Candidates
<1>3. ASSUME NEW r \in Reviewers, BeginSubmit(r) \/ BeginDecision(r) PROVE ReviewTypeOK'
  <2>1. PICK at \in {"submitting", "deciding"} :
          /\ reviewer' = [reviewer EXCEPT ![r].at = at, ![r].row = candidate]
          /\ UNCHANGED <<feedback, candidate, tasks, decisions, reverted>>
    BY ONLY <1>3, ReviewInv DEF BeginSubmit, BeginDecision, Read
  <2>2. reviewer' \in [Reviewers -> [at : {"idle", "submitting", "tasked", "deciding"},
                                    row : Candidates, task : Tasks \cup {NoTask}]]
    BY <2>1
  <2> QED
    BY <2>1, <2>2
<1>4. ASSUME NEW r \in Reviewers, EnsureReviewTask(r) PROVE ReviewTypeOK'
  BY <1>4 DEF EnsureReviewTask, TaskStatuses
<1>5. ASSUME NEW r \in Reviewers, SubmitForReview(r) PROVE ReviewTypeOK'
  BY <1>5, IdleType DEF SubmitForReview, WriteBack, Rest, TaskStatuses, Candidates, RowsRead
<1>6. ASSUME NEW r \in Reviewers, RollBack(r) PROVE ReviewTypeOK'
  BY <1>6, IdleType DEF RollBack, Rest, TaskStatuses
<1>7. ASSUME NEW r \in Reviewers, NEW d \in Decisions, Decide(r, d) PROVE ReviewTypeOK'
  <2>1. candidate' \in Candidates /\ feedback' \in FeedbackStatuses
    BY <1>7 DEF Decide, WriteBack, CandidateAfter, FeedbackAfter, Candidates, FeedbackStatuses
  <2>2. decisions' \in Seq(Decisions)
    BY <1>7 DEF Decide
  <2>3. tasks' \in [Tasks -> TaskStatuses] /\ reverted' \in BOOLEAN
    BY <1>7 DEF Decide, WriteBack, TaskStatuses
  <2> QED
    BY <1>7, <2>1, <2>2, <2>3, IdleType DEF Decide, Rest
<1> QED
  BY <1>1, <1>2, <1>3, <1>4, <1>5, <1>6, <1>7 DEF ReviewNext

LEMMA StepRows == ReviewInv /\ [ReviewNext]_reviewVars => RowsRead'
<1> SUFFICES ASSUME ReviewInv, [ReviewNext]_reviewVars PROVE RowsRead'
  OBVIOUS
<1> USE DEF ReviewInv, ReviewTypeOK, RowsRead
<1>1. CASE UNCHANGED reviewVars
  BY <1>1 DEF reviewVars
<1>2. CASE CreateFromFeedback
  BY <1>2 DEF CreateFromFeedback
<1>3. ASSUME NEW r \in Reviewers, BeginSubmit(r) \/ BeginDecision(r) PROVE RowsRead'
  BY <1>3 DEF BeginSubmit, BeginDecision, Read
<1>4. ASSUME NEW r \in Reviewers, EnsureReviewTask(r) PROVE RowsRead'
  BY <1>4 DEF EnsureReviewTask
<1>5. ASSUME NEW r \in Reviewers, SubmitForReview(r) PROVE RowsRead'
  BY <1>5 DEF SubmitForReview, WriteBack, Rest, Idle
<1>6. ASSUME NEW r \in Reviewers, RollBack(r) PROVE RowsRead'
  BY <1>6 DEF RollBack, Rest, Idle
<1>7. ASSUME NEW r \in Reviewers, NEW d \in Decisions, Decide(r, d) PROVE RowsRead'
  BY <1>7 DEF Decide, WriteBack, Rest, Idle, CandidateAfter, Candidates
<1> QED
  BY <1>1, <1>2, <1>3, <1>4, <1>5, <1>6, <1>7 DEF ReviewNext

-----------------------------------------------------------------------------
(* One decision.                                                             *)

LEMMA StepDecided == ReviewInv /\ [ReviewNext]_reviewVars => DecidedOnce'
<1> SUFFICES ASSUME ReviewInv, [ReviewNext]_reviewVars PROVE DecidedOnce'
  OBVIOUS
<1> USE DEF ReviewInv
<1>1. CASE UNCHANGED reviewVars
  BY <1>1 DEF reviewVars, DecidedOnce
<1>2. CASE CreateFromFeedback
  <2>1. decisions = <<>> /\ decisions' = <<>>
    BY <1>2, Undecided DEF CreateFromFeedback, MayBeDecided
  <2> QED
    BY <1>2, <2>1, StatusAfter, OneDecision DEF CreateFromFeedback, DecidedOnce, Decisions
<1>3. ASSUME NEW r \in Reviewers, BeginSubmit(r) \/ BeginDecision(r) PROVE DecidedOnce'
  BY <1>3 DEF BeginSubmit, BeginDecision, Read, DecidedOnce
<1>4. ASSUME NEW r \in Reviewers, EnsureReviewTask(r) PROVE DecidedOnce'
  <2>1. \A t \in Tasks : tasks'[t] = "RESOLVED" <=> tasks[t] = "RESOLVED"
    BY <1>4 DEF EnsureReviewTask, ReviewTypeOK
  <2> QED
    BY <1>4, <2>1 DEF EnsureReviewTask, DecidedOnce
<1>5. ASSUME NEW r \in Reviewers, SubmitForReview(r) PROVE DecidedOnce'
  <2>1. \A t \in Tasks : tasks'[t] = "RESOLVED" <=> tasks[t] = "RESOLVED"
    BY <1>5 DEF SubmitForReview, ReviewTypeOK
  <2>2. candidate'.status = "READY_FOR_REVIEW"
    BY <1>5 DEF SubmitForReview, WriteBack
  <2>3. ASSUME ~reverted', NEW d \in Decisions, decisions = <<d>> PROVE FALSE
    <3>1. candidate.status = "DRAFT" /\ ~reverted
      BY <1>5, <2>3 DEF SubmitForReview, WriteBack, RowsRead
    <3> QED
      BY <2>3, <3>1, StatusAfter DEF DecidedOnce, Decisions
  <2> QED
    BY <1>5, <2>1, <2>2, <2>3, StatusAfter DEF SubmitForReview, DecidedOnce, Decisions
<1>6. ASSUME NEW r \in Reviewers, RollBack(r) PROVE DecidedOnce'
  <2>1. \A t \in Tasks : tasks'[t] = "RESOLVED" <=> tasks[t] = "RESOLVED"
    BY <1>6 DEF RollBack, ReviewTypeOK
  <2> QED
    BY <1>6, <2>1 DEF RollBack, DecidedOnce
<1>7. ASSUME NEW r \in Reviewers, NEW d \in Decisions, Decide(r, d) PROVE DecidedOnce'
  <2> DEFINE resolved == reviewer[r].row.task
  <2>1. resolved \in Tasks
    BY <1>7 DEF Decide, RowsRead
  <2>2. decisions' = <<d>>
    BY <1>7, Undecided DEF Decide
  <2>3. \A t \in Tasks : tasks'[t] = "RESOLVED" <=> t = resolved
    BY <1>7, <2>1, Undecided DEF Decide, ReviewTypeOK
  <2>4. candidate'.status = CandidateAfter(d) /\ feedback' = FeedbackAfter(d)
    BY <1>7 DEF Decide, WriteBack, ReviewTypeOK, Candidates
  <2> QED
    BY <2>1, <2>2, <2>3, <2>4, StatusAfter, OneDecision DEF DecidedOnce, Decisions
<1> QED
  BY <1>1, <1>2, <1>3, <1>4, <1>5, <1>6, <1>7 DEF ReviewNext

-----------------------------------------------------------------------------
LEMMA ReviewInvariant == ReviewSpec => []ReviewInv
<1>1. ReviewInv /\ [ReviewNext]_reviewVars => ReviewInv'
  BY ReviewStepType, StepRows, StepDecided DEF ReviewInv
<1> QED
  BY InitReview, <1>1, PTL DEF ReviewSpec

\* Every variable keeps the form its comment gives it.
THEOREM ReviewTypeCorrect == ReviewSpec => []ReviewTypeOK
<1>1. ReviewInv => ReviewTypeOK
  BY DEF ReviewInv
<1> QED
  BY ReviewInvariant, <1>1, PTL

\* However many threads submit and decide a candidate, with however many review
\* tasks, one decision is taken, and feedback, task and candidate agree with it.
THEOREM CandidateDecidedOnce == ReviewSpec => []DecidedOnce
<1>1. ReviewInv => DecidedOnce
  BY DEF ReviewInv
<1> QED
  BY ReviewInvariant, <1>1, PTL

-----------------------------------------------------------------------------
(***************************************************************************)
(* Proofs about ProfileBuildQueue, for any number of servers, builds, retries *)
(* and texts.                                                               *)
(*                                                                         *)
(* The inductive invariant follows the newest build: the worker that makes it  *)
(* has read the current texts, and once it has been stored so has every worker *)
(* that no commit has overtaken since it read them.                           *)
(***************************************************************************)

HasRead(s) == builder[s].at \in {"embedding", "replacing"}
IsNewest(b) == /\ build[b].status # "NONE"
               /\ \A c \in Builds : c > b => build[c].status = "NONE"
HasProfiles(b) == \E p \in stored : p[1] = b

\* Builds are queued in order, and only a queued one is made and stored.
QueueInOrder ==
  /\ \A b, c \in Builds : c < b /\ build[b].status # "NONE" => build[c].status # "NONE"
  /\ \A b \in Builds : build[b].status \in {"NONE", "QUEUED"} => build[b].retries = 0
  /\ \A s \in Servers : builder[s].at \in {"claimed", "embedding", "replacing", "failing"} =>
       builder[s].build \in Builds /\ build[builder[s].build].status # "NONE"
  /\ \A p \in stored : build[p[1]].status # "NONE"
  /\ \A b \in Builds : build[b].status = "SUCCEEDED" => HasProfiles(b)

\* A worker no commit has overtaken still replaces all that is ACTIVE.
ReplacesAll ==
  \A s \in Servers :
    builder[s].at = "replacing" /\ ~builder[s].raced => builder[s].replaced = active

NewestIsCurrent ==
  \A b \in Builds : IsNewest(b) =>
    /\ \A s \in Servers : HasRead(s) /\ builder[s].build = b => builder[s].text = text
    /\ HasProfiles(b) =>
         /\ \A s \in Servers : HasRead(s) /\ ~builder[s].raced => builder[s].text = text
         /\ ~overlapped => \E p \in stored : active = {p} /\ p[2] = text

BuildInv == BuildQueueTypeOK /\ QueueInOrder /\ ReplacesAll /\ NewestIsCurrent

-----------------------------------------------------------------------------
(* Type correctness.                                                         *)

BuildRows == [status : {"NONE", "QUEUED", "RUNNING", "SUCCEEDED", "FAILED"},
              retries : 0..MaxRetries, expired : BOOLEAN]
Builders == [at : {"idle", "polling", "claimed", "embedding", "replacing", "failing"},
            build : Builds \cup {NoBuild}, text : Revisions,
            replaced : SUBSET Profiles, raced : BOOLEAN]

LEMMA NewRows == Queued \in BuildRows /\ Unqueued \in BuildRows /\ Resting \in Builders
BY MaxRetriesAssumption, MaxTextAssumption
   DEF Queued, Unqueued, Resting, BuildRows, Builders, Revisions

LEMMA InitBuildQueue == BuildQueueInit => BuildInv
<1> SUFFICES ASSUME BuildQueueInit PROVE BuildInv
  OBVIOUS
<1> USE DEF BuildQueueInit
<1>1. BuildQueueTypeOK
  <2>1. build \in [Builds -> BuildRows] /\ builder \in [Servers -> Builders]
    BY NewRows
  <2>2. text \in Revisions
    BY MaxTextAssumption DEF Revisions
  <2>3. stored \subseteq Profiles /\ active \subseteq stored /\ overlapped \in BOOLEAN
    OBVIOUS
  <2> QED
    BY <2>1, <2>2, <2>3 DEF BuildQueueTypeOK, BuildRows, Builders
<1>2. QueueInOrder /\ ReplacesAll
  BY DEF QueueInOrder, ReplacesAll, Resting, Queued, Unqueued, Builds
<1>3. NewestIsCurrent
  BY DEF NewestIsCurrent, HasRead, HasProfiles, Resting
<1> QED
  BY <1>1, <1>2, <1>3 DEF BuildInv

\* Fields of a typed row and of a typed worker.
LEMMA Typed ==
  ASSUME BuildQueueTypeOK
  PROVE  build \in [Builds -> BuildRows] /\ builder \in [Servers -> Builders]
BY DEF BuildQueueTypeOK, BuildRows, Builders

LEMMA BuildStepType == BuildInv /\ [BuildQueueNext]_queueOfBuildsVars => BuildQueueTypeOK'
<1> SUFFICES ASSUME BuildInv, [BuildQueueNext]_queueOfBuildsVars PROVE BuildQueueTypeOK'
  OBVIOUS
<1>a. /\ text \in Revisions /\ stored \subseteq Profiles /\ active \subseteq stored
      /\ overlapped \in BOOLEAN
      /\ build \in [Builds -> BuildRows] /\ builder \in [Servers -> Builders]
  BY Typed DEF BuildInv, BuildQueueTypeOK
<1> SUFFICES /\ text' \in Revisions /\ stored' \subseteq Profiles /\ active' \subseteq stored'
             /\ overlapped' \in BOOLEAN
             /\ build' \in [Builds -> BuildRows] /\ builder' \in [Servers -> Builders]
  BY DEF BuildQueueTypeOK, BuildRows, Builders
<1>1. CASE UNCHANGED queueOfBuildsVars
  BY <1>a, <1>1 DEF queueOfBuildsVars
<1>2. CASE Edit
  BY <1>a, <1>2, NewRows DEF Edit
<1>3. ASSUME NEW s \in Servers, StartPoll(s) PROVE
        build' \in [Builds -> BuildRows] /\ builder' \in [Servers -> Builders]
  <2>1. build' \in [Builds -> BuildRows]
    <3>1. ASSUME NEW b \in Builds PROVE
            [build[b] EXCEPT !.status = "FAILED"] \in BuildRows
      BY <1>a DEF BuildRows
    <3> QED
      BY <1>a, <1>3, <3>1 DEF StartPoll
  <2>2. builder' \in [Servers -> Builders]
    BY <1>a, <1>3 DEF StartPoll, Builders
  <2> QED
    BY <2>1, <2>2
<1>4. ASSUME NEW s \in Servers, ClaimNext(s) PROVE
        build' \in [Builds -> BuildRows] /\ builder' \in [Servers -> Builders]
  <2>1. CASE /\ builder' = [builder EXCEPT ![s] = Resting]
             /\ UNCHANGED build
    BY <1>a, <2>1, NewRows
  <2>2. ASSUME NEW b \in Builds, Claimable(b),
               build' = [build EXCEPT ![b] =
                 [status |-> "RUNNING", retries |-> @.retries + 1, expired |-> FALSE]],
               builder' = [builder EXCEPT ![s].at = "claimed", ![s].build = b]
        PROVE  build' \in [Builds -> BuildRows] /\ builder' \in [Servers -> Builders]
    <3>1. build[b].retries < MaxRetries
      BY <2>2, MaxRetriesAssumption DEF Claimable, BuildInv, QueueInOrder
    <3>2. build[b].retries + 1 \in 0..MaxRetries
      BY <1>a, <3>1, MaxRetriesAssumption DEF BuildRows
    <3>3. build' \in [Builds -> BuildRows]
      BY <1>a, <2>2, <3>2 DEF BuildRows
    <3>4. builder' \in [Servers -> Builders]
      BY <1>a, <2>2 DEF Builders
    <3> QED
      BY <3>3, <3>4
  <2> QED
    BY <1>4, <2>1, <2>2 DEF ClaimNext
<1>5. ASSUME NEW s \in Servers, ReadTexts(s) \/ Replace(s) \/ Fail(s) PROVE
        builder' \in [Servers -> Builders]
  <2>1. active \in SUBSET Profiles
    BY <1>a
  <2> QED
    BY <1>a, <1>5, <2>1 DEF ReadTexts, Replace, Fail, Builders
<1>6. ASSUME NEW s \in Servers, Commit(s) PROVE
        /\ stored' \subseteq Profiles /\ active' \subseteq stored' /\ overlapped' \in BOOLEAN
        /\ build' \in [Builds -> BuildRows] /\ builder' \in [Servers -> Builders]
  <2>1. Made(s) \in Profiles
    BY <1>a, <1>6 DEF Commit, Made, Profiles, BuildInv, QueueInOrder, Builders
  <2>2. stored' \subseteq Profiles /\ active' \subseteq stored'
    BY <1>a, <1>6, <2>1 DEF Commit
  <2>3. overlapped' \in BOOLEAN /\ build' \in [Builds -> BuildRows]
    <3>1. builder[s].raced \in BOOLEAN
      BY <1>a, Zenon DEF Builders
    <3>2. build' \in [Builds -> BuildRows]
      BY <1>a, <1>6 DEF Commit, BuildRows
    <3> QED
      BY <1>6, <3>1, <3>2 DEF Commit
  <2>4. [builder[s] EXCEPT !.at = "failing"] \in Builders
    BY <1>a DEF Builders
  <2>5. \A o \in Servers :
          [builder[o] EXCEPT !.raced = builder[o].at \in {"embedding", "replacing"}] \in Builders
    <3>1. \A o \in Servers, flag \in BOOLEAN : [builder[o] EXCEPT !.raced = flag] \in Builders
      BY <1>a DEF Builders
    <3>2. \A o \in Servers : (builder[o].at \in {"embedding", "replacing"}) \in BOOLEAN
      OBVIOUS
    <3> QED
      BY <3>1, <3>2, Zenon
  <2>6. builder' \in [Servers -> Builders]
    BY <1>6, <2>4, <2>5, NewRows DEF Commit
  <2> QED
    BY <2>2, <2>3, <2>6
<1>7. ASSUME NEW s \in Servers, MarkFailed(s) \/ Crash(s) PROVE
        build' \in [Builds -> BuildRows] /\ builder' \in [Servers -> Builders]
  <2>1. builder' \in [Servers -> Builders]
    BY <1>a, <1>7, NewRows DEF MarkFailed, Crash
  <2>2. build' \in [Builds -> BuildRows]
    BY <1>a, <1>7 DEF MarkFailed, Crash, BuildRows
  <2> QED
    BY <2>1, <2>2
<1>8. ASSUME NEW b \in Builds, Expire(b) PROVE build' \in [Builds -> BuildRows]
  BY <1>a, <1>8 DEF Expire, BuildRows
<1> QED
  BY <1>a, <1>1, <1>2, <1>3, <1>4, <1>5, <1>6, <1>7, <1>8
     DEF BuildQueueNext, StartPoll, ClaimNext, ReadTexts, Replace, Fail, Commit, MarkFailed,
         Crash, Expire

-----------------------------------------------------------------------------
(* The queue.                                                                *)

LEMMA StepInOrder == BuildInv /\ [BuildQueueNext]_queueOfBuildsVars => QueueInOrder'
<1> SUFFICES ASSUME BuildInv, [BuildQueueNext]_queueOfBuildsVars PROVE QueueInOrder'
  OBVIOUS
<1>a. build \in [Builds -> BuildRows] /\ builder \in [Servers -> Builders] /\ stored \subseteq Profiles
  BY Typed DEF BuildInv, BuildQueueTypeOK
<1>b. QueueInOrder
  BY DEF BuildInv
<1> DEFINE Claimed == {"claimed", "embedding", "replacing", "failing"}
<1>1. CASE UNCHANGED queueOfBuildsVars
  BY <1>b, <1>1 DEF queueOfBuildsVars, QueueInOrder, HasProfiles
<1>2. CASE Edit
  <2>1. PICK b \in Builds :
          /\ build[b].status = "NONE"
          /\ \A c \in 1..(b - 1) : build[c].status # "NONE"
          /\ build' = [build EXCEPT ![b] = Queued]
    BY <1>2 DEF Edit
  <2>2. UNCHANGED <<stored, builder>>
    BY <1>2 DEF Edit
  <2>3. /\ build'[b].status = "QUEUED" /\ build'[b].retries = 0
        /\ \A c \in Builds \ {b} : build'[c] = build[c]
    BY <1>a, <2>1 DEF Queued
  <2>4. \A c, d \in Builds : c < d /\ build'[d].status # "NONE" => build'[c].status # "NONE"
    <3> SUFFICES ASSUME NEW c \in Builds, NEW d \in Builds, c < d, build'[d].status # "NONE",
                        c # b
                 PROVE  build[c].status # "NONE"
      BY <2>3
    <3>1. CASE d = b
      BY <2>1, <3>1 DEF Builds
    <3>2. CASE d # b
      BY <1>b, <2>3, <3>2 DEF QueueInOrder
    <3> QED
      BY <3>1, <3>2
  <2>5. \A p \in stored : p[1] \in Builds
    BY <1>a DEF Profiles
  <2> QED
    BY <1>b, <2>1, <2>2, <2>3, <2>4, <2>5 DEF QueueInOrder, HasProfiles
<1>3. ASSUME NEW s \in Servers, StartPoll(s) PROVE QueueInOrder'
  <2>1. \A b \in Builds :
          /\ build'[b].retries = build[b].retries
          /\ \/ build'[b].status = build[b].status
             \/ build[b].status = "RUNNING" /\ build'[b].status = "FAILED"
    BY <1>a, <1>3 DEF StartPoll, BuildRows
  <2>2. stored' = stored /\ \A p \in stored : p[1] \in Builds
    BY <1>a, <1>3 DEF StartPoll, Profiles
  <2>3. \A o \in Servers : builder'[o].at \in Claimed =>
          builder[o].at \in Claimed /\ builder'[o].build = builder[o].build
    BY <1>a, <1>3 DEF StartPoll, Builders
  <2> QED
    BY <1>b, <2>1, <2>2, <2>3 DEF QueueInOrder, HasProfiles
<1>4. ASSUME NEW s \in Servers, ClaimNext(s) PROVE QueueInOrder'
  <2>0. stored' = stored /\ \A p \in stored : p[1] \in Builds
    BY <1>a, <1>4 DEF ClaimNext, Profiles
  <2>1. CASE builder' = [builder EXCEPT ![s] = Resting] /\ UNCHANGED build
    BY <1>a, <1>b, <2>0, <2>1 DEF QueueInOrder, HasProfiles, Resting
  <2>2. ASSUME NEW b \in Builds, Claimable(b),
               build' = [build EXCEPT ![b] =
                 [status |-> "RUNNING", retries |-> @.retries + 1, expired |-> FALSE]],
               builder' = [builder EXCEPT ![s].at = "claimed", ![s].build = b]
        PROVE  QueueInOrder'
    <3>1. build[b].status \notin {"NONE", "SUCCEEDED"} /\ build'[b].status = "RUNNING"
      BY <1>a, <2>2 DEF Claimable
    <3>2. \A c \in Builds \ {b} : build'[c] = build[c]
      BY <1>a, <2>2
    <3>3. \A o \in Servers : builder'[o].at \in Claimed =>
            \/ builder'[o].build = b
            \/ builder[o].at \in Claimed /\ builder'[o].build = builder[o].build
      BY <1>a, <2>2 DEF Builders
    <3> QED
      BY <1>b, <2>0, <3>1, <3>2, <3>3 DEF QueueInOrder, HasProfiles
  <2> QED
    BY <1>4, <2>1, <2>2 DEF ClaimNext
<1>5. ASSUME NEW s \in Servers, ReadTexts(s) \/ Replace(s) \/ Fail(s) PROVE QueueInOrder'
  <2>1. UNCHANGED <<build, stored>>
    BY <1>5 DEF ReadTexts, Replace, Fail
  <2>2. \A o \in Servers : builder'[o].at \in Claimed =>
          builder[o].at \in Claimed /\ builder'[o].build = builder[o].build
    BY <1>a, <1>5 DEF ReadTexts, Replace, Fail, Builders
  <2> QED
    BY <1>b, <2>1, <2>2 DEF QueueInOrder, HasProfiles
<1>6. ASSUME NEW s \in Servers, Commit(s) PROVE QueueInOrder'
  <2> DEFINE b == builder[s].build
  <2>1. b \in Builds /\ build[b].status # "NONE"
    BY <1>b, <1>6 DEF Commit, QueueInOrder
  <2>2. stored' = stored \cup {Made(s)} /\ Made(s)[1] = b
    BY <1>6 DEF Commit, Made
  <2>3. build'[b].status = "SUCCEEDED" /\ \A c \in Builds \ {b} : build'[c] = build[c]
    BY <1>a, <1>6, <2>1 DEF Commit, BuildRows
  <2>4. \A o \in Servers : builder'[o].at \in Claimed =>
          builder[o].at \in Claimed /\ builder'[o].build = builder[o].build
    BY <1>a, <1>6 DEF Commit, Builders, Resting
  <2>5. \A p \in stored : p[1] \in Builds
    BY <1>a DEF Profiles
  <2> QED
    BY <1>b, <2>1, <2>2, <2>3, <2>4, <2>5 DEF QueueInOrder, HasProfiles
<1>7. ASSUME NEW s \in Servers, MarkFailed(s) PROVE QueueInOrder'
  <2> DEFINE b == builder[s].build
  <2>1. b \in Builds /\ build[b].status # "NONE"
    BY <1>b, <1>7 DEF MarkFailed, QueueInOrder
  <2>2. build'[b].status = "FAILED" /\ \A c \in Builds \ {b} : build'[c] = build[c]
    BY <1>a, <1>7, <2>1 DEF MarkFailed, BuildRows
  <2>3. \A o \in Servers : builder'[o].at \in Claimed =>
          builder[o].at \in Claimed /\ builder'[o].build = builder[o].build
    BY <1>a, <1>7 DEF MarkFailed, Resting
  <2>4. stored' = stored /\ \A p \in stored : p[1] \in Builds
    BY <1>a, <1>7 DEF MarkFailed, Profiles
  <2> QED
    BY <1>b, <2>1, <2>2, <2>3, <2>4 DEF QueueInOrder, HasProfiles
<1>8. ASSUME NEW s \in Servers, Crash(s) PROVE QueueInOrder'
  <2>1. \A o \in Servers : builder'[o].at \in Claimed =>
          builder[o].at \in Claimed /\ builder'[o].build = builder[o].build
    BY <1>a, <1>8 DEF Crash, Resting
  <2> QED
    BY <1>b, <1>8, <2>1 DEF Crash, QueueInOrder, HasProfiles
<1>9. ASSUME NEW b \in Builds, Expire(b) PROVE QueueInOrder'
  <2>1. \A c \in Builds :
          build'[c].status = build[c].status /\ build'[c].retries = build[c].retries
    BY <1>a, <1>9 DEF Expire, BuildRows
  <2>2. \A p \in stored : p[1] \in Builds
    BY <1>a DEF Profiles
  <2> QED
    BY <1>b, <1>9, <2>1, <2>2 DEF Expire, QueueInOrder, HasProfiles
<1> QED
  BY <1>1, <1>2, <1>3, <1>4, <1>5, <1>6, <1>7, <1>8, <1>9 DEF BuildQueueNext

\* A commit overtakes every other worker that has read its texts.
LEMMA CommitOvertakes ==
  ASSUME BuildQueueTypeOK, NEW s \in Servers, Commit(s), NEW o \in Servers, o # s,
         builder'[o].at \in {"embedding", "replacing"}
  PROVE  builder'[o].raced
<1>1. builder'[o] = [builder[o] EXCEPT !.raced = builder[o].at \in {"embedding", "replacing"}]
  BY DEF Commit
<1>2. builder[o] \in Builders
  BY Typed
<1>3. builder'[o].at = builder[o].at
  BY <1>1, <1>2 DEF Builders
<1>4. builder'[o].raced = (builder[o].at \in {"embedding", "replacing"})
  BY <1>1, <1>2 DEF Builders
<1> QED
  BY <1>3, <1>4

LEMMA StepReplaces == BuildInv /\ [BuildQueueNext]_queueOfBuildsVars => ReplacesAll'
<1> SUFFICES ASSUME BuildInv, [BuildQueueNext]_queueOfBuildsVars PROVE ReplacesAll'
  OBVIOUS
<1>a. builder \in [Servers -> Builders] /\ ReplacesAll
  BY Typed DEF BuildInv
<1>1. CASE UNCHANGED queueOfBuildsVars
  BY <1>a, <1>1 DEF queueOfBuildsVars, ReplacesAll
<1>2. ASSUME NEW s \in Servers, Commit(s) PROVE ReplacesAll'
  <2>1. builder'[s].at # "replacing"
    BY <1>a, <1>2 DEF Commit, Builders, Resting
  <2>2. \A o \in Servers \ {s} : builder'[o].at = "replacing" => builder'[o].raced
    BY <1>2, CommitOvertakes DEF BuildInv
  <2> QED
    BY <2>1, <2>2 DEF ReplacesAll
<1>3. ASSUME NEW s \in Servers, Replace(s) PROVE ReplacesAll'
  BY <1>a, <1>3 DEF Replace, Builders, ReplacesAll
<1>4. ASSUME NEW s \in Servers,
             \/ StartPoll(s) \/ ClaimNext(s) \/ ReadTexts(s)
             \/ Fail(s) \/ MarkFailed(s) \/ Crash(s)
      PROVE  ReplacesAll'
  <2>1. builder'[s].at # "replacing" /\ \A o \in Servers \ {s} : builder'[o] = builder[o]
    BY <1>a, <1>4 DEF StartPoll, ClaimNext, ReadTexts, Fail, MarkFailed, Crash, Builders, Resting
  <2>2. active' = active
    BY <1>4 DEF StartPoll, ClaimNext, ReadTexts, Fail, MarkFailed, Crash
  <2> QED
    BY <1>a, <2>1, <2>2 DEF ReplacesAll
<1>5. CASE Edit \/ \E b \in Builds : Expire(b)
  BY <1>a, <1>5 DEF Edit, Expire, ReplacesAll
<1> QED
  BY <1>1, <1>2, <1>3, <1>4, <1>5 DEF BuildQueueNext

-----------------------------------------------------------------------------
(* The newest build.                                                         *)

\* A step that queues nothing keeps the newest build.
LEMMA SameNewest ==
  ASSUME \A c \in Builds : build'[c].status = "NONE" <=> build[c].status = "NONE"
  PROVE  \A b \in Builds : IsNewest(b)' <=> IsNewest(b)
BY DEF IsNewest

\* A step that only moves a worker, without reading the texts.
LEMMA WorkerMoves ==
  ASSUME BuildInv, UNCHANGED <<text, stored, active, overlapped>>,
         \A c \in Builds : build'[c].status = "NONE" <=> build[c].status = "NONE",
         \A s \in Servers : HasRead(s)' =>
           /\ HasRead(s)
           /\ builder'[s].build = builder[s].build
           /\ builder'[s].text = builder[s].text
           /\ builder'[s].raced = builder[s].raced
  PROVE  NewestIsCurrent'
<1>1. \A b \in Builds : IsNewest(b)' => IsNewest(b)
  BY SameNewest
<1>2. \A b \in Builds : HasProfiles(b)' => HasProfiles(b)
  BY DEF HasProfiles
<1> SUFFICES ASSUME NEW b \in Builds, IsNewest(b)'
             PROVE
    /\ \A s \in Servers : HasRead(s)' /\ builder'[s].build = b => builder'[s].text = text'
    /\ HasProfiles(b)' =>
         /\ \A s \in Servers : HasRead(s)' /\ ~builder'[s].raced => builder'[s].text = text'
         /\ ~overlapped' => \E p \in stored' : active' = {p} /\ p[2] = text'
  BY DEF NewestIsCurrent
<1>3. \A s \in Servers : HasRead(s)' /\ builder'[s].build = b => builder'[s].text = text'
  BY <1>1 DEF BuildInv, NewestIsCurrent
<1>4. ASSUME HasProfiles(b)', NEW s \in Servers, HasRead(s)', ~builder'[s].raced
      PROVE  builder'[s].text = text'
  BY <1>1, <1>2, <1>4, Zenon DEF BuildInv, NewestIsCurrent
<1>5. ASSUME HasProfiles(b)', ~overlapped'
      PROVE  \E p \in stored' : active' = {p} /\ p[2] = text'
  BY <1>1, <1>2, <1>5 DEF BuildInv, NewestIsCurrent
<1> QED
  BY <1>3, <1>4, <1>5

LEMMA StepNewest == BuildInv /\ [BuildQueueNext]_queueOfBuildsVars => NewestIsCurrent'
<1> SUFFICES ASSUME BuildInv, [BuildQueueNext]_queueOfBuildsVars PROVE NewestIsCurrent'
  OBVIOUS
<1>a. /\ build \in [Builds -> BuildRows] /\ builder \in [Servers -> Builders]
      /\ stored \subseteq Profiles
  BY Typed DEF BuildInv, BuildQueueTypeOK
<1>b. QueueInOrder /\ NewestIsCurrent
  BY DEF BuildInv
<1>1. CASE UNCHANGED queueOfBuildsVars
  BY <1>1, WorkerMoves DEF queueOfBuildsVars, HasRead
<1>2. CASE Edit
  <2>1. PICK b \in Builds :
          /\ build[b].status = "NONE"
          /\ build' = [build EXCEPT ![b] = Queued]
    BY <1>2 DEF Edit
  <2>2. \A c \in Builds : c > b => build[c].status = "NONE"
    BY <1>b, <2>1 DEF QueueInOrder
  <2>3. ~HasProfiles(b) /\ \A s \in Servers : HasRead(s) => builder[s].build # b
    BY <1>b, <2>1 DEF QueueInOrder, HasProfiles, HasRead
  <2>4. \A c \in Builds : IsNewest(c)' => c = b
    <3>1. build'[b].status # "NONE" /\ \A c \in Builds \ {b} : build'[c] = build[c]
      BY <1>a, <2>1 DEF Queued
    <3> QED
      BY <2>2, <3>1 DEF IsNewest, Builds
  <2>5. ~HasProfiles(b)' /\ \A s \in Servers : HasRead(s)' => builder'[s].build # b
    BY <1>2, <2>3 DEF Edit, HasProfiles, HasRead
  <2> QED
    BY <2>4, <2>5 DEF NewestIsCurrent
<1>3. ASSUME NEW s \in Servers, StartPoll(s) PROVE NewestIsCurrent'
  <2>1. \A c \in Builds : build'[c].status = "NONE" <=> build[c].status = "NONE"
    BY <1>a, <1>3 DEF StartPoll, BuildRows
  <2>2. ~HasRead(s)' /\ \A o \in Servers \ {s} : builder'[o] = builder[o]
    BY <1>a, <1>3 DEF StartPoll, HasRead, Builders
  <2> QED
    BY <1>3, <2>1, <2>2, WorkerMoves DEF StartPoll, HasRead
<1>4. ASSUME NEW s \in Servers, ClaimNext(s) PROVE NewestIsCurrent'
  <2>1. \A c \in Builds : build'[c].status = "NONE" <=> build[c].status = "NONE"
    BY <1>a, <1>4 DEF ClaimNext, Claimable, BuildRows
  <2>2. ~HasRead(s)' /\ \A o \in Servers \ {s} : builder'[o] = builder[o]
    BY <1>a, <1>4 DEF ClaimNext, HasRead, Builders, Resting
  <2> QED
    BY <1>4, <2>1, <2>2, WorkerMoves DEF ClaimNext, HasRead
<1>5. ASSUME NEW s \in Servers, ReadTexts(s) PROVE NewestIsCurrent'
  <2>1. UNCHANGED <<text, build, stored, active, overlapped>>
    BY <1>5 DEF ReadTexts
  <2>2. builder'[s].text = text /\ \A o \in Servers \ {s} : builder'[o] = builder[o]
    BY <1>a, <1>5 DEF ReadTexts, Builders
  <2>3. \A b \in Builds : (IsNewest(b)' <=> IsNewest(b)) /\ (HasProfiles(b)' <=> HasProfiles(b))
    BY <2>1 DEF IsNewest, HasProfiles
  <2> QED
    BY <1>b, <2>1, <2>2, <2>3 DEF NewestIsCurrent, HasRead
<1>6. ASSUME NEW s \in Servers, Replace(s) PROVE NewestIsCurrent'
  <2>1. /\ HasRead(s) /\ builder'[s].build = builder[s].build
        /\ builder'[s].text = builder[s].text /\ builder'[s].raced = builder[s].raced
        /\ \A o \in Servers \ {s} : builder'[o] = builder[o]
    BY <1>a, <1>6 DEF Replace, HasRead, Builders
  <2> QED
    BY <1>6, <2>1, WorkerMoves DEF Replace, HasRead
<1>7. ASSUME NEW s \in Servers, Fail(s) \/ MarkFailed(s) \/ Crash(s) PROVE NewestIsCurrent'
  <2>1. ~HasRead(s)' /\ \A o \in Servers \ {s} : builder'[o] = builder[o]
    BY <1>a, <1>7 DEF Fail, MarkFailed, Crash, HasRead, Builders, Resting
  <2>2. \A c \in Builds : build'[c].status = "NONE" <=> build[c].status = "NONE"
    <3>1. CASE MarkFailed(s)
      <4>1. builder[s].build \in Builds /\ build[builder[s].build].status # "NONE"
        BY <1>b, <3>1 DEF MarkFailed, QueueInOrder
      <4> QED
        BY <1>a, <3>1, <4>1 DEF MarkFailed, BuildRows
    <3>2. CASE Fail(s) \/ Crash(s)
      BY <3>2 DEF Fail, Crash
    <3> QED
      BY <1>7, <3>1, <3>2
  <2>3. UNCHANGED <<text, stored, active, overlapped>>
    BY <1>7 DEF Fail, MarkFailed, Crash
  <2> QED
    BY <2>1, <2>2, <2>3, WorkerMoves DEF HasRead
<1>8. ASSUME NEW s \in Servers, Commit(s) PROVE NewestIsCurrent'
  <2> DEFINE made == builder[s].build
  <2>1. made \in Builds /\ build[made].status # "NONE" /\ HasRead(s)
    BY <1>b, <1>8 DEF Commit, QueueInOrder, HasRead
  <2>2. \A c \in Builds : build'[c].status = "NONE" <=> build[c].status = "NONE"
    BY <1>a, <1>8, <2>1 DEF Commit, BuildRows
  <2>3. /\ text' = text /\ stored' = stored \cup {Made(s)}
        /\ Made(s)[1] = made /\ Made(s)[2] = builder[s].text
    BY <1>8 DEF Commit, Made
  <2>4. ~HasRead(s)'
    BY <1>a, <1>8 DEF Commit, HasRead, Builders, Resting
  <2>5. \A o \in Servers \ {s} :
          HasRead(o)' => /\ builder'[o].raced
                         /\ HasRead(o) /\ builder'[o].build = builder[o].build
                         /\ builder'[o].text = builder[o].text
    <3>1. \A o \in Servers \ {s} : HasRead(o)' => builder'[o].raced
      BY <1>8, CommitOvertakes DEF BuildInv, HasRead
    <3>2. \A o \in Servers \ {s} :
            /\ builder'[o].at = builder[o].at /\ builder'[o].build = builder[o].build
            /\ builder'[o].text = builder[o].text
      BY <1>a, <1>8 DEF Commit, Builders
    <3> QED
      BY <3>1, <3>2 DEF HasRead
  <2>6. ASSUME NEW b \in Builds, IsNewest(b), HasProfiles(b)', ~overlapped'
        PROVE  \E p \in stored' : active' = {p} /\ p[2] = text'
    <3>1. ~builder[s].raced
      BY <1>8, <2>6 DEF Commit
    <3>2. active' = {Made(s)}
      <4>1. builder[s].replaced = active
        BY <1>8, <3>1 DEF Commit, BuildInv, ReplacesAll
      <4> QED
        BY <1>8, <4>1 DEF Commit
    <3>3. builder[s].text = text
      <4>1. CASE b = made
        BY <1>b, <2>1, <2>6, <4>1 DEF NewestIsCurrent
      <4>2. CASE b # made
        <5>1. HasProfiles(b)
          BY <2>3, <2>6, <4>2 DEF HasProfiles
        <5> QED
          BY <1>b, <2>1, <2>6, <3>1, <5>1, Zenon DEF NewestIsCurrent
      <4> QED
        BY <4>1, <4>2
    <3> QED
      BY <2>3, <3>2, <3>3
  <2>7. \A b \in Builds : IsNewest(b)' => IsNewest(b)
    BY <2>2, SameNewest
  <2> SUFFICES ASSUME NEW b \in Builds, IsNewest(b)'
               PROVE
      /\ \A o \in Servers : HasRead(o)' /\ builder'[o].build = b => builder'[o].text = text'
      /\ HasProfiles(b)' =>
           /\ \A o \in Servers : HasRead(o)' /\ ~builder'[o].raced => builder'[o].text = text'
           /\ ~overlapped' => \E p \in stored' : active' = {p} /\ p[2] = text'
    BY DEF NewestIsCurrent
  <2>8. \A o \in Servers : HasRead(o)' /\ builder'[o].build = b => builder'[o].text = text'
    BY <1>b, <2>3, <2>4, <2>5, <2>7 DEF NewestIsCurrent
  <2>9. \A o \in Servers : HasRead(o)' => builder'[o].raced
    BY <2>4, <2>5, Zenon
  <2> QED
    BY <2>6, <2>7, <2>8, <2>9, Zenon
<1>9. ASSUME NEW b \in Builds, Expire(b) PROVE NewestIsCurrent'
  <2>1. \A c \in Builds : build'[c].status = build[c].status
    BY <1>a, <1>9 DEF Expire, BuildRows
  <2> QED
    BY <1>9, <2>1, WorkerMoves DEF Expire, HasRead
<1> QED
  BY <1>1, <1>2, <1>3, <1>4, <1>5, <1>6, <1>7, <1>8, <1>9 DEF BuildQueueNext

-----------------------------------------------------------------------------
LEMMA BuildInvariant == BuildQueueSpec => []BuildInv
<1>1. BuildInv /\ [BuildQueueNext]_queueOfBuildsVars => BuildInv'
  BY BuildStepType, StepInOrder, StepReplaces, StepNewest DEF BuildInv
<1> QED
  BY InitBuildQueue, <1>1, PTL DEF BuildQueueSpec

\* Every variable keeps the form its comment gives it; in particular a build is
\* never tried more often than max_retries says.
THEOREM BuildQueueTypeCorrect == BuildQueueSpec => []BuildQueueTypeOK
<1>1. BuildInv => BuildQueueTypeOK
  BY DEF BuildInv
<1> QED
  BY BuildInvariant, <1>1, PTL

\* However many servers build, crash and retry, and however many edits arrive:
\* when nothing is left to build the ACTIVE profiles are one build's, of the
\* current texts, save for the two reasons ActiveIsLatest names.
THEOREM ProfilesAreLatest == BuildQueueSpec => []ActiveIsLatest
<1>1. BuildInv => ActiveIsLatest
  <2> SUFFICES ASSUME BuildInv, NEW newest \in Builds,
                      build[newest].status # "NONE",
                      \A b \in Builds : b > newest => build[b].status = "NONE",
                      \A b \in Builds : build[b].status # "RUNNING" /\ ~Claimable(b),
                      build[newest].status = "FAILED" => build[newest].retries < MaxRetries,
                      ~overlapped
               PROVE  \E profile \in stored : active = {profile} /\ profile[2] = text
    BY DEF ActiveIsLatest
  <2>1. build[newest].status \in {"NONE", "QUEUED", "RUNNING", "SUCCEEDED", "FAILED"}
    BY DEF BuildInv, BuildQueueTypeOK
  <2>2. build[newest].status = "SUCCEEDED"
    BY <2>1 DEF Claimable
  <2>3. IsNewest(newest) /\ HasProfiles(newest)
    BY <2>2 DEF IsNewest, BuildInv, QueueInOrder
  <2> QED
    BY <2>3, Zenon DEF BuildInv, NewestIsCurrent
<1> QED
  BY BuildInvariant, <1>1, PTL

=============================================================================
