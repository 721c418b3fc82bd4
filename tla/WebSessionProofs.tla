-------------------------- MODULE WebSessionProofs --------------------------
(***************************************************************************)
(* Theorems about WebSession for every number of tabs, requests and users  *)
(* and any number of expiries and visits.                                  *)
(***************************************************************************)
EXTENDS WebSession, TLAPS

-----------------------------------------------------------------------------
(* Type correctness                                                        *)

Refreshes == [owner : Req, user : User]

(* A submitted login names a user.                                         *)
LoginNamed == \A r \in Req : req[r].kind = "login" => req[r].user \in User

TypeInv == TypeOK /\ LoginNamed

(* A request keeps its type when a token is attached to it, and its kind   *)
(* and user too.                                                           *)
LEMMA AttachType ==
  ASSUME NEW q \in Requests, NEW a
  PROVE  /\ Attach(q, a) \in Requests
         /\ Attach(q, a).kind = q.kind /\ Attach(q, a).user = q.user
BY DEF Attach, Requests

LEMMA IdleType == Idle \in Requests /\ Idle.kind = "idle"
BY DEF Idle, Requests

(* The steps of a request other than SubmitLogin leave types and logins    *)
(* alone: the request becomes idle, or it is a data request.               *)
LEMMA RequestType ==
  ASSUME TypeInv, NEW r \in Req,
         Send(r) \/ Settle(r)
  PROVE  /\ req' \in [Req -> Requests]
         /\ \A s \in Req : req'[s].kind = "login" => req'[s].user \in User
<1>0. req \in [Req -> Requests] /\ LoginNamed
  BY DEF TypeInv, TypeOK
<1>1. CASE Send(r)
  <2>1. [Idle EXCEPT !.kind = "data"] \in Requests
        /\ [Idle EXCEPT !.kind = "data"].kind = "data"
    BY DEF Idle, Requests
  <2> DEFINE q == Attach([Idle EXCEPT !.kind = "data"], access)
  <2>2. q \in Requests /\ q.kind = "data"
    BY <2>1, AttachType
  <2>3. req' = [req EXCEPT ![r] = q]
    BY <1>1 DEF Send
  <2> HIDE DEF q
  <2> QED
    BY <1>0, <2>2, <2>3 DEF LoginNamed
<1>2. CASE Reject(r)
  BY <1>0, <1>2, IdleType DEF Reject, LoginNamed
<1>3. CASE req' = req
  BY <1>0, <1>3 DEF LoginNamed
<1>4. CASE StartRefresh(r)
  <2>1. req' = [req EXCEPT ![r].retry = TRUE]
    BY <1>4 DEF StartRefresh
  <2>2. \A q \in Requests : /\ [q EXCEPT !.retry = TRUE] \in Requests
                            /\ [q EXCEPT !.retry = TRUE].kind = q.kind
                            /\ [q EXCEPT !.retry = TRUE].user = q.user
    BY DEF Requests
  <2>3. req' = [req EXCEPT ![r] = [req[r] EXCEPT !.retry = TRUE]]
    BY <2>1
  <2> QED
    BY <1>0, <2>2, <2>3 DEF LoginNamed
<1> QED
  BY <1>1, <1>2, <1>3, <1>4 DEF Settle, AnswerData, AnswerError, AnswerLogin,
                                GiveUp, JoinQueue, NoRefreshToken

LEMMA SubmitType ==
  ASSUME TypeInv, NEW r \in Req, NEW k \in {"login", "badLogin"},
         NEW u \in User \cup {None}, k = "login" => u \in User,
         SubmitLogin(r, u, k)
  PROVE  TypeInv'
<1> DEFINE p == [Idle EXCEPT !.kind = k, !.user = u]
           q == Attach(p, access)
<1>1. p \in Requests /\ p.kind = k /\ p.user = u
  BY DEF Idle, Requests
<1>2. q \in Requests /\ q.kind = k /\ q.user = u
  BY <1>1, AttachType
<1>3. req' = [req EXCEPT ![r] = q] /\ visits' = visits + 1 /\ visits < MaxVisits
  BY DEF SubmitLogin
<1> HIDE DEF q
<1>4. req' \in [Req -> Requests] /\ LoginNamed'
  BY <1>2, <1>3 DEF TypeInv, TypeOK, LoginNamed
<1>5. visits' \in 0..MaxVisits
  BY <1>3, WebSessionAssumption DEF TypeInv, TypeOK
<1> QED
  BY <1>4, <1>5 DEF SubmitLogin, TypeInv, TypeOK, store, tabs

LEMMA SettleType ==
  ASSUME TypeInv, NEW r \in Req, Send(r) \/ Settle(r)
  PROVE  TypeInv'
<1>0. req' \in [Req -> Requests] /\ LoginNamed'
  BY RequestType DEF LoginNamed
<1>1. TabOf[r] \in Tab
  BY WebSessionAssumption
<1>2. CASE AnswerLogin(r)
  <2>1. req[r].user \in User
    BY <1>2 DEF AnswerLogin, TypeInv, LoginNamed
  <2>2. \A u \in User : Role(u) \in {"login", "admin", "portal"}
    BY DEF Role
  <2> QED
    BY <1>0, <1>1, <1>2, <2>1, <2>2
       DEF AnswerLogin, saveTokens, TypeInv, TypeOK, AccessTokens
<1>3. CASE StartRefresh(r)
  <2>1. renewal \in User
    BY <1>3 DEF StartRefresh, TypeInv, TypeOK
  <2>2. [owner |-> r, user |-> renewal] \in [owner : Req, user : User]
    BY <2>1
  <2>3. refresh' \in [Tab -> [owner : Req, user : User] \cup {None}]
    BY <1>3, <2>2 DEF StartRefresh, TypeInv, TypeOK
  <2> QED
    BY <1>0, <1>1, <1>3, <2>3 DEF StartRefresh, TypeInv, TypeOK, store, hist
<1>4. CASE JoinQueue(r)
  BY <1>0, <1>1, <1>4 DEF JoinQueue, TypeInv, TypeOK, store, hist
<1>5. CASE NoRefreshToken(r)
  BY <1>0, <1>1, <1>5 DEF NoRefreshToken, clearTokens, TypeInv, TypeOK, hist
<1>6. CASE UNCHANGED <<store, tabs, hist>>
  BY <1>0, <1>6 DEF TypeInv, TypeOK, store, tabs, hist
<1> QED
  BY <1>2, <1>3, <1>4, <1>5, <1>6 DEF Settle, Send, AnswerData, AnswerError, GiveUp

LEMMA TabType ==
  ASSUME TypeInv, NEW t \in Tab,
         RefreshOk(t) \/ RefreshFails(t) \/ Reload(t) \/ Logout(t)
           \/ \E p \in {"admin", "portal"} : Navigate(t, p)
  PROVE  TypeInv'
<1>1. CASE RefreshOk(t)
  <2>1. refresh[t] \in [owner : Req, user : User]
    BY <1>1 DEF RefreshOk, TypeInv, TypeOK
  <2>2. access' \in AccessTokens /\ renewal' \in User
    BY <1>1, <2>1 DEF RefreshOk, saveTokens, AccessTokens
  <2>3. req' \in [Req -> Requests] /\ LoginNamed'
    <3>1. \A r \in Req : req'[r] = Attach(req[r], access') \/ req'[r] = req[r]
      BY <1>1 DEF RefreshOk
    <3>2. \A r \in Req : /\ req'[r] \in Requests
                         /\ req'[r].kind = req[r].kind
                         /\ req'[r].user = req[r].user
      BY <3>1, AttachType DEF TypeInv, TypeOK
    <3>3. req' = [r \in Req |-> req'[r]]
      BY <1>1 DEF RefreshOk
    <3> QED
      BY <3>2, <3>3 DEF TypeInv, LoginNamed
  <2> QED
    BY <1>1, <2>2, <2>3 DEF RefreshOk, TypeInv, TypeOK, hist
<1>2. CASE RefreshFails(t) \/ Reload(t)
  <2>1. req' \in [Req -> Requests] /\ LoginNamed'
    <3>1. \A r \in Req : req'[r] = Idle \/ req'[r] = req[r]
      BY <1>2 DEF RefreshFails, Reload
    <3>2. req' = [r \in Req |-> req'[r]]
      BY <1>2 DEF RefreshFails, Reload
    <3> QED
      BY <3>1, <3>2, IdleType DEF TypeInv, TypeOK, LoginNamed
  <2> QED
    <3>1. CASE RefreshFails(t)
      BY <2>1, <3>1 DEF RefreshFails, clearTokens, TypeInv, TypeOK, hist
    <3>2. CASE Reload(t)
      BY <2>1, <3>2 DEF Reload, TypeInv, TypeOK, store, hist
    <3> QED
      BY <1>2, <3>1, <3>2
<1>3. CASE Logout(t)
  <2>1. visits' \in 0..MaxVisits
    BY <1>3, WebSessionAssumption DEF Logout, TypeInv, TypeOK
  <2> QED
    <3>1. LoginNamed'
      BY <1>3 DEF Logout, TypeInv, LoginNamed
    <3>2. path' \in [Tab -> {"login", "admin", "portal"}] /\ raced' \in BOOLEAN
      BY <1>3 DEF Logout, TypeInv, TypeOK
    <3> QED
      BY <1>3, <2>1, <3>1, <3>2 DEF Logout, clearTokens, TypeInv, TypeOK
<1>4. ASSUME NEW p \in {"admin", "portal"}, Navigate(t, p)
      PROVE  TypeInv'
  <2>1. ProtectedRoute(p) \in {"login", "admin", "portal"}
    BY DEF ProtectedRoute
  <2> QED
    BY <1>4, <2>1 DEF Navigate, TypeInv, TypeOK, LoginNamed, store, hist
<1> QED
  BY <1>1, <1>2, <1>3, <1>4

LEMMA ExpireType ==
  ASSUME TypeInv, Expire
  PROVE  TypeInv'
<1>1. access \in AccessTokens
  BY DEF Expire, isAuthenticated, TypeInv, TypeOK
<1>2. access' \in AccessTokens /\ access'.user = access.user
  BY <1>1 DEF Expire, AccessTokens
<1>3. expiries' \in 0..MaxExpiries
  BY WebSessionAssumption DEF Expire, TypeInv, TypeOK
<1>4. \A q \in Requests : /\ [q EXCEPT !.token = "dead"] \in Requests
                          /\ [q EXCEPT !.token = "dead"].kind = q.kind
                          /\ [q EXCEPT !.token = "dead"].user = q.user
  BY DEF Requests
<1>5. req' \in [Req -> Requests] /\ LoginNamed'
  <2>1. \A r \in Req : req'[r] = [req[r] EXCEPT !.token = "dead"] \/ req'[r] = req[r]
    BY DEF Expire
  <2>2. \A r \in Req : /\ req'[r] \in Requests
                       /\ req'[r].kind = req[r].kind
                       /\ req'[r].user = req[r].user
    BY <1>4, <2>1 DEF TypeInv, TypeOK
  <2>3. req' = [r \in Req |-> req'[r]]
    BY DEF Expire
  <2> QED
    BY <2>2, <2>3 DEF TypeInv, LoginNamed
<1> QED
  BY <1>2, <1>3, <1>5 DEF Expire, TypeInv, TypeOK, tabs

LEMMA AlwaysTyped == Init /\ [][Next]_vars => []TypeInv
<1>1. Init => TypeInv
  <2> SUFFICES ASSUME Init PROVE TypeInv
    OBVIOUS
  <2>1. /\ access \in AccessTokens \cup {None} /\ renewal \in User \cup {None}
        /\ self \in User \cup {None}
    <3>1. ASSUME NEW u \in User, access = [user |-> u, live |-> TRUE],
                 renewal = u, self = u
          PROVE  access \in AccessTokens /\ renewal \in User /\ self \in User
      BY <3>1 DEF AccessTokens
    <3>2. \/ access = None /\ renewal = None /\ self = None
          \/ \E u \in User :
               access = [user |-> u, live |-> TRUE] /\ renewal = u /\ self = u
      BY DEF Init
    <3> QED
      BY <3>1, <3>2
  <2>2. path \in [Tab -> {"login", "admin", "portal"}]
    BY DEF Init, Role
  <2>3. req \in [Req -> Requests] /\ LoginNamed
    BY IdleType DEF Init, LoginNamed
  <2> QED
    <3>1. /\ leaving \in [Tab -> BOOLEAN] /\ isRefreshing \in [Tab -> BOOLEAN]
          /\ failedQueue \in [Tab -> SUBSET Req]
          /\ raced \in BOOLEAN
      BY DEF Init
    <3>2. refresh \in [Tab -> [owner : Req, user : User] \cup {None}]
      BY DEF Init
    <3>3. expiries \in 0..MaxExpiries /\ visits \in 0..MaxVisits
      BY WebSessionAssumption DEF Init
    <3> QED
      BY <2>1, <2>2, <2>3, <3>1, <3>2, <3>3 DEF TypeInv, TypeOK
<1>2. TypeInv /\ [Next]_vars => TypeInv'
  <2> SUFFICES ASSUME TypeInv, [Next]_vars PROVE TypeInv'
    OBVIOUS
  <2>1. CASE Next
    <3>1. ASSUME NEW r \in Req,
                 SubmitLogin(r, None, "badLogin")
                   \/ \E u \in User : SubmitLogin(r, u, "login")
          PROVE  TypeInv'
      BY <3>1, SubmitType
    <3> QED
      BY <2>1, <3>1, SettleType, TabType, ExpireType DEF Next
  <2>2. CASE UNCHANGED vars
    BY <2>2 DEF vars, TypeInv, TypeOK, LoginNamed
  <2> QED
    BY <2>1, <2>2
<1> QED
  BY <1>1, <1>2, PTL

(* Type correctness, with what it needs: a login that is answered names a  *)
(* user, so that the tokens stored for it do.                              *)
THEOREM TypeCorrect == Spec => []TypeOK
<1>1. TypeInv => TypeOK
  BY DEF TypeInv
<1> QED
  BY <1>1, AlwaysTyped, PTL DEF Spec

-----------------------------------------------------------------------------
(* The queue                                                               *)

(***************************************************************************)
(* Requests wait only where a refresh, or a reload, will take them out     *)
(* (lib/api.ts 22-90).  The property needs types only: in particular that  *)
(* the mark of a refresh is not the mark of none.                          *)
(***************************************************************************)
THEOREM NobodyWaitsForNothing == Spec => []QueueIsServed
<1>1. Init => QueueIsServed
  BY DEF Init, QueueIsServed
<1>2. TypeInv /\ QueueIsServed /\ [Next]_vars => QueueIsServed'
  <2> SUFFICES ASSUME TypeInv, QueueIsServed, [Next]_vars PROVE QueueIsServed'
    OBVIOUS
  <2>0. /\ leaving \in [Tab -> BOOLEAN] /\ isRefreshing \in [Tab -> BOOLEAN]
        /\ failedQueue \in [Tab -> SUBSET Req]
        /\ refresh \in [Tab -> Refreshes \cup {None}]
        /\ TabOf \in [Req -> Tab] /\ None \notin Refreshes
    BY WebSessionAssumption DEF TypeInv, TypeOK, Refreshes
  <2>1. CASE UNCHANGED <<leaving, isRefreshing, failedQueue, refresh>>
    BY <2>1 DEF QueueIsServed
  <2>2. ASSUME NEW r \in Req, JoinQueue(r)
        PROVE  QueueIsServed'
    BY <2>0, <2>2 DEF JoinQueue, QueueIsServed
  <2>3. ASSUME NEW r \in Req, NoRefreshToken(r)
        PROVE  QueueIsServed'
    BY <2>0, <2>3 DEF NoRefreshToken, QueueIsServed
  <2>4. ASSUME NEW r \in Req, StartRefresh(r)
        PROVE  QueueIsServed'
    <3>1. [owner |-> r, user |-> renewal] \in Refreshes
      BY <2>4 DEF StartRefresh, TypeInv, TypeOK, Refreshes
    <3> DEFINE x == [owner |-> r, user |-> renewal]
    <3>2. /\ refresh' = [refresh EXCEPT ![TabOf[r]] = x]
          /\ isRefreshing' = [isRefreshing EXCEPT ![TabOf[r]] = TRUE]
          /\ UNCHANGED <<leaving, failedQueue>>
      BY <2>4 DEF StartRefresh
    <3> HIDE DEF x
    <3> QED
      BY <2>0, <3>1, <3>2 DEF QueueIsServed, x
  <2>5. ASSUME NEW t \in Tab, RefreshOk(t) \/ RefreshFails(t) \/ Reload(t)
        PROVE  QueueIsServed'
    BY <2>0, <2>5 DEF RefreshOk, RefreshFails, Reload, QueueIsServed
  <2>6. ASSUME NEW r \in Req, Send(r) \/ Settle(r)
        PROVE  QueueIsServed'
    BY <2>1, <2>2, <2>3, <2>4, <2>6 DEF Settle, Send, AnswerData, AnswerError,
       AnswerLogin, GiveUp, tabs
  <2>7. ASSUME NEW r \in Req,
               SubmitLogin(r, None, "badLogin")
                 \/ \E u \in User : SubmitLogin(r, u, "login")
        PROVE  QueueIsServed'
    BY <2>1, <2>7 DEF SubmitLogin, tabs
  <2>8. ASSUME NEW t \in Tab,
               Logout(t) \/ \E p \in {"admin", "portal"} : Navigate(t, p)
        PROVE  QueueIsServed'
    BY <2>1, <2>8 DEF Logout, Navigate
  <2>9. CASE Expire \/ UNCHANGED vars
    BY <2>1, <2>9 DEF Expire, tabs, vars
  <2> QED
    BY <2>5, <2>6, <2>7, <2>8, <2>9 DEF Next
<1> QED
  BY <1>1, <1>2, AlwaysTyped, PTL DEF Spec

-----------------------------------------------------------------------------
(* The tokens                                                              *)

(* Besides the stored pair, a refresh under way too is the signed-in       *)
(* person's: it asked with the refresh token of the moment it began.       *)
RefreshIsTheUsers ==
  ~raced => \A t \in Tab : refresh[t] # None => refresh[t].user = self

TokensInv == TokensAreTheUsers /\ RefreshIsTheUsers

(***************************************************************************)
(* Without a login or logout in the middle of a refresh nobody works under *)
(* another person's session (lib/api.ts 57-90, lib/auth.ts).               *)
(***************************************************************************)
THEOREM NobodyElsesTokens == Spec => []TokensAreTheUsers
<1>1. Init => TokensInv
  BY DEF Init, TokensInv, TokensAreTheUsers, RefreshIsTheUsers
<1>2. TypeInv /\ TokensInv /\ [Next]_vars => TokensInv'
  <2> SUFFICES ASSUME TypeInv, TokensInv, [Next]_vars PROVE TokensInv'
    OBVIOUS
  <2>0. /\ refresh \in [Tab -> Refreshes \cup {None}]
        /\ TabOf \in [Req -> Tab]
    BY WebSessionAssumption DEF TypeInv, TypeOK, Refreshes
  <2> USE DEF TokensInv, TokensAreTheUsers, RefreshIsTheUsers
  <2>1. CASE UNCHANGED <<store, refresh, self, raced>>
    BY <2>1 DEF store
  <2>2. ASSUME NEW r \in Req, AnswerLogin(r)
        PROVE  TokensInv'
    BY <2>2 DEF AnswerLogin, saveTokens, RefreshInFlight
  <2>3. ASSUME NEW r \in Req, NoRefreshToken(r)
        PROVE  TokensInv'
    BY <2>3 DEF NoRefreshToken, clearTokens, hist
  <2>4. ASSUME NEW r \in Req, StartRefresh(r)
        PROVE  TokensInv'
    <3>1. /\ UNCHANGED <<access, renewal, self, raced>>
          /\ renewal # None
      BY <2>4 DEF StartRefresh, store, hist
    <3>2. \A t \in Tab : refresh'[t] = refresh[t] \/ refresh'[t].user = renewal
      BY <2>0, <2>4 DEF StartRefresh
    <3> QED
      BY <3>1, <3>2
  <2>5. ASSUME NEW t \in Tab, RefreshOk(t)
        PROVE  TokensInv'
    <3>1. /\ access'.user = refresh[t].user /\ renewal' = refresh[t].user
          /\ refresh[t] # None /\ UNCHANGED <<self, raced>>
      BY <2>5 DEF RefreshOk, saveTokens, hist
    <3>2. \A s \in Tab : refresh'[s] = refresh[s] \/ refresh'[s] = None
      BY <2>0, <2>5 DEF RefreshOk
    <3> QED
      BY <3>1, <3>2
  <2>6. ASSUME NEW t \in Tab, RefreshFails(t) \/ Reload(t)
        PROVE  TokensInv'
    <3>1. /\ access' = None \/ access' = access
          /\ renewal' = None \/ renewal' = renewal
          /\ UNCHANGED <<self, raced>>
      BY <2>6 DEF RefreshFails, Reload, clearTokens, store, hist
    <3>2. \A s \in Tab : refresh'[s] = refresh[s] \/ refresh'[s] = None
      BY <2>0, <2>6 DEF RefreshFails, Reload
    <3> QED
      BY <3>1, <3>2
  <2>7. ASSUME NEW t \in Tab, Logout(t)
        PROVE  TokensInv'
    BY <2>7 DEF Logout, clearTokens, RefreshInFlight
  <2>8. CASE Expire
    <3>1. access'.user = access.user
      BY <2>8 DEF Expire, isAuthenticated, TypeInv, TypeOK, AccessTokens
    <3> QED
      BY <2>8, <3>1 DEF Expire, isAuthenticated, tabs
  <2>9. ASSUME NEW r \in Req, Send(r) \/ Settle(r)
        PROVE  TokensInv'
    BY <2>1, <2>2, <2>3, <2>4, <2>9 DEF Settle, Send, AnswerData, AnswerError,
       GiveUp, JoinQueue, tabs, hist
  <2>10. ASSUME NEW r \in Req,
                SubmitLogin(r, None, "badLogin")
                  \/ \E u \in User : SubmitLogin(r, u, "login")
         PROVE  TokensInv'
    BY <2>1, <2>10 DEF SubmitLogin, tabs
  <2>11. ASSUME NEW t \in Tab, NEW p \in {"admin", "portal"}, Navigate(t, p)
         PROVE  TokensInv'
    BY <2>1, <2>11 DEF Navigate, hist
  <2>12. CASE UNCHANGED vars
    BY <2>1, <2>12 DEF vars, store
  <2> QED
    BY <2>5, <2>6, <2>7, <2>8, <2>9, <2>10, <2>11, <2>12 DEF Next
<1>3. TokensInv => TokensAreTheUsers
  BY DEF TokensInv
<1> QED
  BY <1>1, <1>2, <1>3, AlwaysTyped, PTL DEF Spec

(***************************************************************************)
(* A stored session ends with a logout or with a refresh that failed, and  *)
(* with nothing else (lib/api.ts 57-90, the layouts' handleLogout).        *)
(***************************************************************************)
THEOREM LossIsExplained == Spec => LossHasACause
<1>1. TypeInv /\ [Next]_vars => [SessionLost => LoggedOut \/ RefreshFailed]_vars
  <2> SUFFICES ASSUME TypeInv, [Next]_vars, renewal # None, renewal' = None
               PROVE  LoggedOut \/ RefreshFailed
    BY DEF SessionLost
  <2>0. /\ refresh \in [Tab -> Refreshes \cup {None}]
        /\ path \in [Tab -> {"login", "admin", "portal"}]
        /\ None \notin User
    BY WebSessionAssumption DEF TypeInv, TypeOK, Refreshes
  <2>1. ASSUME NEW r \in Req, AnswerLogin(r)
        PROVE  FALSE
    BY <2>0, <2>1 DEF AnswerLogin, saveTokens, TypeInv, LoginNamed
  <2>2. ASSUME NEW t \in Tab, RefreshOk(t)
        PROVE  FALSE
    <3>1. refresh[t].user \in User
      BY <2>0, <2>2 DEF RefreshOk, Refreshes
    <3> QED
      BY <2>0, <2>2, <3>1 DEF RefreshOk, saveTokens
  <2>3. ASSUME NEW t \in Tab, RefreshFails(t)
        PROVE  RefreshFailed
    BY <2>0, <2>3 DEF RefreshFails, RefreshFailed
  <2>4. ASSUME NEW t \in Tab, Logout(t)
        PROVE  LoggedOut
    BY <2>0, <2>4 DEF Logout, LoggedOut
  <2>5. ASSUME NEW r \in Req, Send(r) \/ Settle(r)
        PROVE  FALSE
    BY <2>1, <2>5 DEF Settle, Send, AnswerData, AnswerError, GiveUp, JoinQueue,
       NoRefreshToken, StartRefresh, store
  <2>6. ASSUME NEW r \in Req,
               SubmitLogin(r, None, "badLogin")
                 \/ \E u \in User : SubmitLogin(r, u, "login")
        PROVE  FALSE
    BY <2>6 DEF SubmitLogin, store
  <2>7. ASSUME NEW t \in Tab,
               Reload(t) \/ \E p \in {"admin", "portal"} : Navigate(t, p)
        PROVE  FALSE
    BY <2>7 DEF Reload, Navigate, store
  <2>8. CASE Expire \/ UNCHANGED vars
    BY <2>8 DEF Expire, vars
  <2> QED
    BY <2>2, <2>3, <2>4, <2>5, <2>6, <2>7, <2>8 DEF Next
<1> QED
  BY <1>1, AlwaysTyped, PTL DEF Spec, LossHasACause

=============================================================================
