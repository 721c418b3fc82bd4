----------------------------- MODULE WebSession -----------------------------
(***************************************************************************)
(* The signed-in session of the web application: the token pair in the     *)
(* browser's localStorage, the axios client of lib/api.ts with its         *)
(* interceptors (attach the token, refresh it on a 401, let the requests   *)
(* that fail meanwhile wait in failedQueue), the login page, the route     *)
(* guard and the logout of the two layouts.                                *)
(*                                                                         *)
(* localStorage is shared by all tabs; isRefreshing and failedQueue are    *)
(* variables of one tab's JavaScript and are lost when the tab reloads.    *)
(* One handler runs to its next await without interruption.                *)
(***************************************************************************)
EXTENDS Naturals, FiniteSets

CONSTANTS
    Tab,          \* browser tabs with the application open
    Req,          \* request slots: an axios request with its config object
    TabOf,        \* TabOf[r]: the tab whose page issues request r
    User,         \* people with an account
    Admins,       \* the users whose role is admin or technician
    None,
    MaxExpiries,  \* how often an access token runs out in one behaviour
    MaxVisits     \* how often the login form is submitted or a logout clicked

ASSUME WebSessionAssumption ==
    /\ TabOf \in [Req -> Tab]
    /\ Admins \subseteq User
    /\ None \notin User \cup Req \cup [owner : Req, user : User]
    /\ MaxExpiries \in Nat /\ MaxVisits \in Nat

VARIABLES
    access,       \* omji_access_token: the user it names and whether it is unexpired
    renewal,      \* omji_refresh_token: the user it names
    path,         \* path[t]: the area of the application tab t shows
    leaving,      \* leaving[t]: window.location.href was set, the reload is not done
    isRefreshing, \* the flag of lib/api.ts in tab t
    failedQueue,  \* failedQueue[t]: the requests waiting for tab t's refresh
    refresh,      \* refresh[t]: the POST /auth/refresh of tab t in flight
    req,          \* the requests
    expiries, visits,
    self,         \* history: who is signed in, as the person at the browser knows
    raced         \* history: a session ended or began while a refresh was in flight

vars == <<access, renewal, path, leaving, isRefreshing, failedQueue, refresh,
          req, expiries, visits, self, raced>>
store == <<access, renewal>>
tabs  == <<path, leaving, isRefreshing, failedQueue, refresh>>
hist  == <<expiries, visits, self, raced>>

Role(u) == IF u \in Admins THEN "admin" ELSE "portal"

Idle == [kind |-> "idle", user |-> None, token |-> "none", retry |-> FALSE]

AccessTokens == [user : User, live : BOOLEAN]
Requests ==
    [kind : {"idle", "data", "login", "badLogin"}, user : User \cup {None},
     token : {"none", "live", "dead"}, retry : BOOLEAN]

-----------------------------------------------------------------------------
(* lib/auth.ts *)

saveTokens(u) == access' = [user |-> u, live |-> TRUE] /\ renewal' = u

(* Deviation: only the access token is removed.                             *)
clearAccessOnly == access' = None /\ renewal' = renewal

clearTokens == access' = None /\ renewal' = None

isAuthenticated == access # None /\ access.live

(* The area a tab shows when it is sent to area p: the route guards let a   *)
(* user in whose unexpired access token names one of the area's roles.      *)
ProtectedRoute(p) ==
    IF p # "login" /\ isAuthenticated /\ Role(access.user) = p THEN p ELSE "login"

-----------------------------------------------------------------------------
(* lib/api.ts *)

(* Deviation: a missing token is sent as the word "null".                   *)
AttachNull(q, a) ==
    [q EXCEPT !.token = IF a = None THEN "null" ELSE IF a.live THEN "live" ELSE "dead"]

(* Request interceptor: the request carries the access token of the moment  *)
(* it is sent.                                                              *)
Attach(q, a) ==
    [q EXCEPT !.token = IF a = None THEN "none" ELSE IF a.live THEN "live" ELSE "dead"]

InFlight(r) ==
    /\ req[r].kind # "idle"
    /\ \A t \in Tab : r \notin failedQueue[t]
    /\ \A t \in Tab : refresh[t] # None => refresh[t].owner # r

RefreshInFlight == \E t \in Tab : refresh[t] # None

(* A page of tab t asks for data or changes it. *)
Send(r) ==
    /\ req[r] = Idle
    /\ ~leaving[TabOf[r]]
    /\ path[TabOf[r]] # "login"
    /\ req' = [req EXCEPT ![r] = Attach([Idle EXCEPT !.kind = "data"], access)]
    /\ UNCHANGED <<store, tabs, hist>>

(* Login.handleSubmit: the form is submitted with right or wrong            *)
(* credentials; the button is disabled while a submission is under way.     *)
SubmitLogin(r, u, k) ==
    LET t == TabOf[r]
    IN  /\ visits < MaxVisits
        /\ req[r] = Idle
        /\ path[t] = "login" /\ ~leaving[t]
        /\ \A s \in Req : TabOf[s] = t => req[s].kind \notin {"login", "badLogin"}
        /\ req' = [req EXCEPT ![r] = Attach([Idle EXCEPT !.kind = k, !.user = u], access)]
        /\ visits' = visits + 1
        /\ UNCHANGED <<store, tabs, expiries, self, raced>>

(* The request is rejected to its caller, which shows an error or ignores it. *)
Reject(r) == req' = [req EXCEPT ![r] = Idle]

(* A data request is answered, and not with a 401. (An answer given before  *)
(* the token ran out and delivered after it is the same as one delivered    *)
(* before: it only reaches the caller.)                                     *)
AnswerData(r) ==
    /\ InFlight(r) /\ req[r].kind = "data" /\ req[r].token = "live"
    /\ Reject(r)
    /\ UNCHANGED <<store, tabs, hist>>

(* The network fails, or the server answers with an error other than 401. *)
AnswerError(r) ==
    /\ InFlight(r)
    /\ Reject(r)
    /\ UNCHANGED <<store, tabs, hist>>

(* The login succeeded: both tokens are stored, the tab goes to its area. *)
AnswerLogin(r) ==
    LET u == req[r].user
    IN  /\ InFlight(r) /\ req[r].kind = "login"
        /\ saveTokens(u)
        /\ path' = [path EXCEPT ![TabOf[r]] = Role(u)]
        /\ Reject(r)
        /\ self' = u
        /\ raced' = (raced \/ RefreshInFlight)
        /\ UNCHANGED <<leaving, isRefreshing, failedQueue, refresh, expiries, visits>>

Unauthorized(r) ==
    /\ InFlight(r)
    /\ \/ req[r].kind = "data" /\ req[r].token # "live"
       \/ req[r].kind = "badLogin"

(* 401 of a request that was already retried: the caller gets the error. *)
GiveUp(r) ==
    /\ Unauthorized(r) /\ req[r].retry
    /\ Reject(r)
    /\ UNCHANGED <<store, tabs, hist>>

(* 401 while this tab refreshes: the request waits in failedQueue. *)
JoinQueue(r) ==
    LET t == TabOf[r]
    IN  /\ Unauthorized(r) /\ ~req[r].retry /\ isRefreshing[t]
        /\ failedQueue' = [failedQueue EXCEPT ![t] = @ \cup {r}]
        /\ UNCHANGED <<store, path, leaving, isRefreshing, refresh, req, hist>>

(* Deviation: the handler does not look for a refresh token, and gives up.  *)
NoRefreshAttempt(r) ==
    LET t == TabOf[r]
    IN  /\ Unauthorized(r) /\ ~req[r].retry /\ ~isRefreshing[t]
        /\ isRefreshing' = [isRefreshing EXCEPT ![t] = TRUE]
        /\ clearTokens
        /\ leaving' = [leaving EXCEPT ![t] = TRUE]
        /\ Reject(r)
        /\ UNCHANGED <<path, failedQueue, refresh, hist>>

(* 401 with nothing to refresh with: the tokens are cleared and the tab     *)
(* reloads at /login. isRefreshing stays set and the queue unprocessed.     *)
NoRefreshToken(r) ==
    LET t == TabOf[r]
    IN  /\ Unauthorized(r) /\ ~req[r].retry /\ ~isRefreshing[t]
        /\ renewal = None
        /\ isRefreshing' = [isRefreshing EXCEPT ![t] = TRUE]
        /\ clearTokens
        /\ leaving' = [leaving EXCEPT ![t] = TRUE]
        /\ Reject(r)
        /\ UNCHANGED <<path, failedQueue, refresh, hist>>

(* 401 with a refresh token: this request's handler asks for a new pair. *)
StartRefresh(r) ==
    LET t == TabOf[r]
    IN  /\ Unauthorized(r) /\ ~req[r].retry /\ ~isRefreshing[t]
        /\ renewal # None
        /\ isRefreshing' = [isRefreshing EXCEPT ![t] = TRUE]
        /\ refresh' = [refresh EXCEPT ![t] = [owner |-> r, user |-> renewal]]
        /\ req' = [req EXCEPT ![r].retry = TRUE]
        /\ UNCHANGED <<store, path, leaving, failedQueue, hist>>

(* Deviation: processQueue is not called after a refresh.                   *)
RefreshKeepsQueue(t) ==
    /\ refresh[t] # None
    /\ saveTokens(refresh[t].user)
    /\ req' = [req EXCEPT ![refresh[t].owner] = Attach(@, access')]
    /\ refresh' = [refresh EXCEPT ![t] = None]
    /\ isRefreshing' = [isRefreshing EXCEPT ![t] = FALSE]
    /\ UNCHANGED <<path, leaving, failedQueue, hist>>

(* The new pair is stored; the request that asked for it and the requests   *)
(* in the queue are sent again, these without the mark of a retry.          *)
RefreshOk(t) ==
    /\ refresh[t] # None
    /\ saveTokens(refresh[t].user)
    /\ req' = [r \in Req |-> IF r \in failedQueue[t] \cup {refresh[t].owner}
                             THEN Attach(req[r], access') ELSE req[r]]
    /\ failedQueue' = [failedQueue EXCEPT ![t] = {}]
    /\ refresh' = [refresh EXCEPT ![t] = None]
    /\ isRefreshing' = [isRefreshing EXCEPT ![t] = FALSE]
    /\ UNCHANGED <<path, leaving, hist>>

(* Deviation: after a refresh that failed isRefreshing stays set, and the   *)
(* tab does not reload.                                                     *)
RefreshFailsForGood(t) ==
    /\ refresh[t] # None
    /\ req' = [r \in Req |-> IF r \in failedQueue[t] \cup {refresh[t].owner}
                             THEN Idle ELSE req[r]]
    /\ failedQueue' = [failedQueue EXCEPT ![t] = {}]
    /\ refresh' = [refresh EXCEPT ![t] = None]
    /\ clearTokens
    /\ UNCHANGED <<path, leaving, isRefreshing, hist>>

(* The refresh was refused or the network failed: all waiting requests are  *)
(* rejected, the tokens cleared, and the tab reloads at /login.             *)
RefreshFails(t) ==
    /\ refresh[t] # None
    /\ req' = [r \in Req |-> IF r \in failedQueue[t] \cup {refresh[t].owner}
                             THEN Idle ELSE req[r]]
    /\ failedQueue' = [failedQueue EXCEPT ![t] = {}]
    /\ refresh' = [refresh EXCEPT ![t] = None]
    /\ isRefreshing' = [isRefreshing EXCEPT ![t] = FALSE]
    /\ clearTokens
    /\ leaving' = [leaving EXCEPT ![t] = TRUE]
    /\ UNCHANGED <<path, hist>>

(* The reload begun by window.location.href: a new JavaScript context. *)
Reload(t) ==
    /\ leaving[t]
    /\ leaving' = [leaving EXCEPT ![t] = FALSE]
    /\ path' = [path EXCEPT ![t] = "login"]
    /\ isRefreshing' = [isRefreshing EXCEPT ![t] = FALSE]
    /\ failedQueue' = [failedQueue EXCEPT ![t] = {}]
    /\ refresh' = [refresh EXCEPT ![t] = None]
    /\ req' = [r \in Req |-> IF TabOf[r] = t THEN Idle ELSE req[r]]
    /\ UNCHANGED <<store, hist>>

-----------------------------------------------------------------------------
(* The layouts, the router and time *)

(* handleLogout of both layouts: the tab does not reload, so its requests   *)
(* and a refresh under way go on.                                           *)
Logout(t) ==
    /\ visits < MaxVisits
    /\ path[t] # "login" /\ ~leaving[t]
    /\ clearTokens
    /\ path' = [path EXCEPT ![t] = "login"]
    /\ self' = None
    /\ raced' = (raced \/ RefreshInFlight)
    /\ visits' = visits + 1
    /\ UNCHANGED <<leaving, isRefreshing, failedQueue, refresh, req, expiries>>

(* A link, the address bar's history or a bookmark leads tab t to area p. *)
Navigate(t, p) ==
    /\ ~leaving[t]
    /\ path[t] # ProtectedRoute(p)
    /\ path' = [path EXCEPT ![t] = ProtectedRoute(p)]
    /\ UNCHANGED <<store, leaving, isRefreshing, failedQueue, refresh, req, hist>>

(* The access token's exp passes, also for requests that carry it. *)
Expire ==
    /\ expiries < MaxExpiries
    /\ isAuthenticated
    /\ access' = [access EXCEPT !.live = FALSE]
    /\ req' = [r \in Req |-> IF req[r].token = "live"
                             THEN [req[r] EXCEPT !.token = "dead"] ELSE req[r]]
    /\ expiries' = expiries + 1
    /\ UNCHANGED <<renewal, tabs, visits, self, raced>>

-----------------------------------------------------------------------------
Init ==
    /\ \/ access = None /\ renewal = None /\ self = None
       \/ \E u \in User : /\ access = [user |-> u, live |-> TRUE]
                          /\ renewal = u /\ self = u
    /\ path = [t \in Tab |-> IF self = None THEN "login" ELSE Role(self)]
    /\ leaving = [t \in Tab |-> FALSE]
    /\ isRefreshing = [t \in Tab |-> FALSE]
    /\ failedQueue = [t \in Tab |-> {}]
    /\ refresh = [t \in Tab |-> None]
    /\ req = [r \in Req |-> Idle]
    /\ expiries = 0 /\ visits = 0
    /\ raced = FALSE

Settle(r) ==
    AnswerData(r) \/ AnswerError(r) \/ AnswerLogin(r) \/ GiveUp(r) \/ JoinQueue(r)
    \/ NoRefreshToken(r) \/ StartRefresh(r)

Next ==
    \/ \E r \in Req : Send(r) \/ Settle(r)
    \/ \E r \in Req : SubmitLogin(r, None, "badLogin") \/ \E u \in User : SubmitLogin(r, u, "login")
    \/ \E t \in Tab : RefreshOk(t) \/ RefreshFails(t) \/ Reload(t) \/ Logout(t)
    \/ \E t \in Tab, p \in {"admin", "portal"} : Navigate(t, p)
    \/ Expire

(* A refresh gets an answer or the failure of its connection, and the       *)
(* browser carries out a reload it was asked for. Nobody is obliged to      *)
(* click, and no token to expire.                                           *)
Fairness ==
    \A t \in Tab : WF_vars(RefreshOk(t) \/ RefreshFails(t)) /\ WF_vars(Reload(t))

Spec == Init /\ [][Next]_vars /\ Fairness

-----------------------------------------------------------------------------
(* Properties *)

(* The variables' types. *)
TypeOK ==
    /\ access \in AccessTokens \cup {None}
    /\ renewal \in User \cup {None}
    /\ path \in [Tab -> {"login", "admin", "portal"}]
    /\ leaving \in [Tab -> BOOLEAN]
    /\ isRefreshing \in [Tab -> BOOLEAN]
    /\ failedQueue \in [Tab -> SUBSET Req]
    /\ refresh \in [Tab -> [owner : Req, user : User] \cup {None}]
    /\ req \in [Req -> Requests]
    /\ expiries \in 0..MaxExpiries /\ visits \in 0..MaxVisits
    /\ self \in User \cup {None}
    /\ raced \in BOOLEAN

(* lib/api.ts 22-37: a request waits in failedQueue only while a refresh of *)
(* its tab is under way that will empty the queue, or the tab is reloading; *)
(* a refresh under way keeps isRefreshing set, so no second one starts.     *)
QueueIsServed ==
    \A t \in Tab :
        /\ failedQueue[t] # {} => refresh[t] # None \/ leaving[t]
        /\ refresh[t] # None => isRefreshing[t]
        /\ isRefreshing[t] => refresh[t] # None \/ leaving[t]

(* lib/api.ts 70-83 with the layouts' logout: unless a session ended or     *)
(* began during a refresh, the stored pair is that of the person who is     *)
(* signed in, in every tab, and nobody is signed in by a refresh.           *)
TokensAreTheUsers ==
    ~raced => /\ access # None => access.user = self
              /\ renewal # None => renewal = self

(* lib/api.ts 63-68 and 79-82: a stored session is lost only by a logout or *)
(* by the failure of a refresh, never by a request that found no tokens     *)
(* when it was sent or by a wrong password.                                 *)
SessionLost == renewal # None /\ renewal' = None
LoggedOut == self' = None /\ \E t \in Tab : path'[t] # path[t]
RefreshFailed == \E t \in Tab : refresh[t] # None /\ refresh'[t] = None
LossHasACause == [][SessionLost => LoggedOut \/ RefreshFailed]_vars

(* lib/api.ts 22-37: the requests that wait for a refresh in another        *)
(* request's hands are sent again or rejected at last, or their tab reloads. *)
WaitersAreServed == \A t \in Tab : failedQueue[t] # {} ~> failedQueue[t] = {}

=============================================================================
