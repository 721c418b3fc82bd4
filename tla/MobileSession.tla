--------------------------- MODULE MobileSession ---------------------------
(***************************************************************************)
(* The signed-in session of the mobile application: the three entries of   *)
(* the device's secure store (utils/storage.ts), the React state of        *)
(* context/AuthContext.tsx, the client services/api.ts whose requests      *)
(* share one token refresh, and hooks/useApi.ts, which signs the user out  *)
(* when a mounted screen's request reports SESSION_EXPIRED.                *)
(*                                                                         *)
(* Unlike the browser's localStorage the secure store is asynchronous:     *)
(* each of its writes is a step of its own, and other handlers run between *)
(* two of them. The app may be killed at any step; the store survives.     *)
(***************************************************************************)
EXTENDS Naturals

CONSTANTS
    Req,          \* slots for a request or a logout under way
    KindsOf,      \* KindsOf[r]: what slot r is used for
    User,         \* people with an account
    None,
    MaxExpiries,  \* how often an access token runs out
    MaxVisits     \* how often somebody signs in, or out by the button, or the
                  \* app is killed and opened again

(* A screen's useApi request, a handler's request, refreshUser, the two     *)
(* outcomes of the login form, and logout.                                  *)
Kinds == {"data", "act", "me", "login", "badLogin", "logout"}

ASSUME MobileSessionAssumption ==
    /\ KindsOf \in [Req -> SUBSET Kinds]
    /\ None \notin User \cup Req
    /\ MaxExpiries \in Nat /\ MaxVisits \in Nat

VARIABLES
    sAccess,   \* omji_access_token: its user and whether it is unexpired
    sRefresh,  \* omji_refresh_token: its user
    sUser,     \* omji_user
    user,      \* the state `user' of AuthProvider; None shows the login screen
    req,       \* the requests and logouts under way
    refresh,   \* refreshPromise: the one refresh under way, or None
    expiries, visits,
    overlap    \* history: two handlers that change the session have overlapped,
               \* or the app was killed in the middle of one

vars == <<sAccess, sRefresh, sUser, user, req, refresh, expiries, visits, overlap>>
store == <<sAccess, sRefresh, sUser>>
counts == <<expiries, visits>>

Waiting == {"await", "expired"}
Saving  == {"saveAccess", "saveRefresh", "saveUser", "setUser"}
Clearing == {"clearAccess", "clearRefresh", "clearUser", "unsetUser"}

Idle == [kind |-> "idle", who |-> None, pc |-> "idle", live |-> FALSE, mounted |-> FALSE]

Requests ==
    [kind : Kinds \cup {"idle"}, who : User \cup {None},
     pc : {"idle", "sent", "retried"} \cup Waiting \cup Saving \cup Clearing,
     live : BOOLEAN, mounted : BOOLEAN]

AccessTokens == [user : User, live : BOOLEAN]

Refreshes ==
    [pc : {"read", "post", "saveAccess", "saveRefresh", "clearAccess",
           "clearRefresh", "clearUser"}, user : User \cup {None}]

ASSUME NoneAssumption == None \notin AccessTokens \cup Refreshes

Fresh(u) == [user |-> u, live |-> TRUE]

At(r, pc) == [req[r] EXCEPT !.pc = pc, !.live = FALSE]
Goto(r, pc) == req' = [req EXCEPT ![r] = At(r, pc)]
Done(r) == req' = [req EXCEPT ![r] = Idle]

(* Who may write the store next: the refresh, logins and profile reloads    *)
(* from their request on, and logouts.                                      *)
Writers == {r \in Req : \/ req[r].kind \in {"me", "login", "logout"}
                        \/ req[r].pc \in Clearing}
           \cup (IF refresh = None THEN {} ELSE {None})

Overlapping == \E a, b \in Writers : a # b

-----------------------------------------------------------------------------
(* services/api.ts *)

(* apiRequest and apiUpload up to the first fetch: getValidToken waits for  *)
(* a refresh under way, else it takes the stored token, if there is one.    *)
Start(r, k, w) ==
    /\ req[r] = Idle /\ k \in KindsOf[r]
    /\ req' = [req EXCEPT ![r] =
          [kind |-> k, who |-> w, mounted |-> k = "data",
           pc |-> IF refresh # None THEN "await" ELSE "sent",
           live |-> refresh = None /\ sAccess # None /\ sAccess.live]]
    /\ UNCHANGED <<store, user, refresh>>

(* A SessionExpiredError reaches the caller: a mounted screen's useApi      *)
(* starts logout, handlers show an error and refreshUser ignores it.        *)
SessionExpired(r) ==
    IF req[r].mounted THEN At(r, "clearAccess") ELSE Idle

Underway(r) == req[r].pc \in {"sent", "retried"}

(* Deviation: what a login is answered with is stored unread.               *)
AnswerUnread(r) ==
    /\ Underway(r)
    /\ req[r].kind \notin {"login", "badLogin"} => req[r].live
    /\ req' = [req EXCEPT ![r] = CASE req[r].kind \in {"login", "badLogin"} -> At(r, "saveAccess")
                                   [] req[r].kind = "me"    -> At(r, "saveUser")
                                   [] OTHER                 -> Idle]
    /\ UNCHANGED <<store, user, refresh>>

(* The answer 2xx: a login stores its tokens, refreshUser its user. *)
Answer(r) ==
    /\ Underway(r)
    /\ req[r].kind # "badLogin"
    /\ req[r].kind # "login" => req[r].live
    /\ req' = [req EXCEPT ![r] = CASE req[r].kind = "login" -> At(r, "saveAccess")
                                   [] req[r].kind = "me"    -> At(r, "saveUser")
                                   [] OTHER                 -> Idle]
    /\ UNCHANGED <<store, user, refresh>>

(* The network fails or the server reports an error. After the refresh a    *)
(* failure of the network is turned into a SessionExpiredError too.         *)
Fail(r) ==
    /\ Underway(r)
    /\ \/ Done(r)
       \/ /\ req[r].pc = "retried"
          /\ req' = [req EXCEPT ![r] = SessionExpired(r)]
    /\ UNCHANGED <<store, user, refresh>>

(* 401 on the first fetch: the request waits for the refresh under way, or  *)
(* for the one it starts (handleTokenRefresh). 401 on the second is an error. *)
Unauthorized(r) ==
    /\ Underway(r)
    /\ req[r].kind = "badLogin" \/ (req[r].kind # "login" /\ ~req[r].live)
    /\ IF req[r].pc = "sent"
         THEN /\ Goto(r, "expired")
              /\ refresh' = IF refresh = None THEN [pc |-> "read", user |-> None] ELSE refresh
         ELSE Done(r) /\ UNCHANGED refresh
    /\ UNCHANGED <<store, user>>

(* Deviation: who waits in getValidToken is forgotten.                      *)
ResolveExpired ==
    /\ req' = [r \in Req |-> IF req[r].pc = "expired"
                             THEN [At(r, "retried") EXCEPT !.live = TRUE] ELSE req[r]]
    /\ refresh' = None

(* refreshPromise settles: all who wait for it go on, and it is forgotten.  *)
Resolve ==
    /\ req' = [r \in Req |->
                 CASE req[r].pc = "await"   -> [At(r, "sent") EXCEPT !.live = TRUE]
                   [] req[r].pc = "expired" -> [At(r, "retried") EXCEPT !.live = TRUE]
                   [] OTHER                 -> req[r]]
    /\ refresh' = None

Expired ==
    /\ req' = [r \in Req |-> IF req[r].pc \in Waiting THEN SessionExpired(r) ELSE req[r]]
    /\ refresh' = None

(* The refresh request's network failure: who waits since a 401 turns it    *)
(* into SESSION_EXPIRED, who waits in getValidToken passes it on.           *)
Broken ==
    /\ req' = [r \in Req |-> CASE req[r].pc = "await"   -> Idle
                               [] req[r].pc = "expired" -> SessionExpired(r)
                               [] OTHER                 -> req[r]]
    /\ refresh' = None

RefreshAt(pc) == refresh # None /\ refresh.pc = pc

(* Deviation: a refresh is asked for without a refresh token.               *)
RefreshReadNothing ==
    /\ RefreshAt("read")
    /\ refresh' = [pc |-> "post", user |-> sRefresh]
    /\ UNCHANGED <<store, user, req>>

(* refreshAccessToken, one action per await. *)
RefreshRead ==
    /\ RefreshAt("read")
    /\ IF sRefresh = None
         THEN Expired
         ELSE refresh' = [pc |-> "post", user |-> sRefresh] /\ UNCHANGED req
    /\ UNCHANGED <<store, user>>

RefreshAnswer ==
    /\ RefreshAt("post")
    /\ \/ \E next \in {"saveAccess", "clearAccess"} :
             refresh' = [refresh EXCEPT !.pc = next] /\ UNCHANGED req
       \/ Broken
    /\ UNCHANGED <<store, user>>

RefreshSaves ==
    \/ /\ RefreshAt("saveAccess")
       /\ sAccess' = Fresh(refresh.user)
       /\ refresh' = [refresh EXCEPT !.pc = "saveRefresh"]
       /\ UNCHANGED <<sRefresh, sUser, user, req>>
    \/ /\ RefreshAt("saveRefresh")
       /\ sRefresh' = refresh.user
       /\ Resolve
       /\ UNCHANGED <<sAccess, sUser, user>>

RefreshClears ==
    \/ /\ RefreshAt("clearAccess")
       /\ sAccess' = None
       /\ refresh' = [refresh EXCEPT !.pc = "clearRefresh"]
       /\ UNCHANGED <<sRefresh, sUser, user, req>>
    \/ /\ RefreshAt("clearRefresh")
       /\ sRefresh' = None
       /\ refresh' = [refresh EXCEPT !.pc = "clearUser"]
       /\ UNCHANGED <<sAccess, sUser, user, req>>
    \/ /\ RefreshAt("clearUser")
       /\ sUser' = None
       /\ Expired
       /\ UNCHANGED <<sAccess, sRefresh, user>>

-----------------------------------------------------------------------------
(* context/AuthContext.tsx *)

(* login after its request: saveTokens, saveUser, setUser; refreshUser      *)
(* shares the last two.                                                     *)
SaveSession(r) ==
    /\ \/ /\ req[r].pc = "saveAccess"
          /\ sAccess' = Fresh(req[r].who)
          /\ Goto(r, "saveRefresh")
          /\ UNCHANGED <<sRefresh, sUser, user>>
       \/ /\ req[r].pc = "saveRefresh"
          /\ sRefresh' = req[r].who
          /\ Goto(r, "saveUser")
          /\ UNCHANGED <<sAccess, sUser, user>>
       \/ /\ req[r].pc = "saveUser"
          /\ sUser' = req[r].who
          /\ Goto(r, "setUser")
          /\ UNCHANGED <<sAccess, sRefresh, user>>
       \/ /\ req[r].pc = "setUser"
          /\ user' = req[r].who
          /\ Done(r)
          /\ UNCHANGED store
    /\ UNCHANGED refresh

(* Deviation: clearAll forgets the stored user.                             *)
ClearTokens(r) ==
    /\ \/ /\ req[r].pc = "clearAccess"
          /\ sAccess' = None
          /\ Goto(r, "clearRefresh")
          /\ UNCHANGED <<sRefresh, sUser, user>>
       \/ /\ req[r].pc = "clearRefresh"
          /\ sRefresh' = None
          /\ Goto(r, "unsetUser")
          /\ UNCHANGED <<sAccess, sUser, user>>
       \/ /\ req[r].pc = "unsetUser"
          /\ user' = None
          /\ req' = [s \in Req |-> IF s = r THEN Idle ELSE [req[s] EXCEPT !.mounted = FALSE]]
          /\ UNCHANGED store
    /\ UNCHANGED refresh

(* logout: clearAll, then setUser(null), which unmounts all screens. *)
ClearSession(r) ==
    /\ \/ /\ req[r].pc = "clearAccess"
          /\ sAccess' = None
          /\ Goto(r, "clearRefresh")
          /\ UNCHANGED <<sRefresh, sUser, user>>
       \/ /\ req[r].pc = "clearRefresh"
          /\ sRefresh' = None
          /\ Goto(r, "clearUser")
          /\ UNCHANGED <<sAccess, sUser, user>>
       \/ /\ req[r].pc = "clearUser"
          /\ sUser' = None
          /\ Goto(r, "unsetUser")
          /\ UNCHANGED <<sAccess, sRefresh, user>>
       \/ /\ req[r].pc = "unsetUser"
          /\ user' = None
          /\ req' = [s \in Req |-> IF s = r THEN Idle ELSE [req[s] EXCEPT !.mounted = FALSE]]
          /\ UNCHANGED store
    /\ UNCHANGED refresh

-----------------------------------------------------------------------------
(* The screens and the device *)

(* What a signed-in user's screens ask for. *)
Screen(r) ==
    /\ user # None
    /\ \E k \in {"data", "act", "me"} : Start(r, k, IF k = "me" THEN user ELSE None)
    /\ UNCHANGED counts

(* The login screen; its button is disabled while a login is under way. *)
SignIn(r) ==
    /\ visits < MaxVisits
    /\ user = None
    /\ \A s \in Req : req[s].kind \notin {"login", "badLogin"}
    /\ \E u \in User, k \in {"login", "badLogin"} : Start(r, k, u)
    /\ visits' = visits + 1
    /\ UNCHANGED expiries

(* The profile screens' sign-out button, after its confirmation. *)
SignOut(r) ==
    /\ visits < MaxVisits
    /\ user # None
    /\ req[r] = Idle /\ "logout" \in KindsOf[r]
    /\ req' = [req EXCEPT ![r] = [Idle EXCEPT !.kind = "logout", !.pc = "clearAccess"]]
    /\ visits' = visits + 1
    /\ UNCHANGED <<store, user, refresh, expiries>>

Expire ==
    /\ expiries < MaxExpiries
    /\ sAccess # None /\ sAccess.live
    /\ sAccess' = [sAccess EXCEPT !.live = FALSE]
    /\ req' = [r \in Req |-> [req[r] EXCEPT !.live = FALSE]]
    /\ expiries' = expiries + 1
    /\ UNCHANGED <<sRefresh, sUser, user, refresh, visits>>

(* The app is killed and opened again: AuthProvider takes the stored user   *)
(* when there is a token, before any screen exists.                         *)
Kill ==
    /\ visits < MaxVisits
    /\ visits' = visits + 1
    /\ user' = IF sAccess = None THEN None ELSE sUser
    /\ req' = [r \in Req |-> Idle]
    /\ refresh' = None
    /\ UNCHANGED <<store, expiries>>

-----------------------------------------------------------------------------
Init ==
    /\ \/ sAccess = None /\ user = None
       \/ \E u \in User : sAccess = Fresh(u) /\ user = u
    /\ sRefresh = user /\ sUser = user
    /\ req = [r \in Req |-> Idle]
    /\ refresh = None
    /\ expiries = 0 /\ visits = 0
    /\ overlap = FALSE

Handler(r) ==
    /\ Answer(r) \/ Fail(r) \/ Unauthorized(r) \/ SaveSession(r) \/ ClearSession(r)
    /\ UNCHANGED counts

RefreshStep ==
    /\ RefreshRead \/ RefreshAnswer \/ RefreshSaves \/ RefreshClears
    /\ UNCHANGED counts

Step ==
    \/ \E r \in Req : Handler(r) \/ Screen(r) \/ SignIn(r) \/ SignOut(r)
    \/ RefreshStep
    \/ Expire

Next ==
    \/ Step /\ overlap' = (overlap \/ Overlapping')
    \/ Kill /\ overlap' = (overlap \/ Writers # {})

(* Requests get an answer or fail, and the store's operations complete.     *)
(* Nobody is obliged to touch the screen, no token to expire.               *)
Fairness == WF_vars(RefreshStep /\ overlap' = (overlap \/ Overlapping'))

Spec == Init /\ [][Next]_vars /\ Fairness

-----------------------------------------------------------------------------
(* Properties *)

(* The variables' types. *)
TypeOK ==
    /\ sAccess \in AccessTokens \cup {None}
    /\ {sRefresh, sUser, user} \subseteq User \cup {None}
    /\ req \in [Req -> Requests]
    /\ refresh \in Refreshes \cup {None}
    /\ expiries \in 0..MaxExpiries /\ visits \in 0..MaxVisits
    /\ overlap \in BOOLEAN

SomeoneWaits == \E r \in Req : req[r].pc \in Waiting

(* services/api.ts 55-75: a request waits for a token only while the one    *)
(* shared refresh is under way that will hand it out or fail.               *)
WaitersHaveARefresh == SomeoneWaits => refresh # None

(* utils/storage.ts and AuthContext.tsx 49-59: when no handler is changing  *)
(* the session, the three entries of the store and the signed-in user agree: *)
(* nothing of a session outlives its logout, and nobody acts with another   *)
(* user's token; unless two such handlers overlapped or one was killed.     *)
StoreAgrees ==
    ~overlap /\ Writers = {} =>
        /\ user = None => sAccess = None /\ sRefresh = None /\ sUser = None
        /\ sAccess # None => sAccess.user = user /\ sRefresh = user /\ sUser = user

(* The app was opened again: no handler survives. *)
Opened == req' = [r \in Req |-> Idle] /\ visits' # visits

(* AuthContext.tsx 47-70: a user appears on a device that showed the login  *)
(* screen only because the login form was answered, or because the app was  *)
(* opened again; unless handlers overlapped. *)
OnlyLoginSignsIn ==
    [][user = None /\ user' # None =>
         \/ \E r \in Req : req[r].kind = "login" /\ req[r].pc = "setUser"
         \/ Opened \/ overlap]_vars

(* services/api.ts 63-76: when requests wait for the refresh, all of them   *)
(* are let go at last, with a token or with an error.                       *)
WaitersAreServed == SomeoneWaits ~> ~SomeoneWaits

=============================================================================
