------------------------- MODULE MobileSessionProofs -------------------------
(***************************************************************************)
(* Theorems about MobileSession for every number of requests and users and *)
(* any number of expiries, logins, logouts and deaths of the application.  *)
(***************************************************************************)
EXTENDS MobileSession, TLAPS

-----------------------------------------------------------------------------
(* Type correctness                                                        *)

Pcs == {"idle", "sent", "retried"} \cup Waiting \cup Saving \cup Clearing

(* Who signs in or asks for the profile names a user, only they save, and  *)
(* a refresh past its read has one too.                                    *)
NamedRequest(q) ==
  /\ q.kind \in {"login", "badLogin", "me"} => q.who \in User
  /\ q.pc \in {"saveUser", "setUser"} => q.kind \in {"login", "me"}
  /\ q.pc \in {"saveAccess", "saveRefresh"} => q.kind = "login"
  /\ q.kind = "logout" => q.pc \in Clearing

Named ==
  /\ \A r \in Req : NamedRequest(req[r])
  /\ refresh # None /\ refresh.pc \in {"post", "saveAccess", "saveRefresh"} =>
       refresh.user \in User

TypeInv == TypeOK /\ Named

LEMMA IdleType == Idle \in Requests /\ NamedRequest(Idle)
BY DEF Idle, Requests, NamedRequest

(* A request is named by its kind, its user and its point.                 *)
LEMMA SameNamed ==
  ASSUME NEW p, NEW q, NamedRequest(p),
         q.kind = p.kind, q.who = p.who, q.pc = p.pc
  PROVE  NamedRequest(q)
BY DEF NamedRequest

(* A request that moves on keeps everything but its point and token.       *)
LEMMA AtFields ==
  ASSUME TypeInv, NEW r \in Req, NEW pc \in Pcs
  PROVE  /\ At(r, pc) \in Requests
         /\ At(r, pc).pc = pc /\ At(r, pc).live = FALSE
         /\ At(r, pc).kind = req[r].kind /\ At(r, pc).who = req[r].who
         /\ [At(r, pc) EXCEPT !.live = TRUE] \in Requests
         /\ [At(r, pc) EXCEPT !.live = TRUE].pc = pc
         /\ [At(r, pc) EXCEPT !.live = TRUE].kind = req[r].kind
         /\ [At(r, pc) EXCEPT !.live = TRUE].who = req[r].who
<1>1. req[r] \in Requests
  BY DEF TypeInv, TypeOK
<1>2. \A q \in Requests : [q EXCEPT !.live = TRUE] \in Requests
  BY DEF Requests
<1>3. At(r, pc) \in Requests
  BY <1>1 DEF At, Requests, Pcs
<1>4. /\ At(r, pc).pc = pc /\ At(r, pc).live = FALSE
      /\ At(r, pc).kind = req[r].kind /\ At(r, pc).who = req[r].who
  BY <1>1 DEF At, Requests
<1>5. ASSUME NEW q \in Requests
      PROVE  /\ [q EXCEPT !.live = TRUE].pc = q.pc
             /\ [q EXCEPT !.live = TRUE].kind = q.kind
             /\ [q EXCEPT !.live = TRUE].who = q.who
  BY DEF Requests
<1> QED
  BY <1>2, <1>3, <1>4, <1>5

(* Where a request may go without losing its name.                         *)
LEMMA AtNamed ==
  ASSUME TypeInv, NEW r \in Req, NEW pc \in Pcs,
         \/ pc \in {"sent", "retried"} \cup Waiting /\ req[r].kind # "logout"
         \/ pc \in Clearing
         \/ pc \in {"saveUser", "setUser"} /\ req[r].kind \in {"login", "me"}
         \/ req[r].kind = "login"
  PROVE  /\ NamedRequest(At(r, pc))
         /\ NamedRequest([At(r, pc) EXCEPT !.live = TRUE])
<1>1. NamedRequest(req[r])
  BY DEF TypeInv, Named
<1> QED
  BY <1>1, AtFields DEF NamedRequest, Waiting, Clearing

LEMMA ExpiredType ==
  ASSUME TypeInv, NEW r \in Req
  PROVE  /\ SessionExpired(r) \in Requests /\ NamedRequest(SessionExpired(r))
         /\ SessionExpired(r) = Idle \/ SessionExpired(r) = At(r, "clearAccess")
<1>1. "clearAccess" \in Pcs /\ "clearAccess" \in Clearing
  BY DEF Pcs, Clearing
<1> QED
  BY <1>1, IdleType, AtFields, AtNamed DEF SessionExpired

(* The requests' part of the invariant, from what happens to each.         *)
LEMMA RequestsTyped ==
  ASSUME req' = [r \in Req |-> req'[r]],
         \A r \in Req : req'[r] \in Requests /\ NamedRequest(req'[r])
  PROVE  req' \in [Req -> Requests] /\ \A r \in Req : NamedRequest(req'[r])
OBVIOUS

StoreTyped ==
  /\ sAccess \in AccessTokens \cup {None}
  /\ sRefresh \in User \cup {None} /\ sUser \in User \cup {None}
  /\ user \in User \cup {None}

RequestsOK == req \in [Req -> Requests] /\ \A r \in Req : NamedRequest(req[r])

RefreshOK ==
  /\ refresh \in Refreshes \cup {None}
  /\ refresh # None /\ refresh.pc \in {"post", "saveAccess", "saveRefresh"} =>
       refresh.user \in User

LEMMA TypeParts ==
  TypeInv <=> /\ StoreTyped /\ RequestsOK /\ RefreshOK
              /\ expiries \in 0..MaxExpiries /\ visits \in 0..MaxVisits
              /\ overlap \in BOOLEAN
BY DEF TypeInv, TypeOK, Named, StoreTyped, RequestsOK, RefreshOK

LEMMA HandlerType ==
  ASSUME TypeInv, NEW r \in Req,
         Answer(r) \/ Fail(r) \/ Unauthorized(r) \/ SaveSession(r) \/ ClearSession(r)
  PROVE  StoreTyped' /\ RequestsOK' /\ RefreshOK'
<1>0. StoreTyped /\ RequestsOK /\ RefreshOK
  BY TypeParts
<1>p. /\ {"saveAccess", "saveRefresh", "saveUser", "setUser", "expired",
          "clearAccess", "clearRefresh", "clearUser", "unsetUser"} \subseteq Pcs
      /\ "expired" \in Waiting
      /\ {"clearAccess", "clearRefresh", "clearUser", "unsetUser"} \subseteq Clearing
  BY DEF Pcs, Saving, Clearing, Waiting
<1>s. ASSUME NEW q \in Requests, NamedRequest(q), req' = [req EXCEPT ![r] = q]
      PROVE  RequestsOK'
  BY <1>0, <1>s DEF RequestsOK
<1>1. CASE Answer(r)
  <2>1. \/ req[r].kind = "login" /\ req' = [req EXCEPT ![r] = At(r, "saveAccess")]
        \/ req[r].kind = "me" /\ req' = [req EXCEPT ![r] = At(r, "saveUser")]
        \/ req' = [req EXCEPT ![r] = Idle]
    BY <1>1 DEF Answer
  <2>2. RequestsOK'
    BY <1>p, <1>s, <2>1, IdleType, AtFields, AtNamed
  <2> QED
    BY <1>0, <1>1, <2>2 DEF Answer, StoreTyped, RefreshOK, store
<1>2. CASE Fail(r)
  <2>1. RequestsOK'
    BY <1>2, <1>s, IdleType, ExpiredType DEF Fail, Done
  <2> QED
    BY <1>0, <1>2, <2>1 DEF Fail, StoreTyped, RefreshOK, store
<1>3. CASE Unauthorized(r)
  <2>1. RequestsOK'
    <3>1. req[r].kind # "logout"
      BY <1>0, <1>3 DEF Unauthorized, Underway, RequestsOK, NamedRequest, Clearing
    <3> QED
      BY <1>3, <1>p, <1>s, <3>1, IdleType, AtFields, AtNamed
         DEF Unauthorized, Done, Goto
  <2>2. RefreshOK'
    <3>1. /\ [pc |-> "read", user |-> None] \in Refreshes
          /\ [pc |-> "read", user |-> None].pc = "read"
      BY DEF Refreshes
    <3>2. refresh' = refresh \/ refresh' = [pc |-> "read", user |-> None]
      BY <1>3 DEF Unauthorized
    <3> QED
      BY <1>0, <3>1, <3>2 DEF RefreshOK
  <2> QED
    BY <1>0, <1>3, <2>1, <2>2 DEF Unauthorized, StoreTyped, store
<1>4. CASE SaveSession(r)
  <2>0. NamedRequest(req[r]) /\ req[r] \in Requests
    BY <1>0 DEF RequestsOK
  <2>1. RequestsOK'
    <3>1. CASE req[r].pc = "saveAccess"
      BY <1>4, <1>p, <1>s, <2>0, <3>1, AtFields, AtNamed
         DEF SaveSession, Goto, NamedRequest
    <3>2. CASE req[r].pc = "saveRefresh"
      BY <1>4, <1>p, <1>s, <2>0, <3>2, AtFields, AtNamed
         DEF SaveSession, Goto, NamedRequest
    <3>3. CASE req[r].pc = "saveUser"
      BY <1>4, <1>p, <1>s, <2>0, <3>3, AtFields, AtNamed
         DEF SaveSession, Goto, NamedRequest
    <3>4. CASE req[r].pc = "setUser"
      BY <1>4, <1>s, <3>4, IdleType DEF SaveSession, Done
    <3> QED
      BY <1>4, <3>1, <3>2, <3>3, <3>4 DEF SaveSession
  <2>2. StoreTyped'
    <3>1. req[r].who \in User
      BY <1>4, <2>0 DEF SaveSession, NamedRequest
    <3>2. Fresh(req[r].who) \in AccessTokens
      BY <3>1 DEF Fresh, AccessTokens
    <3> QED
      BY <1>0, <1>4, <3>1, <3>2 DEF SaveSession, StoreTyped, store
  <2> QED
    BY <1>0, <1>4, <2>1, <2>2 DEF SaveSession, RefreshOK
<1>5. CASE ClearSession(r)
  <2>1. RequestsOK'
    <3>1. CASE req[r].pc \in {"clearAccess", "clearRefresh", "clearUser"}
      BY <1>5, <1>p, <1>s, <3>1, AtFields, AtNamed DEF ClearSession, Goto
    <3>2. CASE req[r].pc = "unsetUser"
      <4>1. \A s \in Req : req'[s] = Idle \/ req'[s] = [req[s] EXCEPT !.mounted = FALSE]
        BY <1>5, <3>2 DEF ClearSession
      <4>2. \A q \in Requests : /\ [q EXCEPT !.mounted = FALSE] \in Requests
                                /\ [q EXCEPT !.mounted = FALSE].kind = q.kind
                                /\ [q EXCEPT !.mounted = FALSE].who = q.who
                                /\ [q EXCEPT !.mounted = FALSE].pc = q.pc
        BY DEF Requests
      <4>3. \A s \in Req : req'[s] \in Requests /\ NamedRequest(req'[s])
        <5> SUFFICES ASSUME NEW s \in Req
                     PROVE  req'[s] \in Requests /\ NamedRequest(req'[s])
          OBVIOUS
        <5>1. req[s] \in Requests /\ NamedRequest(req[s])
          BY <1>0 DEF RequestsOK
        <5> DEFINE q == [req[s] EXCEPT !.mounted = FALSE]
        <5>2. NamedRequest(q)
          BY <4>2, <5>1, SameNamed
        <5> QED
          BY <4>1, <4>2, <5>1, <5>2, IdleType
      <4>4. req' = [s \in Req |-> req'[s]]
        BY <1>5, <3>2 DEF ClearSession
      <4> QED
        BY <4>3, <4>4, RequestsTyped DEF RequestsOK
    <3> QED
      BY <1>5, <3>1, <3>2 DEF ClearSession
  <2> QED
    BY <1>0, <1>5, <2>1 DEF ClearSession, StoreTyped, RefreshOK, store
<1> QED
  BY <1>1, <1>2, <1>3, <1>4, <1>5

(* What the end of a refresh does to the requests that wait for it.        *)
LEMMA SettledType ==
  ASSUME TypeInv, Resolve \/ Expired \/ Broken
  PROVE  RequestsOK' /\ refresh' = None
<1>0. RequestsOK
  BY TypeParts
<1>p. {"sent", "retried"} \subseteq Pcs
  BY DEF Pcs
<1>1. \A r \in Req : \/ req'[r] = req[r] \/ req'[r] = Idle
                     \/ req'[r] = SessionExpired(r)
                     \/ /\ req[r].pc \in Waiting
                        /\ \/ req'[r] = [At(r, "sent") EXCEPT !.live = TRUE]
                           \/ req'[r] = [At(r, "retried") EXCEPT !.live = TRUE]
  BY DEF Resolve, Expired, Broken, Waiting
<1>2. \A r \in Req : req'[r] \in Requests /\ NamedRequest(req'[r])
  <2> SUFFICES ASSUME NEW r \in Req
               PROVE  req'[r] \in Requests /\ NamedRequest(req'[r])
    OBVIOUS
  <2>1. /\ [At(r, "sent") EXCEPT !.live = TRUE] \in Requests
        /\ [At(r, "retried") EXCEPT !.live = TRUE] \in Requests
    BY <1>p, AtFields
  <2>2. req[r].pc \in Waiting =>
          /\ NamedRequest([At(r, "sent") EXCEPT !.live = TRUE])
          /\ NamedRequest([At(r, "retried") EXCEPT !.live = TRUE])
    <3>1. req[r].pc \in Waiting => req[r].kind # "logout"
      BY <1>0 DEF RequestsOK, NamedRequest, Waiting, Clearing
    <3> QED
      BY <1>p, <3>1, AtNamed
  <2> QED
    BY <1>0, <1>1, <2>1, <2>2, IdleType, ExpiredType DEF RequestsOK
<1>3. req' = [r \in Req |-> req'[r]]
  BY DEF Resolve, Expired, Broken
<1> QED
  BY <1>2, <1>3, RequestsTyped DEF RequestsOK, Resolve, Expired, Broken

LEMMA RefreshFields ==
  ASSUME RefreshOK, refresh # None,
         NEW pc \in {"read", "post", "saveAccess", "saveRefresh", "clearAccess",
                     "clearRefresh", "clearUser"}
  PROVE  /\ [refresh EXCEPT !.pc = pc] \in Refreshes
         /\ [refresh EXCEPT !.pc = pc].pc = pc
         /\ [refresh EXCEPT !.pc = pc].user = refresh.user
BY DEF RefreshOK, Refreshes

LEMMA RefreshType ==
  ASSUME TypeInv, RefreshRead \/ RefreshAnswer \/ RefreshSaves \/ RefreshClears
  PROVE  StoreTyped' /\ RequestsOK' /\ RefreshOK'
<1>0. StoreTyped /\ RequestsOK /\ RefreshOK
  BY TypeParts
<1>1. refresh' = None => RefreshOK'
  BY DEF RefreshOK
<1>2. CASE RefreshRead
  <2>1. StoreTyped'
    BY <1>0, <1>2 DEF RefreshRead, StoreTyped, store
  <2>2. CASE Expired
    BY <1>1, <2>1, <2>2, SettledType
  <2>3. CASE /\ sRefresh # None /\ req' = req
             /\ refresh' = [pc |-> "post", user |-> sRefresh]
    <3>1. sRefresh \in User
      BY <1>0, <2>3 DEF StoreTyped
    <3>2. refresh' \in Refreshes /\ refresh'.user = sRefresh
      BY <2>3, <3>1 DEF Refreshes
    <3> QED
      BY <1>0, <2>1, <2>3, <3>1, <3>2 DEF RefreshOK, RequestsOK
  <2> QED
    BY <1>2, <2>2, <2>3 DEF RefreshRead
<1>3. CASE RefreshAnswer
  <2>1. StoreTyped'
    BY <1>0, <1>3 DEF RefreshAnswer, StoreTyped, store
  <2>2. CASE Broken
    BY <1>1, <2>1, <2>2, SettledType
  <2>3. ASSUME NEW next \in {"saveAccess", "clearAccess"},
               refresh' = [refresh EXCEPT !.pc = next], req' = req
        PROVE  RefreshOK' /\ RequestsOK'
    <3>1. refresh # None /\ refresh.user \in User
      BY <1>0, <1>3 DEF RefreshAnswer, RefreshAt, RefreshOK
    <3> QED
      BY <1>0, <2>3, <3>1, RefreshFields DEF RefreshOK, RequestsOK
  <2> QED
    BY <1>3, <2>1, <2>2, <2>3 DEF RefreshAnswer
<1>4. CASE RefreshSaves
  <2>1. refresh # None /\ refresh.user \in User
    BY <1>0, <1>4 DEF RefreshSaves, RefreshAt, RefreshOK
  <2>2. Fresh(refresh.user) \in AccessTokens
    BY <2>1 DEF Fresh, AccessTokens
  <2>3. StoreTyped'
    BY <1>0, <1>4, <2>1, <2>2 DEF RefreshSaves, StoreTyped
  <2>4. CASE Resolve
    BY <1>1, <2>3, <2>4, SettledType
  <2>5. CASE refresh' = [refresh EXCEPT !.pc = "saveRefresh"] /\ req' = req
    BY <1>0, <2>1, <2>3, <2>5, RefreshFields DEF RefreshOK, RequestsOK
  <2> QED
    BY <1>4, <2>4, <2>5 DEF RefreshSaves
<1>5. CASE RefreshClears
  <2>1. refresh # None
    BY <1>5 DEF RefreshClears, RefreshAt
  <2>2. StoreTyped'
    BY <1>0, <1>5 DEF RefreshClears, StoreTyped
  <2>3. CASE Expired
    BY <1>1, <2>2, <2>3, SettledType
  <2>4. ASSUME NEW pc \in {"clearRefresh", "clearUser"},
               refresh' = [refresh EXCEPT !.pc = pc], req' = req
        PROVE  RefreshOK' /\ RequestsOK'
    BY <1>0, <2>1, <2>4, RefreshFields DEF RefreshOK, RequestsOK
  <2> QED
    BY <1>5, <2>2, <2>3, <2>4 DEF RefreshClears
<1> QED
  BY <1>2, <1>3, <1>4, <1>5

(* A request or logout that begins.                                        *)
LEMMA BeginType ==
  ASSUME TypeInv, NEW r \in Req, Screen(r) \/ SignIn(r) \/ SignOut(r)
  PROVE  StoreTyped' /\ RequestsOK' /\ RefreshOK' /\ visits' \in 0..MaxVisits
         /\ expiries' = expiries
<1>0. StoreTyped /\ RequestsOK /\ RefreshOK /\ visits \in 0..MaxVisits
  BY TypeParts
<1>1. /\ UNCHANGED <<sAccess, sRefresh, sUser, user, refresh, expiries>>
      /\ \/ visits' = visits
         \/ visits < MaxVisits /\ visits' = visits + 1
  <2>1. CASE Screen(r)
    <3>1. \E k \in Kinds : \E w : Start(r, k, w)
      BY <2>1 DEF Screen, Kinds
    <3> QED
      BY <2>1, <3>1 DEF Screen, Start, store, counts
  <2>2. CASE SignIn(r)
    BY <2>2 DEF SignIn, Start, store
  <2>3. CASE SignOut(r)
    BY <2>3 DEF SignOut, store
  <2> QED
    BY <2>1, <2>2, <2>3
<1>2. ASSUME NEW q \in Requests, NamedRequest(q), req' = [req EXCEPT ![r] = q]
      PROVE  RequestsOK'
  BY <1>0, <1>2 DEF RequestsOK
<1>3. ASSUME NEW k \in Kinds \ {"logout"}, NEW w \in User \cup {None}, Start(r, k, w),
             k \in {"login", "badLogin", "me"} => w \in User
      PROVE  RequestsOK'
  <2> DEFINE q == [kind |-> k, who |-> w, mounted |-> k = "data",
                   pc |-> IF refresh # None THEN "await" ELSE "sent",
                   live |-> refresh = None /\ sAccess # None /\ sAccess.live]
  <2>1. (refresh = None /\ sAccess # None /\ sAccess.live) \in BOOLEAN
        /\ (k = "data") \in BOOLEAN
    BY <1>0 DEF StoreTyped, AccessTokens
  <2>2. q \in Requests /\ NamedRequest(q)
    BY <1>3, <2>1 DEF Requests, NamedRequest, Waiting
  <2>3. req' = [req EXCEPT ![r] = q]
    BY <1>3 DEF Start
  <2> HIDE DEF q
  <2> QED
    BY <1>2, <2>2, <2>3
<1>4. RequestsOK'
  <2>1. CASE Screen(r)
    <3>1. user \in User
      BY <1>0, <2>1 DEF Screen, StoreTyped
    <3>2. PICK k \in {"data", "act", "me"} :
            Start(r, k, IF k = "me" THEN user ELSE None)
      BY <2>1 DEF Screen
    <3> QED
      BY <1>3, <3>1, <3>2 DEF Kinds
  <2>2. CASE SignIn(r)
    <3>1. PICK u \in User, k \in {"login", "badLogin"} : Start(r, k, u)
      BY <2>2 DEF SignIn
    <3> QED
      BY <1>3, <3>1 DEF Kinds
  <2>3. CASE SignOut(r)
    <3> DEFINE q == [Idle EXCEPT !.kind = "logout", !.pc = "clearAccess"]
    <3>1. q \in Requests /\ NamedRequest(q)
      BY DEF Idle, Requests, NamedRequest, Kinds, Clearing
    <3>2. req' = [req EXCEPT ![r] = q]
      BY <2>3 DEF SignOut
    <3> HIDE DEF q
    <3> QED
      BY <1>2, <3>1, <3>2
  <2> QED
    BY <2>1, <2>2, <2>3
<1>5. visits' \in 0..MaxVisits
  BY <1>0, <1>1, MobileSessionAssumption
<1> QED
  BY <1>0, <1>1, <1>4, <1>5 DEF StoreTyped, RefreshOK

LEMMA DeviceType ==
  ASSUME TypeInv, Expire \/ Kill
  PROVE  /\ StoreTyped' /\ RequestsOK' /\ RefreshOK'
         /\ visits' \in 0..MaxVisits /\ expiries' \in 0..MaxExpiries
<1>0. /\ StoreTyped /\ RequestsOK /\ RefreshOK
      /\ visits \in 0..MaxVisits /\ expiries \in 0..MaxExpiries
  BY TypeParts
<1>1. CASE Expire
  <2>1. sAccess' \in AccessTokens
    BY <1>0, <1>1 DEF Expire, StoreTyped, AccessTokens
  <2>2. \A q \in Requests : /\ [q EXCEPT !.live = FALSE] \in Requests
                            /\ [q EXCEPT !.live = FALSE].kind = q.kind
                            /\ [q EXCEPT !.live = FALSE].who = q.who
                            /\ [q EXCEPT !.live = FALSE].pc = q.pc
    BY DEF Requests
  <2>3. /\ req' = [r \in Req |-> req'[r]]
        /\ \A r \in Req : req'[r] = [req[r] EXCEPT !.live = FALSE]
    BY <1>1 DEF Expire
  <2>4. \A r \in Req : req'[r] \in Requests /\ NamedRequest(req'[r])
    <3> SUFFICES ASSUME NEW r \in Req
                 PROVE  req'[r] \in Requests /\ NamedRequest(req'[r])
      OBVIOUS
    <3>1. req[r] \in Requests /\ NamedRequest(req[r])
      BY <1>0 DEF RequestsOK
    <3> DEFINE q == [req[r] EXCEPT !.live = FALSE]
    <3>2. NamedRequest(q)
      BY <2>2, <3>1, SameNamed
    <3> QED
      BY <2>2, <2>3, <3>1, <3>2
  <2>5. RequestsOK'
    BY <2>3, <2>4, RequestsTyped DEF RequestsOK
  <2>6. expiries' \in 0..MaxExpiries
    BY <1>0, <1>1, MobileSessionAssumption DEF Expire
  <2> QED
    BY <1>0, <1>1, <2>1, <2>5, <2>6 DEF Expire, StoreTyped, RefreshOK
<1>2. CASE Kill
  <2>1. /\ visits' \in 0..MaxVisits /\ expiries' = expiries
    BY <1>0, <1>2, MobileSessionAssumption DEF Kill
  <2>2. RequestsOK'
    BY <1>2, IdleType DEF Kill, RequestsOK
  <2> QED
    BY <1>0, <1>2, <2>1, <2>2 DEF Kill, StoreTyped, RefreshOK, store
<1> QED
  BY <1>1, <1>2

LEMMA AlwaysTyped == Init /\ [][Next]_vars => []TypeInv
<1>1. Init => TypeInv
  <2> SUFFICES ASSUME Init PROVE TypeInv
    OBVIOUS
  <2>1. StoreTyped
    <3>1. ASSUME NEW u \in User
          PROVE  Fresh(u) \in AccessTokens
      BY DEF Fresh, AccessTokens
    <3> QED
      BY <3>1 DEF Init, StoreTyped
  <2>2. RequestsOK /\ RefreshOK
    BY IdleType DEF Init, RequestsOK, RefreshOK
  <2>3. /\ expiries \in 0..MaxExpiries /\ visits \in 0..MaxVisits
        /\ overlap \in BOOLEAN
    <3>1. expiries = 0 /\ visits = 0
      BY DEF Init
    <3>2. overlap \in BOOLEAN
      BY DEF Init
    <3> QED
      BY <3>1, <3>2, MobileSessionAssumption
  <2> QED
    BY <2>1, <2>2, <2>3, TypeParts
<1>2. TypeInv /\ [Next]_vars => TypeInv'
  <2> SUFFICES ASSUME TypeInv, [Next]_vars PROVE TypeInv'
    OBVIOUS
  <2>0. /\ StoreTyped /\ RequestsOK /\ RefreshOK
        /\ visits \in 0..MaxVisits /\ expiries \in 0..MaxExpiries
        /\ overlap \in BOOLEAN
    BY TypeParts
  <2>1. CASE Next
    <3>1. overlap' \in BOOLEAN
      BY <2>1 DEF Next
    <3>2. /\ StoreTyped' /\ RequestsOK' /\ RefreshOK'
          /\ visits' \in 0..MaxVisits /\ expiries' \in 0..MaxExpiries
      BY <2>0, <2>1, HandlerType, RefreshType, BeginType, DeviceType
         DEF Next, Step, Handler, RefreshStep, counts
    <3> QED
      BY <3>1, <3>2 DEF TypeInv, TypeOK, Named, StoreTyped, RequestsOK, RefreshOK
  <2>2. CASE UNCHANGED vars
    BY <2>2 DEF vars, TypeInv, TypeOK, Named
  <2> QED
    BY <2>1, <2>2
<1> QED
  BY <1>1, <1>2, PTL

(* Type correctness, with what it needs: whoever writes tokens or a user   *)
(* into the store has a user to write.                                     *)
THEOREM TypeCorrect == Spec => []TypeOK
<1>1. TypeInv => TypeOK
  BY DEF TypeInv
<1> QED
  BY <1>1, AlwaysTyped, PTL DEF Spec

-----------------------------------------------------------------------------
(* Waiting for a token                                                     *)

(***************************************************************************)
(* A request waits only while there is a refresh to wait for               *)
(* (services/api.ts 55-100): whoever ends the refresh lets all go.         *)
(***************************************************************************)
THEOREM NobodyWaitsForNothing == Spec => []WaitersHaveARefresh
<1>1. Init => WaitersHaveARefresh
  BY DEF Init, WaitersHaveARefresh, SomeoneWaits, Idle, Waiting
<1>2. TypeInv /\ WaitersHaveARefresh /\ [Next]_vars => WaitersHaveARefresh'
  <2> SUFFICES ASSUME TypeInv, WaitersHaveARefresh, [Next]_vars,
                      refresh' = None
               PROVE  \A r \in Req : req'[r].pc \notin Waiting
    BY DEF WaitersHaveARefresh, SomeoneWaits
  <2>0. /\ req \in [Req -> Requests] /\ RefreshOK
        /\ refresh = None => \A r \in Req : req[r].pc \notin Waiting
    BY TypeParts DEF WaitersHaveARefresh, SomeoneWaits, RequestsOK
  <2>p. /\ Idle.pc \notin Waiting
        /\ \A r \in Req : SessionExpired(r).pc \notin Waiting
        /\ \A r \in Req, pc \in Pcs \ Waiting : At(r, pc).pc \notin Waiting
        /\ \A r \in Req, pc \in Pcs \ Waiting :
             [At(r, pc) EXCEPT !.live = TRUE].pc \notin Waiting
        /\ {"sent", "retried"} \cup Saving \cup Clearing \subseteq Pcs \ Waiting
    <3>1. {"sent", "retried"} \cup Saving \cup Clearing \subseteq Pcs \ Waiting
      BY DEF Pcs, Waiting, Saving, Clearing
    <3>2. "clearAccess" \in Pcs \ Waiting
      BY <3>1 DEF Clearing
    <3>3. Idle.pc \notin Waiting
      BY DEF Idle, Waiting
    <3>4. \A r \in Req, pc \in Pcs : /\ At(r, pc).pc = pc
                                     /\ [At(r, pc) EXCEPT !.live = TRUE].pc = pc
      BY AtFields
    <3>5. \A r \in Req : SessionExpired(r).pc \notin Waiting
      <4> SUFFICES ASSUME NEW r \in Req
                   PROVE  SessionExpired(r).pc \notin Waiting
        OBVIOUS
      <4>1. SessionExpired(r) = Idle \/ SessionExpired(r) = At(r, "clearAccess")
        BY ExpiredType
      <4>2. At(r, "clearAccess").pc = "clearAccess"
        BY <3>2, <3>4
      <4> QED
        BY <3>2, <3>3, <4>1, <4>2
    <3> QED
      BY <3>1, <3>3, <3>4, <3>5
  <2>1. ASSUME NEW r \in Req,
               Answer(r) \/ Fail(r) \/ Unauthorized(r) \/ SaveSession(r)
                 \/ ClearSession(r)
        PROVE  \A s \in Req : req'[s].pc \notin Waiting
    <3>1. refresh = None
      <4>1. CASE Unauthorized(r)
        <5>1. [pc |-> "read", user |-> None] # None
          BY NoneAssumption DEF Refreshes
        <5> QED
          BY <4>1, <5>1 DEF Unauthorized
      <4> QED
        BY <2>1, <4>1 DEF Answer, Fail, SaveSession, ClearSession
    <3>2. \A s \in Req : s # r => \/ req'[s] = req[s]
                                  \/ req'[s] = [req[s] EXCEPT !.mounted = FALSE]
      BY <2>0, <2>1 DEF Answer, Fail, Unauthorized, SaveSession, ClearSession,
         Goto, Done
    <3>3. ~Unauthorized(r) \/ req[r].pc # "sent"
      <4>1. [pc |-> "read", user |-> None] # None
        BY NoneAssumption DEF Refreshes
      <4> QED
        BY <3>1, <4>1 DEF Unauthorized
    <3>4. \/ req'[r] = Idle \/ req'[r] = SessionExpired(r)
          \/ \E pc \in Saving \cup Clearing : req'[r] = At(r, pc)
      <4>1. CASE Answer(r)
        BY <2>0, <4>1 DEF Answer, Saving
      <4>2. CASE Fail(r) \/ Unauthorized(r)
        BY <2>0, <3>3, <4>2 DEF Fail, Unauthorized, Done
      <4>3. CASE SaveSession(r)
        BY <2>0, <4>3 DEF SaveSession, Goto, Done, Saving
      <4>4. CASE ClearSession(r)
        BY <2>0, <4>4 DEF ClearSession, Goto, Clearing
      <4> QED
        BY <2>1, <4>1, <4>2, <4>3, <4>4
    <3>5. \A q \in Requests : [q EXCEPT !.mounted = FALSE].pc = q.pc
      BY DEF Requests
    <3>6. req'[r].pc \notin Waiting
      BY <2>p, <3>4
    <3>7. ASSUME NEW s \in Req, s # r
          PROVE  req'[s].pc \notin Waiting
      <4>1. req'[s].pc = req[s].pc
        BY <2>0, <3>2, <3>5, <3>7
      <4> QED
        BY <2>0, <3>1, <4>1
    <3> QED
      BY <3>6, <3>7
  <2>2. CASE RefreshRead \/ RefreshAnswer \/ RefreshSaves \/ RefreshClears
    <3>1. refresh # None
      BY <2>2 DEF RefreshRead, RefreshAnswer, RefreshSaves, RefreshClears, RefreshAt
    <3>2. \A pc \in {"read", "post", "saveAccess", "saveRefresh", "clearAccess",
                     "clearRefresh", "clearUser"} : [refresh EXCEPT !.pc = pc] # None
      BY <2>0, <3>1, RefreshFields, NoneAssumption
    <3>3. [pc |-> "post", user |-> sRefresh] # None
      <4>1. sRefresh \in User \cup {None}
        BY DEF TypeInv, TypeOK
      <4>2. [pc |-> "post", user |-> sRefresh] \in Refreshes
        BY <4>1 DEF Refreshes
      <4> QED
        BY <4>2, NoneAssumption
    <3>4. Resolve \/ Expired \/ Broken
      BY <2>2, <3>2, <3>3 DEF RefreshRead, RefreshAnswer, RefreshSaves, RefreshClears
    <3>5. \A r \in Req : \/ req[r].pc \notin Waiting /\ req'[r] = req[r]
                         \/ req'[r] = Idle \/ req'[r] = SessionExpired(r)
                         \/ req'[r] = [At(r, "sent") EXCEPT !.live = TRUE]
                         \/ req'[r] = [At(r, "retried") EXCEPT !.live = TRUE]
      BY <3>4 DEF Resolve, Expired, Broken, Waiting
    <3> QED
      BY <2>p, <3>5
  <2>3. ASSUME NEW r \in Req, Screen(r) \/ SignIn(r) \/ SignOut(r)
        PROVE  \A s \in Req : req'[s].pc \notin Waiting
    <3>1. /\ refresh = None
          /\ \A s \in Req : s # r => req'[s] = req[s]
          /\ req'[r].pc \in {"sent", "clearAccess"}
      <4>1. CASE SignOut(r)
        BY <2>0, <4>1 DEF SignOut, Idle
      <4>2. ASSUME NEW k, NEW w, Start(r, k, w)
            PROVE  /\ refresh = None
                   /\ \A s \in Req : s # r => req'[s] = req[s]
                   /\ req'[r].pc \in {"sent", "clearAccess"}
        BY <2>0, <4>2 DEF Start
      <4> QED
        BY <2>3, <4>1, <4>2 DEF Screen, SignIn
    <3> QED
      BY <2>0, <3>1 DEF Waiting
  <2>4. CASE Expire
    <3>1. /\ refresh = None
          /\ \A r \in Req : req'[r] = [req[r] EXCEPT !.live = FALSE]
      BY <2>4 DEF Expire
    <3>2. \A q \in Requests : [q EXCEPT !.live = FALSE].pc = q.pc
      BY DEF Requests
    <3> QED
      BY <2>0, <3>1, <3>2
  <2>5. CASE Kill
    BY <2>5, <2>p DEF Kill
  <2>6. CASE UNCHANGED vars
    BY <2>0, <2>6 DEF vars
  <2> QED
    BY <2>1, <2>2, <2>3, <2>4, <2>5, <2>6 DEF Next, Step, Handler, RefreshStep
<1> QED
  BY <1>1, <1>2, AlwaysTyped, PTL DEF Spec

-----------------------------------------------------------------------------
(* The session                                                             *)

(* Of the access token a, the refresh token n and the stored user s:       *)
(* nothing is there, or all of the session of u.                           *)
Empty(a, n, s) == a = None /\ n = None /\ s = None

FullOf(u, a, n, s) ==
  u # None /\ a # None /\ a.user = u /\ n = u /\ s = u

Agreeing(u, a, n, s) == Empty(a, n, s) \/ FullOf(u, a, n, s)

(* How far the request or logout q has come with the session.              *)
Progress(q, u, a, n, s) ==
  /\ q.kind = "me" /\ q.pc \in {"sent", "retried"} =>
       /\ q.who = u /\ Agreeing(u, a, n, s)
       /\ q.live => FullOf(u, a, n, s)
  /\ q.kind = "login" /\ q.pc \in {"sent", "retried"} => u = None /\ Empty(a, n, s)
  /\ q.kind = "me" /\ q.pc \in {"saveUser", "setUser"} => q.who = u
  /\ q.pc = "saveAccess" => u = None /\ Empty(a, n, s)
  /\ q.pc = "saveRefresh" => a # None /\ a.user = q.who
  /\ q.pc = "saveUser" => a # None /\ a.user = q.who /\ n = q.who
  /\ q.pc = "setUser" => FullOf(q.who, a, n, s)
  /\ q.pc = "clearRefresh" => a = None
  /\ q.pc = "clearUser" => a = None /\ n = None
  /\ q.pc = "unsetUser" => Empty(a, n, s)

(* How far the refresh f has come.                                         *)
RefreshProgress(f, u, a, n, s) ==
  f # None =>
    /\ f.pc = "read" => Agreeing(u, a, n, s)
    /\ f.pc \in {"post", "saveAccess", "saveRefresh"} =>
         FullOf(u, a, n, s) /\ f.user = u
    /\ f.pc = "clearRefresh" => a = None
    /\ f.pc = "clearUser" => a = None /\ n = None

(* As long as handlers have not overlapped at most one is changing the     *)
(* session, and the store is as far as that one has come.                  *)
SessionInv ==
  ~overlap =>
    /\ ~Overlapping
    /\ Writers = {} => Agreeing(user, sAccess, sRefresh, sUser)
    /\ RefreshProgress(refresh, user, sAccess, sRefresh, sUser)
    /\ \A r \in Req : Progress(req[r], user, sAccess, sRefresh, sUser)

IsWriter(q) == q.kind \in {"me", "login", "logout"} \/ q.pc \in Clearing

(* A request that does not change the session has nothing to come far with. *)
LEMMA NoWriter ==
  ASSUME NEW q, NamedRequest(q), ~IsWriter(q), NEW u, NEW a, NEW n, NEW s
  PROVE  Progress(q, u, a, n, s)
BY DEF NamedRequest, IsWriter, Progress, Clearing

LEMMA IdleProgress ==
  ASSUME NEW u, NEW a, NEW n, NEW s
  PROVE  ~IsWriter(Idle) /\ Progress(Idle, u, a, n, s)
<1>1. ~IsWriter(Idle)
  BY DEF Idle, IsWriter, Clearing
<1> QED
  BY <1>1, IdleType, NoWriter

(* A request whose logout begins has not come far either.                  *)
LEMMA ClearProgress ==
  ASSUME NEW q, q.pc = "clearAccess", NEW u, NEW a, NEW n, NEW s
  PROVE  IsWriter(q) /\ Progress(q, u, a, n, s)
BY DEF IsWriter, Progress, Clearing

LEMMA WritersAre ==
  /\ Writers \subseteq Req \cup {None}
  /\ \A r \in Req : r \in Writers <=> IsWriter(req[r])
  /\ None \in Writers <=> refresh # None
<1>1. None \notin Req
  BY MobileSessionAssumption
<1> QED
  BY <1>1 DEF Writers, IsWriter

(* Requests that begin or end, and do not touch the store.                 *)
LEMMA QuietStep ==
  ASSUME TypeInv, RequestsOK', SessionInv, ~overlap, ~Overlapping', NEW r \in Req,
         UNCHANGED <<sAccess, sRefresh, sUser, user>>,
         \A t \in Req : t # r => req'[t] = req[t],
         Progress(req'[r], user, sAccess, sRefresh, sUser),
         \/ refresh' = refresh
         \/ /\ refresh = None /\ refresh' # None /\ refresh'.pc = "read"
            /\ IsWriter(req[r]) => IsWriter(req'[r]),
         \/ ~IsWriter(req[r])
         \/ IsWriter(req'[r])
         \/ Agreeing(user, sAccess, sRefresh, sUser)
  PROVE  SessionInv'
<1>w. /\ \A t \in Req : t \in Writers <=> IsWriter(req[t])
      /\ None \in Writers <=> refresh # None
      /\ Writers \subseteq Req \cup {None}
  BY WritersAre
<1>x. /\ \A t \in Req : t \in Writers' <=> IsWriter(req'[t])
      /\ None \in Writers' <=> refresh' # None
      /\ Writers' \subseteq Req \cup {None}
      /\ None \notin Req
  BY MobileSessionAssumption DEF Writers, IsWriter
<1>1. /\ Writers = {} => Agreeing(user, sAccess, sRefresh, sUser)
      /\ RefreshProgress(refresh, user, sAccess, sRefresh, sUser)
      /\ \A t \in Req : Progress(req[t], user, sAccess, sRefresh, sUser)
  BY DEF SessionInv
<1>2. \A t \in Req : Progress(req'[t], user, sAccess, sRefresh, sUser)
  BY <1>1
<1>3. RefreshProgress(refresh', user, sAccess, sRefresh, sUser)
  <2>1. CASE refresh' = refresh
    BY <1>1, <2>1
  <2>2. CASE /\ refresh = None /\ refresh' # None /\ refresh'.pc = "read"
             /\ IsWriter(req[r]) => IsWriter(req'[r])
    <3>1. \A t \in Req : t \notin Writers'
      BY <1>x, <2>2 DEF Overlapping
    <3>2. \A t \in Req : t \notin Writers
      BY <1>w, <1>x, <2>2, <3>1
    <3>3. Writers = {}
      BY <1>w, <2>2, <3>2
    <3> QED
      BY <1>1, <2>2, <3>3 DEF RefreshProgress
  <2> QED
    BY <2>1, <2>2
<1>4. Writers' = {} => Agreeing(user, sAccess, sRefresh, sUser)
  <2> SUFFICES ASSUME Writers' = {}
               PROVE  Agreeing(user, sAccess, sRefresh, sUser)
    OBVIOUS
  <2>1. CASE ~IsWriter(req[r])
    <3>1. \A t \in Req : t \notin Writers
      BY <1>w, <1>x, <2>1
    <3>2. None \notin Writers
      BY <1>w, <1>x
    <3> QED
      BY <1>1, <1>w, <3>1, <3>2
  <2> QED
    BY <1>x, <2>1
<1> QED
  BY <1>2, <1>3, <1>4 DEF SessionInv

(* The handler that changes the session is the only one.                   *)
LEMMA LoneRequest ==
  ASSUME ~Overlapping, NEW r \in Req, IsWriter(req[r])
  PROVE  refresh = None /\ \A t \in Req : t # r => ~IsWriter(req[t])
<1>1. r \in Writers /\ r # None
  BY WritersAre, MobileSessionAssumption
<1> QED
  BY <1>1, WritersAre DEF Overlapping

LEMMA LoneRefresh ==
  ASSUME ~Overlapping, refresh # None
  PROVE  \A t \in Req : ~IsWriter(req[t])
<1>1. None \in Writers /\ None \notin Req
  BY WritersAre, MobileSessionAssumption
<1> QED
  BY <1>1, WritersAre DEF Overlapping

(* What the lone handler leaves behind, if it ends or goes on.             *)
LEMMA LoneStep ==
  ASSUME RequestsOK', ~Overlapping', refresh' = None, NEW r \in Req,
         \A t \in Req : t # r => ~IsWriter(req'[t]),
         Progress(req'[r], user', sAccess', sRefresh', sUser'),
         IsWriter(req'[r]) \/ Agreeing(user', sAccess', sRefresh', sUser')
  PROVE  SessionInv'
<1>1. \A t \in Req : Progress(req'[t], user', sAccess', sRefresh', sUser')
  BY NoWriter DEF RequestsOK
<1>2. \A t \in Req : t \in Writers' <=> IsWriter(req'[t])
  BY MobileSessionAssumption DEF Writers, IsWriter
<1>3. Writers' = {} => Agreeing(user', sAccess', sRefresh', sUser')
  BY <1>2
<1>4. RefreshProgress(refresh', user', sAccess', sRefresh', sUser')
  BY DEF RefreshProgress
<1> QED
  BY <1>1, <1>3, <1>4 DEF SessionInv

LEMMA FreshIs ==
  ASSUME NEW u \in User
  PROVE  Fresh(u) # None /\ Fresh(u).user = u
<1>1. Fresh(u) \in AccessTokens /\ Fresh(u).user = u
  BY DEF Fresh, AccessTokens
<1> QED
  BY <1>1, NoneAssumption

LEMMA SaveStep ==
  ASSUME TypeInv, RequestsOK', SessionInv, ~overlap, ~Overlapping',
         NEW r \in Req, SaveSession(r)
  PROVE  SessionInv'
<1> DEFINE q == req[r]
<1>1. /\ q \in Requests /\ NamedRequest(q) /\ req \in [Req -> Requests]
      /\ Progress(q, user, sAccess, sRefresh, sUser)
      /\ ~Overlapping /\ refresh' = refresh
  BY TypeParts DEF RequestsOK, SessionInv, SaveSession
<1>2. /\ IsWriter(q) /\ q.who \in User /\ q.who # None
      /\ q.pc \in Saving
  BY <1>1, MobileSessionAssumption DEF SaveSession, NamedRequest, IsWriter, Saving
<1>3. /\ refresh' = None
      /\ \A t \in Req : t # r => ~IsWriter(req[t]) /\ req'[t] = req[t]
  <2>1. \A t \in Req : t # r => req'[t] = req[t]
    BY <1>1 DEF SaveSession, Goto, Done
  <2> QED
    BY <1>1, <1>2, <2>1, LoneRequest
<1>p. {"saveRefresh", "saveUser", "setUser"} \subseteq Pcs
  BY DEF Pcs, Saving
<1>f. Fresh(q.who) # None /\ Fresh(q.who).user = q.who
  BY <1>2, FreshIs
<1> SUFFICES /\ Progress(req'[r], user', sAccess', sRefresh', sUser')
             /\ IsWriter(req'[r]) \/ Agreeing(user', sAccess', sRefresh', sUser')
  BY <1>3, LoneStep
<1>m. ASSUME NEW pc \in {"saveRefresh", "saveUser", "setUser"}, req' = [req EXCEPT ![r] = At(r, pc)]
      PROVE  /\ req'[r].pc = pc /\ req'[r].kind = q.kind /\ req'[r].who = q.who
  BY <1>1, <1>p, <1>m, AtFields
<1>4. CASE q.pc = "saveAccess"
  <2>1. /\ sAccess' = Fresh(q.who) /\ req' = [req EXCEPT ![r] = At(r, "saveRefresh")]
    BY <1>4 DEF SaveSession, Goto
  <2>2. /\ req'[r].pc = "saveRefresh" /\ req'[r].kind = q.kind
        /\ req'[r].who = q.who /\ q.kind = "login"
    BY <1>1, <1>4, <1>m, <2>1 DEF NamedRequest
  <2> QED
    BY <1>f, <2>1, <2>2 DEF Progress, IsWriter
<1>5. CASE q.pc = "saveRefresh"
  <2>1. /\ sRefresh' = q.who /\ req' = [req EXCEPT ![r] = At(r, "saveUser")]
        /\ sAccess' = sAccess
    BY <1>5 DEF SaveSession, Goto
  <2>2. /\ req'[r].pc = "saveUser" /\ req'[r].kind = q.kind
        /\ req'[r].who = q.who /\ q.kind = "login"
    BY <1>1, <1>5, <1>m, <2>1 DEF NamedRequest
  <2>3. sAccess # None /\ sAccess.user = q.who
    BY <1>1, <1>5 DEF Progress
  <2> QED
    BY <2>1, <2>2, <2>3 DEF Progress, IsWriter
<1>6. CASE q.pc = "saveUser"
  <2>1. /\ sUser' = q.who /\ req' = [req EXCEPT ![r] = At(r, "setUser")]
        /\ UNCHANGED <<sAccess, sRefresh, user>>
    BY <1>6 DEF SaveSession, Goto
  <2>2. /\ req'[r].pc = "setUser" /\ req'[r].kind = q.kind
        /\ req'[r].who = q.who /\ q.kind \in {"login", "me"}
    BY <1>1, <1>6, <1>m, <2>1 DEF NamedRequest
  <2>3. FullOf(q.who, sAccess', sRefresh', sUser')
    BY <1>1, <1>2, <1>6, <2>1 DEF Progress, FullOf
  <2>4. q.kind = "me" => q.who = user
    BY <1>1, <1>6 DEF Progress
  <2> QED
    BY <2>1, <2>2, <2>3, <2>4 DEF Progress, IsWriter
<1>7. CASE q.pc = "setUser"
  <2>1. /\ user' = q.who /\ req'[r] = Idle
        /\ UNCHANGED <<sAccess, sRefresh, sUser>>
    BY <1>1, <1>7 DEF SaveSession, Done, store
  <2>2. FullOf(user', sAccess', sRefresh', sUser')
    BY <1>1, <1>7, <2>1 DEF Progress
  <2> QED
    BY <2>1, <2>2, IdleProgress DEF Agreeing
<1> QED
  BY <1>2, <1>4, <1>5, <1>6, <1>7 DEF Saving

LEMMA ClearStep ==
  ASSUME TypeInv, RequestsOK', SessionInv, ~overlap, ~Overlapping',
         NEW r \in Req, ClearSession(r)
  PROVE  SessionInv'
<1> DEFINE q == req[r]
<1>1. /\ q \in Requests /\ req \in [Req -> Requests]
      /\ Progress(q, user, sAccess, sRefresh, sUser)
      /\ ~Overlapping /\ refresh' = refresh
  BY TypeParts DEF RequestsOK, SessionInv, ClearSession
<1>2. IsWriter(q) /\ q.pc \in Clearing
  BY DEF ClearSession, IsWriter, Clearing
<1>3. /\ refresh' = None
      /\ \A t \in Req : t # r => ~IsWriter(req[t])
  BY <1>1, <1>2, LoneRequest
<1>4. \A t \in Req : t # r => ~IsWriter(req'[t])
  <2>1. ASSUME NEW t \in Req, t # r
        PROVE  ~IsWriter(req'[t])
    <3>1. req[t] \in Requests
      BY <1>1
    <3>2. /\ [req[t] EXCEPT !.mounted = FALSE].kind = req[t].kind
          /\ [req[t] EXCEPT !.mounted = FALSE].pc = req[t].pc
      BY <3>1 DEF Requests
    <3>3. req'[t] = req[t] \/ req'[t] = [req[t] EXCEPT !.mounted = FALSE]
      <4>1. CASE q.pc = "unsetUser"
        BY <2>1, <4>1 DEF ClearSession
      <4>2. CASE q.pc # "unsetUser"
        BY <1>1, <2>1, <4>2 DEF ClearSession, Goto
      <4> QED
        BY <4>1, <4>2
    <3> QED
      BY <1>3, <2>1, <3>2, <3>3 DEF IsWriter
  <2> QED
    BY <2>1
<1> SUFFICES /\ Progress(req'[r], user', sAccess', sRefresh', sUser')
             /\ IsWriter(req'[r]) \/ Agreeing(user', sAccess', sRefresh', sUser')
  BY <1>3, <1>4, LoneStep
<1>p. {"clearRefresh", "clearUser", "unsetUser"} \subseteq Pcs \cap Clearing
  BY DEF Pcs, Clearing
<1>m. ASSUME NEW pc \in {"clearRefresh", "clearUser", "unsetUser"},
             req' = [req EXCEPT ![r] = At(r, pc)]
      PROVE  req'[r].pc = pc /\ IsWriter(req'[r])
  BY <1>1, <1>p, <1>m, AtFields DEF IsWriter
<1>5. CASE q.pc = "clearAccess"
  <2>1. sAccess' = None /\ req'[r].pc = "clearRefresh" /\ IsWriter(req'[r])
    BY <1>5, <1>m DEF ClearSession, Goto
  <2> QED
    BY <2>1 DEF Progress
<1>6. CASE q.pc = "clearRefresh"
  <2>1. /\ sAccess' = sAccess /\ sRefresh' = None
        /\ req'[r].pc = "clearUser" /\ IsWriter(req'[r])
    BY <1>6, <1>m DEF ClearSession, Goto
  <2>2. sAccess = None
    BY <1>1, <1>6 DEF Progress
  <2> QED
    BY <2>1, <2>2 DEF Progress
<1>7. CASE q.pc = "clearUser"
  <2>1. /\ sAccess' = sAccess /\ sRefresh' = sRefresh /\ sUser' = None
        /\ req'[r].pc = "unsetUser" /\ IsWriter(req'[r])
    BY <1>7, <1>m DEF ClearSession, Goto
  <2>2. sAccess = None /\ sRefresh = None
    BY <1>1, <1>7 DEF Progress
  <2> QED
    BY <2>1, <2>2 DEF Progress, Empty
<1>8. CASE q.pc = "unsetUser"
  <2>1. /\ UNCHANGED <<sAccess, sRefresh, sUser>> /\ req'[r] = Idle
    BY <1>8 DEF ClearSession, store
  <2>2. Empty(sAccess, sRefresh, sUser)
    BY <1>1, <1>8 DEF Progress
  <2> QED
    BY <2>1, <2>2, IdleProgress DEF Agreeing
<1> QED
  BY <1>2, <1>5, <1>6, <1>7, <1>8 DEF Clearing

(* Answers and failures.                                                   *)
LEMMA RequestStep ==
  ASSUME TypeInv, RequestsOK', SessionInv, ~overlap, ~Overlapping',
         NEW r \in Req, Answer(r) \/ Fail(r) \/ Unauthorized(r)
  PROVE  SessionInv'
<1> DEFINE q == req[r]
<1>1. /\ q \in Requests /\ NamedRequest(q) /\ req \in [Req -> Requests]
      /\ Progress(q, user, sAccess, sRefresh, sUser)
      /\ q.pc \in {"sent", "retried"}
  BY TypeParts DEF RequestsOK, SessionInv, Answer, Fail, Unauthorized, Underway
<1>2. /\ UNCHANGED <<sAccess, sRefresh, sUser, user>>
      /\ \A t \in Req : t # r => req'[t] = req[t]
  BY <1>1 DEF Answer, Fail, Unauthorized, Goto, Done, store
<1>3. q.kind # "logout" /\ q.pc \notin Clearing
  BY <1>1 DEF NamedRequest, Clearing
<1>4. ~IsWriter(q) \/ Agreeing(user, sAccess, sRefresh, sUser)
  BY <1>1, <1>3 DEF IsWriter, Progress, Agreeing
<1>p. /\ "saveAccess" \in Pcs /\ "saveUser" \in Pcs
      /\ "expired" \in Pcs /\ "clearAccess" \in Pcs
  BY DEF Pcs, Saving, Waiting, Clearing
<1>a. \A pc \in Pcs : /\ At(r, pc).pc = pc /\ At(r, pc).kind = q.kind
                      /\ At(r, pc).who = q.who
  <2> SUFFICES ASSUME NEW pc \in Pcs
               PROVE  /\ At(r, pc).pc = pc /\ At(r, pc).kind = q.kind
                      /\ At(r, pc).who = q.who
    OBVIOUS
  <2> QED
    BY AtFields
<1>5. Progress(req'[r], user, sAccess, sRefresh, sUser)
  <2>1. CASE req'[r] = Idle
    BY <2>1, IdleProgress
  <2>2. CASE req'[r] = At(r, "clearAccess")
    BY <1>a, <1>p, <2>2, ClearProgress
  <2>3. CASE req'[r] = At(r, "expired")
    <3>1. req'[r].pc = "expired"
      BY <1>a, <1>p, <2>3
    <3> QED
      BY <3>1 DEF Progress
  <2>4. CASE req'[r] = At(r, "saveAccess") /\ q.kind = "login"
    <3>1. req'[r].pc = "saveAccess"
      BY <1>a, <1>p, <2>4
    <3>2. user = None /\ Empty(sAccess, sRefresh, sUser)
      BY <1>1, <2>4 DEF Progress
    <3> QED
      BY <3>1, <3>2 DEF Progress
  <2>5. CASE req'[r] = At(r, "saveUser") /\ q.kind = "me" /\ q.live
    <3>1. /\ req'[r].pc = "saveUser" /\ req'[r].who = q.who
          /\ req'[r].kind = "me"
      BY <1>a, <1>p, <2>5
    <3>2. q.who = user /\ FullOf(user, sAccess, sRefresh, sUser)
      BY <1>1, <2>5 DEF Progress
    <3> QED
      BY <3>1, <3>2 DEF Progress, FullOf
  <2>6. CASE Answer(r)
    BY <1>1, <2>1, <2>4, <2>5, <2>6 DEF Answer
  <2>7. CASE Fail(r)
    BY <1>1, <2>1, <2>2, <2>7, ExpiredType DEF Fail, Done
  <2>8. CASE Unauthorized(r)
    BY <1>1, <2>1, <2>3, <2>8 DEF Unauthorized, Done, Goto
  <2> QED
    BY <2>6, <2>7, <2>8
<1>6. \/ refresh' = refresh
      \/ /\ refresh = None /\ refresh' # None /\ refresh'.pc = "read"
         /\ IsWriter(req[r]) => IsWriter(req'[r])
  <2>1. CASE refresh' # refresh
    <3>1. /\ refresh = None /\ refresh' = [pc |-> "read", user |-> None]
          /\ req'[r] = At(r, "expired")
      BY <1>1, <2>1 DEF Answer, Fail, Unauthorized, Goto
    <3>2. refresh' # None /\ refresh'.pc = "read"
      <4>1. [pc |-> "read", user |-> None] \in Refreshes
        BY DEF Refreshes
      <4> QED
        BY <3>1, <4>1, NoneAssumption
    <3>3. IsWriter(req[r]) => IsWriter(req'[r])
      BY <1>3, <1>a, <1>p, <3>1 DEF IsWriter
    <3> QED
      BY <3>1, <3>2, <3>3
  <2> QED
    BY <2>1
<1> QED
  BY <1>2, <1>4, <1>5, <1>6, QuietStep

(* What begins: a login and a reload of the profile begin alone.           *)
LEMMA BeginStep ==
  ASSUME TypeInv, RequestsOK', SessionInv, ~overlap, ~Overlapping',
         NEW r \in Req, Screen(r) \/ SignIn(r) \/ SignOut(r)
  PROVE  SessionInv'
<1>1. /\ req \in [Req -> Requests] /\ req[r] = Idle /\ ~IsWriter(req[r])
      /\ StoreTyped
  <2>1. req[r] = Idle
    BY DEF Screen, SignIn, SignOut, Start
  <2> QED
    BY <2>1, IdleProgress, TypeParts DEF RequestsOK
<1>2. ASSUME NEW k, NEW w, Start(r, k, w)
      PROVE  /\ UNCHANGED <<sAccess, sRefresh, sUser, user, refresh>>
             /\ \A t \in Req : t # r => req'[t] = req[t]
             /\ req'[r].kind = k /\ req'[r].who = w
             /\ req'[r].pc \in {"await", "sent"}
             /\ req'[r].pc = "sent" => refresh = None
             /\ req'[r].live => sAccess # None
  BY <1>1, <1>2 DEF Start, store
<1>3. ASSUME UNCHANGED <<sAccess, sRefresh, sUser, user, refresh>>,
             \A t \in Req : t # r => req'[t] = req[t],
             IsWriter(req'[r]), refresh = None
      PROVE  Agreeing(user, sAccess, sRefresh, sUser)
  <2>1. r \in Writers'
    BY <1>3 DEF Writers, IsWriter
  <2>2. \A t \in Req : t # r => ~IsWriter(req'[t])
    <3>1. \A t \in Req : IsWriter(req'[t]) => t \in Writers'
      BY DEF Writers, IsWriter
    <3> QED
      BY <2>1, <3>1 DEF Overlapping
  <2>3. \A t \in Req : ~IsWriter(req[t])
    BY <1>1, <1>3, <2>2
  <2>4. Writers = {}
    BY <1>3, <2>3, WritersAre
  <2> QED
    BY <2>4 DEF SessionInv
<1>4. CASE Screen(r)
  <2>1. PICK k \in {"data", "act", "me"} :
          Start(r, k, IF k = "me" THEN user ELSE None)
    BY <1>4 DEF Screen
  <2>2. /\ UNCHANGED <<sAccess, sRefresh, sUser, user, refresh>>
        /\ \A t \in Req : t # r => req'[t] = req[t]
        /\ req'[r].kind = k /\ k = "me" => req'[r].who = user
        /\ req'[r].pc \in {"await", "sent"}
        /\ req'[r].pc = "sent" => refresh = None
        /\ req'[r].live => sAccess # None
    BY <1>2, <2>1
  <2>2a. req'[r].kind = k /\ (k = "me" => req'[r].who = user)
    BY <1>2, <2>1
  <2>3. k = "me" => IsWriter(req'[r])
    BY <2>2a DEF IsWriter
  <2>4. Progress(req'[r], user, sAccess, sRefresh, sUser)
    <3>1. CASE k = "me" /\ req'[r].pc = "sent"
      <4>1. Agreeing(user, sAccess, sRefresh, sUser)
        BY <1>3, <2>2, <2>3, <3>1
      <4>2. req'[r].live => FullOf(user, sAccess, sRefresh, sUser)
        BY <2>2, <4>1 DEF Agreeing, Empty
      <4> QED
        BY <2>2a, <3>1, <4>1, <4>2 DEF Progress
    <3>2. CASE k # "me" \/ req'[r].pc = "await"
      BY <2>1, <2>2, <2>2a, <3>2 DEF Progress
    <3> QED
      BY <2>2, <3>1, <3>2
  <2> QED
    BY <1>1, <2>2, <2>4, QuietStep
<1>5. CASE SignIn(r)
  <2>1. PICK u \in User, k \in {"login", "badLogin"} : Start(r, k, u)
    BY <1>5 DEF SignIn
  <2>2. /\ UNCHANGED <<sAccess, sRefresh, sUser, user, refresh>>
        /\ \A t \in Req : t # r => req'[t] = req[t]
        /\ req'[r].kind = k
        /\ req'[r].pc \in {"await", "sent"}
        /\ req'[r].pc = "sent" => refresh = None
    BY <1>2, <2>1
  <2>3. k = "login" => IsWriter(req'[r])
    BY <2>2 DEF IsWriter
  <2>4. Progress(req'[r], user, sAccess, sRefresh, sUser)
    <3>1. CASE k = "login" /\ req'[r].pc = "sent"
      <4>1. Agreeing(user, sAccess, sRefresh, sUser)
        BY <1>3, <2>2, <2>3, <3>1
      <4>2. user = None
        BY <1>5 DEF SignIn
      <4>3. Empty(sAccess, sRefresh, sUser)
        BY <4>1, <4>2 DEF Agreeing, FullOf
      <4> QED
        BY <2>2, <3>1, <4>2, <4>3 DEF Progress
    <3>2. CASE k # "login" \/ req'[r].pc = "await"
      BY <2>1, <2>2, <3>2 DEF Progress
    <3> QED
      BY <2>2, <3>1, <3>2
  <2> QED
    BY <1>1, <2>2, <2>4, QuietStep
<1>6. CASE SignOut(r)
  <2>1. /\ UNCHANGED <<sAccess, sRefresh, sUser, user, refresh>>
        /\ \A t \in Req : t # r => req'[t] = req[t]
        /\ req'[r] = [Idle EXCEPT !.kind = "logout", !.pc = "clearAccess"]
    BY <1>1, <1>6 DEF SignOut, store
  <2>2. req'[r].pc = "clearAccess"
    BY <2>1 DEF Idle
  <2> QED
    BY <1>1, <2>1, <2>2, ClearProgress, QuietStep
<1> QED
  BY <1>4, <1>5, <1>6

(* The refresh goes on: it alone changes the session.                      *)
LEMMA RefreshGoesOn ==
  ASSUME RequestsOK, ~Overlapping, refresh # None, req' = req, refresh' # None,
         ~Overlapping',
         RefreshProgress(refresh', user', sAccess', sRefresh', sUser')
  PROVE  SessionInv'
<1>1. \A t \in Req : ~IsWriter(req[t]) /\ NamedRequest(req[t])
  BY LoneRefresh DEF RequestsOK
<1>2. \A t \in Req : Progress(req'[t], user', sAccess', sRefresh', sUser')
  BY <1>1, NoWriter
<1>3. Writers' # {}
  BY DEF Writers
<1> QED
  BY <1>2, <1>3 DEF SessionInv

(* The refresh settles: those it lets go have nothing to come far with.    *)
LEMMA RefreshEnds ==
  ASSUME TypeInv, RequestsOK', ~Overlapping, refresh # None, ~Overlapping',
         Resolve \/ Expired \/ Broken,
         Agreeing(user', sAccess', sRefresh', sUser')
  PROVE  SessionInv'
<1>1. \A t \in Req : ~IsWriter(req[t])
  BY LoneRefresh
<1>a. \A t \in Req, pc \in Pcs :
        /\ At(t, pc).pc = pc
        /\ [At(t, pc) EXCEPT !.live = TRUE].pc = pc
        /\ [At(t, pc) EXCEPT !.live = TRUE].kind = req[t].kind
  BY AtFields
<1>2. ASSUME NEW t \in Req
      PROVE  Progress(req'[t], user', sAccess', sRefresh', sUser')
  <2>1. NamedRequest(req'[t])
    BY DEF RequestsOK
  <2>p. /\ "sent" \in Pcs /\ "retried" \in Pcs /\ "clearAccess" \in Pcs
        /\ "sent" \notin Clearing /\ "retried" \notin Clearing
    BY DEF Pcs, Clearing
  <2>2. CASE req'[t] = req[t] \/ req'[t] = Idle
    BY <1>1, <2>1, <2>2, NoWriter, IdleProgress
  <2>3. CASE req'[t] = At(t, "clearAccess")
    <3>1. req'[t].pc = "clearAccess"
      BY <1>a, <2>p, <2>3
    <3> QED
      BY <3>1, ClearProgress
  <2>4. CASE \E pc \in {"sent", "retried"} : req'[t] = [At(t, pc) EXCEPT !.live = TRUE]
    <3>1. PICK pc \in {"sent", "retried"} : req'[t] = [At(t, pc) EXCEPT !.live = TRUE]
      BY <2>4
    <3>2. pc \in Pcs /\ pc \notin Clearing
      BY <2>p, <3>1
    <3>3. req'[t].pc = pc /\ req'[t].kind = req[t].kind
      BY <1>a, <3>1, <3>2
    <3>4. ~IsWriter(req'[t])
      BY <1>1, <3>2, <3>3 DEF IsWriter
    <3> QED
      BY <2>1, <3>4, NoWriter
  <2> QED
    BY <2>2, <2>3, <2>4, ExpiredType DEF Resolve, Expired, Broken
<1>3. RefreshProgress(refresh', user', sAccess', sRefresh', sUser')
  BY DEF RefreshProgress, Resolve, Expired, Broken
<1> QED
  BY <1>2, <1>3 DEF SessionInv

LEMMA TheRefresh ==
  ASSUME TypeInv, RequestsOK', SessionInv, ~overlap, ~Overlapping',
         RefreshRead \/ RefreshAnswer \/ RefreshSaves \/ RefreshClears
  PROVE  SessionInv'
<1>1. /\ refresh # None /\ ~Overlapping /\ RequestsOK /\ RefreshOK
      /\ user' = user /\ sRefresh \in User \cup {None}
      /\ RefreshProgress(refresh, user, sAccess, sRefresh, sUser)
  BY TypeParts DEF SessionInv, StoreTyped, RefreshRead, RefreshAnswer, RefreshSaves,
     RefreshClears, RefreshAt
<1>2. ASSUME Resolve \/ Expired \/ Broken,
             Agreeing(user', sAccess', sRefresh', sUser')
      PROVE  SessionInv'
  BY <1>1, <1>2, RefreshEnds
<1>3. ASSUME NEW pc \in {"saveAccess", "saveRefresh", "clearAccess", "clearRefresh",
                         "clearUser"},
             refresh' = [refresh EXCEPT !.pc = pc]
      PROVE  refresh' # None /\ refresh'.pc = pc /\ refresh'.user = refresh.user
  BY <1>1, <1>3, RefreshFields, NoneAssumption
<1>4. CASE RefreshRead
  <2>1. /\ Agreeing(user', sAccess', sRefresh', sUser')
        /\ UNCHANGED <<sAccess, sRefresh, sUser>>
    BY <1>1, <1>4 DEF RefreshRead, RefreshAt, RefreshProgress, store
  <2>2. CASE Expired
    BY <1>2, <2>1, <2>2
  <2>3. CASE /\ sRefresh # None /\ req' = req
             /\ refresh' = [pc |-> "post", user |-> sRefresh]
    <3>1. refresh' \in Refreshes /\ refresh'.pc = "post" /\ refresh'.user = sRefresh
      BY <1>1, <2>3 DEF Refreshes
    <3>2. FullOf(user', sAccess', sRefresh', sUser') /\ refresh'.user = user'
      BY <2>1, <2>3, <3>1 DEF Agreeing, Empty, FullOf
    <3>3. refresh' # None
      BY <3>1, NoneAssumption
    <3>4. RefreshProgress(refresh', user', sAccess', sRefresh', sUser')
      BY <3>1, <3>2 DEF RefreshProgress
    <3> QED
      BY <1>1, <2>3, <3>3, <3>4, RefreshGoesOn
  <2> QED
    BY <1>4, <2>2, <2>3 DEF RefreshRead
<1>5. CASE RefreshAnswer
  <2>1. /\ FullOf(user', sAccess', sRefresh', sUser') /\ refresh.user = user'
    BY <1>1, <1>5 DEF RefreshAnswer, RefreshAt, RefreshProgress, store
  <2>2. CASE Broken
    BY <1>2, <2>1, <2>2 DEF Agreeing
  <2>3. ASSUME NEW next \in {"saveAccess", "clearAccess"},
               refresh' = [refresh EXCEPT !.pc = next], req' = req
        PROVE  SessionInv'
    <3>1. refresh' # None /\ refresh'.pc = next /\ refresh'.user = refresh.user
      BY <1>3, <2>3
    <3>2. RefreshProgress(refresh', user', sAccess', sRefresh', sUser')
      BY <2>1, <3>1 DEF RefreshProgress
    <3> QED
      BY <1>1, <2>3, <3>1, <3>2, RefreshGoesOn
  <2> QED
    BY <1>5, <2>2, <2>3 DEF RefreshAnswer
<1>6. CASE RefreshSaves
  <2>1. /\ FullOf(user, sAccess, sRefresh, sUser) /\ refresh.user = user
        /\ user \in User
    <3>1. refresh.pc \in {"saveAccess", "saveRefresh"}
      BY <1>6 DEF RefreshSaves, RefreshAt
    <3> QED
      BY <1>1, <3>1 DEF RefreshProgress, RefreshOK
  <2>2. CASE refresh.pc = "saveAccess"
    <3>1. /\ sAccess' = Fresh(user) /\ UNCHANGED <<sRefresh, sUser, user, req>>
          /\ refresh' = [refresh EXCEPT !.pc = "saveRefresh"]
      BY <1>6, <2>1, <2>2 DEF RefreshSaves, RefreshAt
    <3>2. FullOf(user', sAccess', sRefresh', sUser')
      BY <2>1, <3>1, FreshIs DEF FullOf
    <3>3. refresh' # None /\ refresh'.pc = "saveRefresh" /\ refresh'.user = user'
      BY <1>3, <2>1, <3>1
    <3>4. RefreshProgress(refresh', user', sAccess', sRefresh', sUser')
      BY <3>2, <3>3 DEF RefreshProgress
    <3> QED
      BY <1>1, <3>1, <3>3, <3>4, RefreshGoesOn
  <2>3. CASE refresh.pc = "saveRefresh"
    <3>1. /\ sRefresh' = user /\ UNCHANGED <<sAccess, sUser, user>> /\ Resolve
      BY <1>6, <2>1, <2>3 DEF RefreshSaves, RefreshAt
    <3>2. Agreeing(user', sAccess', sRefresh', sUser')
      BY <2>1, <3>1 DEF FullOf, Agreeing
    <3> QED
      BY <1>2, <3>1, <3>2
  <2> QED
    BY <1>6, <2>2, <2>3 DEF RefreshSaves, RefreshAt
<1>7. CASE RefreshClears
  <2>1. CASE refresh.pc = "clearAccess"
    <3>1. /\ sAccess' = None /\ req' = req
          /\ refresh' = [refresh EXCEPT !.pc = "clearRefresh"]
      BY <1>7, <2>1 DEF RefreshClears, RefreshAt
    <3>2. refresh' # None /\ refresh'.pc = "clearRefresh"
      BY <1>3, <3>1
    <3>3. RefreshProgress(refresh', user', sAccess', sRefresh', sUser')
      BY <3>1, <3>2 DEF RefreshProgress
    <3> QED
      BY <1>1, <3>1, <3>2, <3>3, RefreshGoesOn
  <2>2. CASE refresh.pc = "clearRefresh"
    <3>1. /\ sAccess' = sAccess /\ sRefresh' = None /\ req' = req
          /\ refresh' = [refresh EXCEPT !.pc = "clearUser"]
      BY <1>7, <2>2 DEF RefreshClears, RefreshAt
    <3>2. refresh' # None /\ refresh'.pc = "clearUser" /\ sAccess = None
      BY <1>1, <1>3, <2>2, <3>1 DEF RefreshProgress
    <3>3. RefreshProgress(refresh', user', sAccess', sRefresh', sUser')
      BY <3>1, <3>2 DEF RefreshProgress
    <3> QED
      BY <1>1, <3>1, <3>2, <3>3, RefreshGoesOn
  <2>3. CASE refresh.pc = "clearUser"
    <3>1. /\ UNCHANGED <<sAccess, sRefresh>> /\ sUser' = None /\ Expired
      BY <1>7, <2>3 DEF RefreshClears, RefreshAt
    <3>2. sAccess = None /\ sRefresh = None
      BY <1>1, <2>3 DEF RefreshProgress
    <3> QED
      BY <1>2, <3>1, <3>2 DEF Agreeing, Empty
  <2> QED
    BY <1>7, <2>1, <2>2, <2>3 DEF RefreshClears, RefreshAt
<1> QED
  BY <1>4, <1>5, <1>6, <1>7

LEMMA ExpireStep ==
  ASSUME TypeInv, RequestsOK', SessionInv, ~overlap, ~Overlapping', Expire
  PROVE  SessionInv'
<1>1. /\ UNCHANGED <<sRefresh, sUser, user, refresh>>
      /\ sAccess # None /\ sAccess' # None /\ sAccess'.user = sAccess.user
      /\ req \in [Req -> Requests]
  <2>1. sAccess \in AccessTokens /\ sAccess' = [sAccess EXCEPT !.live = FALSE]
    BY DEF Expire, TypeInv, TypeOK
  <2>2. sAccess' \in AccessTokens /\ sAccess'.user = sAccess.user
    BY <2>1 DEF AccessTokens
  <2> QED
    BY <2>2, NoneAssumption DEF Expire, TypeInv, TypeOK
<1>2. ASSUME NEW t \in Req
      PROVE  /\ req'[t].kind = req[t].kind /\ req'[t].who = req[t].who
             /\ req'[t].pc = req[t].pc /\ req'[t].live = FALSE
  <2>1. req[t] \in Requests /\ req'[t] = [req[t] EXCEPT !.live = FALSE]
    BY <1>1 DEF Expire
  <2> QED
    BY <2>1 DEF Requests
<1>3. /\ ~Overlapping
      /\ Writers = {} => Agreeing(user, sAccess, sRefresh, sUser)
      /\ RefreshProgress(refresh, user, sAccess, sRefresh, sUser)
      /\ \A t \in Req : Progress(req[t], user, sAccess, sRefresh, sUser)
  BY DEF SessionInv
<1>4. Writers' = Writers
  BY <1>1, <1>2 DEF Writers
<1>5. \A u : /\ Empty(sAccess', sRefresh', sUser') <=> Empty(sAccess, sRefresh, sUser)
             /\ FullOf(u, sAccess', sRefresh', sUser') <=> FullOf(u, sAccess, sRefresh, sUser)
  BY <1>1 DEF Empty, FullOf
<1>6. \A u : Agreeing(u, sAccess', sRefresh', sUser') <=> Agreeing(u, sAccess, sRefresh, sUser)
  BY <1>5 DEF Agreeing
<1>7. RefreshProgress(refresh', user', sAccess', sRefresh', sUser')
  BY <1>1, <1>3, <1>5, <1>6 DEF RefreshProgress
<1>8. ASSUME NEW t \in Req
      PROVE  Progress(req'[t], user', sAccess', sRefresh', sUser')
  <2>1. Progress(req[t], user, sAccess, sRefresh, sUser)
    BY <1>3
  <2> QED
    BY <1>1, <1>2, <1>5, <1>6, <2>1 DEF Progress
<1> QED
  BY <1>1, <1>3, <1>4, <1>6, <1>7, <1>8 DEF SessionInv

(* Opened again when nobody was changing the session, the app shows the    *)
(* stored one.                                                             *)
LEMMA KillStep ==
  ASSUME TypeInv, SessionInv, ~overlap, Writers = {}, Kill
  PROVE  SessionInv'
<1>1. Agreeing(user, sAccess, sRefresh, sUser)
  BY DEF SessionInv
<1>2. /\ UNCHANGED <<sAccess, sRefresh, sUser>> /\ refresh' = None
      /\ user' = IF sAccess = None THEN None ELSE sUser
      /\ \A t \in Req : req'[t] = Idle
  BY DEF Kill, store
<1>3. Agreeing(user', sAccess', sRefresh', sUser')
  BY <1>1, <1>2 DEF Agreeing, Empty, FullOf
<1>4. \A t \in Req : /\ Progress(req'[t], user', sAccess', sRefresh', sUser')
                     /\ req'[t].kind = "idle" /\ req'[t].pc \notin Clearing
  <2>1. Idle.kind = "idle" /\ Idle.pc \notin Clearing
    BY DEF Idle, Clearing
  <2> QED
    BY <1>2, <2>1, IdleProgress
<1>5. ~Overlapping'
  BY <1>2, <1>4 DEF Overlapping, Writers
<1>6. RefreshProgress(refresh', user', sAccess', sRefresh', sUser')
  BY <1>2 DEF RefreshProgress
<1> QED
  BY <1>3, <1>4, <1>5, <1>6 DEF SessionInv

LEMMA AlwaysSession == Init /\ [][Next]_vars => [](TypeInv /\ SessionInv)
<1>1. Init => SessionInv
  <2> SUFFICES ASSUME Init PROVE SessionInv
    OBVIOUS
  <2>1. Agreeing(user, sAccess, sRefresh, sUser)
    <3>1. CASE sAccess = None /\ user = None
      BY <3>1 DEF Init, Agreeing, Empty
    <3>2. ASSUME NEW u \in User, sAccess = Fresh(u), user = u
          PROVE  Agreeing(user, sAccess, sRefresh, sUser)
      BY <3>2, FreshIs, MobileSessionAssumption DEF Init, Agreeing, FullOf
    <3> QED
      BY <3>1, <3>2 DEF Init
  <2>2. \A t \in Req : /\ Progress(req[t], user, sAccess, sRefresh, sUser)
                       /\ req[t].kind = "idle" /\ req[t].pc \notin Clearing
    BY IdleProgress DEF Init, Idle, Clearing
  <2>3. refresh = None /\ ~Overlapping
    BY <2>2 DEF Init, Overlapping, Writers
  <2> QED
    BY <2>1, <2>2, <2>3 DEF SessionInv, RefreshProgress
<1>2. TypeInv /\ TypeInv' /\ SessionInv /\ [Next]_vars => SessionInv'
  <2> SUFFICES ASSUME TypeInv, TypeInv', SessionInv, [Next]_vars
               PROVE  SessionInv'
    OBVIOUS
  <2>1. CASE Step /\ overlap' = (overlap \/ Overlapping')
    <3> SUFFICES ASSUME ~overlap'
                 PROVE  SessionInv'
      BY DEF SessionInv
    <3>1. ~overlap /\ ~Overlapping' /\ RequestsOK'
      BY <2>1 DEF TypeInv, TypeOK, Named, RequestsOK
    <3> QED
      BY <2>1, <3>1, SaveStep, ClearStep, RequestStep, BeginStep, TheRefresh, ExpireStep
         DEF Step, Handler, RefreshStep
  <2>2. CASE Kill /\ overlap' = (overlap \/ Writers # {})
    BY <2>2, KillStep DEF SessionInv
  <2>3. CASE UNCHANGED vars
    <3>1. Writers' = Writers
      BY <2>3 DEF vars, Writers
    <3> QED
      BY <2>3, <3>1 DEF vars, SessionInv, Overlapping
  <2> QED
    BY <2>1, <2>2, <2>3 DEF Next
<1> QED
  BY <1>1, <1>2, AlwaysTyped, PTL

(***************************************************************************)
(* Between two changes of the session the device's store and the signed-in *)
(* user agree (utils/storage.ts, AuthContext.tsx 49-59), as long as no two *)
(* handlers that change it have overlapped and none was killed.            *)
(***************************************************************************)
THEOREM SessionIsWhole == Spec => []StoreAgrees
<1>1. TypeInv /\ SessionInv => StoreAgrees
  <2> SUFFICES ASSUME SessionInv, ~overlap, Writers = {}
               PROVE  /\ user = None => sAccess = None /\ sRefresh = None /\ sUser = None
                      /\ sAccess # None =>
                           sAccess.user = user /\ sRefresh = user /\ sUser = user
    BY DEF StoreAgrees
  <2>1. Agreeing(user, sAccess, sRefresh, sUser)
    BY DEF SessionInv
  <2> QED
    BY <2>1 DEF Agreeing, Empty, FullOf
<1> QED
  BY <1>1, AlwaysSession, PTL DEF Spec

(***************************************************************************)
(* Nobody appears on a device that showed the login screen but by an       *)
(* answered login or by opening the app again (AuthContext.tsx 24-70).     *)
(***************************************************************************)
THEOREM OnlyTheFormSignsIn == Spec => OnlyLoginSignsIn
<1>1. ASSUME TypeInv, SessionInv, [Next]_vars, user = None, user' # None, ~overlap
      PROVE  \/ \E r \in Req : req[r].kind = "login" /\ req[r].pc = "setUser"
             \/ Opened
  <2>1. ASSUME NEW r \in Req, SaveSession(r)
        PROVE  req[r].kind = "login" /\ req[r].pc = "setUser"
    <3>1. NamedRequest(req[r]) /\ Progress(req[r], user, sAccess, sRefresh, sUser)
      BY <1>1 DEF TypeInv, Named, SessionInv
    <3>2. req[r].pc = "setUser" /\ req[r].who # None
      BY <1>1, <2>1 DEF SaveSession
    <3>3. req[r].kind # "me"
      BY <1>1, <3>1, <3>2 DEF Progress
    <3> QED
      BY <3>1, <3>2, <3>3 DEF NamedRequest
  <2>2. ASSUME NEW r \in Req,
               \/ Answer(r) \/ Fail(r) \/ Unauthorized(r) \/ ClearSession(r)
               \/ Screen(r) \/ SignIn(r) \/ SignOut(r)
        PROVE  user' = user \/ user' = None
    BY <2>2 DEF Answer, Fail, Unauthorized, ClearSession, Screen, SignIn, SignOut, Start
  <2>3. CASE RefreshStep \/ Expire
    BY <1>1, <2>3 DEF RefreshStep, RefreshRead, RefreshAnswer, RefreshSaves,
       RefreshClears, Expire
  <2>4. CASE Kill
    <3>1. visits \in Nat /\ visits' = visits + 1 /\ req' = [r \in Req |-> Idle]
      BY <1>1, <2>4, MobileSessionAssumption DEF Kill, TypeInv, TypeOK
    <3> QED
      BY <3>1 DEF Opened
  <2> QED
    BY <1>1, <2>1, <2>2, <2>3, <2>4 DEF Next, Step, Handler, vars
<1>2. TypeInv /\ SessionInv /\ [Next]_vars =>
        [user = None /\ user' # None =>
          \/ \E r \in Req : req[r].kind = "login" /\ req[r].pc = "setUser"
          \/ Opened \/ overlap]_vars
  BY <1>1
<1> QED
  BY <1>2, AlwaysSession, PTL DEF Spec, OnlyLoginSignsIn

=============================================================================
