---------------------------- MODULE ServerProofs ----------------------------
(***************************************************************************)
(* What the server's start, its one-time codes, its router settings, its   *)
(* commands to the router and its messages promise, for any number of      *)
(* processes, goroutines, migrations, commands and requests.  A part's     *)
(* invariant is kept by its own steps, and the steps of the other parts    *)
(* leave its variables alone.                                              *)
(***************************************************************************)
EXTENDS Server, Sequences, FiniteSets, FiniteSetTheorems, TLAPS

(* Cardinality means the same inside the part.                             *)
LEMMA CardinalityOfAuth == \A S : Auth!Cardinality(S) = Cardinality(S)
  BY DEF Auth!Cardinality, Cardinality

LEMMA HandlersFinite == IsFiniteSet(Handlers) /\ Cardinality(Handlers) \in Nat
  <1>1. IsFiniteSet(Handlers)
    BY ServerAssumption DEF Auth!SignInAssumption, Auth!IsFiniteSet, IsFiniteSet
  <1> QED BY <1>1, FS_CardinalityType

-----------------------------------------------------------------------------
(* One-time codes                                                          *)

LEMMA AuthTypesInit == Auth!Init => Auth!TypeOK
  BY DEF Auth!Init, Auth!TypeOK, Auth!Points

LEMMA AuthTypesStep == Auth!TypeOK /\ [Auth!Next]_signingIn => Auth!TypeOK'
<1> SUFFICES ASSUME Auth!TypeOK, [Auth!Next]_signingIn PROVE Auth!TypeOK'
  OBVIOUS
<1> USE DEF Auth!TypeOK, Auth!Points, Auth!Goto, Auth!Return
<1>1. ASSUME NEW h \in Handlers, Auth!CountRecent(h) PROVE Auth!TypeOK'
  BY <1>1 DEF Auth!CountRecent
<1>2. ASSUME NEW h \in Handlers, Auth!CreateOTP(h) PROVE Auth!TypeOK'
  <2> DEFINE new(code) == [code |-> code, at |-> now, verified |-> FALSE,
                           expires |-> now + otpExpiry]
  <2>1. \A code \in OTPs : new(code) \in Auth!OTP
    BY ServerAssumption DEF Auth!OTP, Auth!SignInAssumption
  <2> HIDE DEF new
  <2>2. \A code \in OTPs : Append(codes, new(code)) \in Seq(Auth!OTP)
    BY <2>1
  <2>3. codes' \in Seq(Auth!OTP)
    BY <1>2, <2>2 DEF Auth!CreateOTP, new
  <2> QED BY <1>2, <2>3 DEF Auth!CreateOTP
<1>3. ASSUME NEW h \in Handlers, Auth!SendOTP(h) PROVE Auth!TypeOK'
  BY <1>3 DEF Auth!SendOTP
<1>4. ASSUME NEW h \in Handlers, NEW code \in OTPs, Auth!Verify(h, code)
      PROVE  Auth!TypeOK'
  <2> DEFINE marked(i) == IF i \in Auth!Matching(code)
                          THEN [codes[i] EXCEPT !.verified = TRUE] ELSE codes[i]
  <2>a. \A i \in DOMAIN codes : codes[i] \in Auth!OTP
    OBVIOUS
  <2>b. \A row \in Auth!OTP : [row EXCEPT !.verified = TRUE] \in Auth!OTP
    BY DEF Auth!OTP
  <2>1. \A i \in DOMAIN codes : marked(i) \in Auth!OTP
    BY <2>a, <2>b
  <2>2. codes' = [i \in 1..Len(codes) |-> marked(i)]
    BY <1>4 DEF Auth!Verify
  <2> HIDE DEF marked
  <2>3. codes' \in Seq(Auth!OTP)
    BY <2>1, <2>2
  <2> QED BY <1>4, <2>3 DEF Auth!Verify
<1>5. ASSUME NEW h \in Handlers, Auth!GetByPhone(h) PROVE Auth!TypeOK'
  BY <1>5 DEF Auth!GetByPhone
<1>6. CASE Auth!Restart
  BY <1>6 DEF Auth!Restart
<1>7. CASE Auth!Tick
  BY <1>7 DEF Auth!Tick
<1>8. CASE UNCHANGED signingIn
  BY <1>8 DEF signingIn
<1> QED BY <1>1, <1>2, <1>3, <1>4, <1>5, <1>6, <1>7, <1>8
        DEF Auth!Next, Auth!Request

(* Every insert was let through by a count below the limit, and is taken   *)
(* into account from then on.                                              *)
Creating == {h \in Handlers : call[h] = "create"}

CodesInv ==
  /\ Auth!TypeOK
  /\ Cardinality(Auth!Recent) + Cardinality(Creating)
       <= otpRateLimit + Cardinality(Handlers) - 1

LEMMA RecentFinite ==
  ASSUME Auth!TypeOK
  PROVE  /\ IsFiniteSet(Auth!Recent)
         /\ Cardinality(Auth!Recent) \in Nat
<1>1. IsFiniteSet(1..Len(codes))
  BY FS_Interval DEF Auth!TypeOK
<1>2. Auth!Recent \subseteq 1..Len(codes)
  BY DEF Auth!TypeOK, Auth!Recent
<1> QED BY <1>1, <1>2, FS_Subset, FS_CardinalityType

LEMMA CreatingFinite ==
  /\ IsFiniteSet(Creating)
  /\ Cardinality(Creating) \in Nat
  /\ Cardinality(Creating) <= Cardinality(Handlers)
BY HandlersFinite, FS_Subset, FS_CardinalityType DEF Creating

(* Fewer codes and fewer inserts to come keep the invariant.               *)
LEMMA CodesFewer ==
  ASSUME CodesInv, Auth!TypeOK',
         Auth!Recent' \subseteq Auth!Recent, Creating' \subseteq Creating
  PROVE  CodesInv'
<1>1. Auth!TypeOK
  BY DEF CodesInv
<1>2. Cardinality(Auth!Recent') <= Cardinality(Auth!Recent)
      /\ Cardinality(Auth!Recent') \in Nat
  BY <1>1, RecentFinite, FS_Subset, FS_CardinalityType
<1>3. Cardinality(Creating') <= Cardinality(Creating)
      /\ Cardinality(Creating') \in Nat
  BY CreatingFinite, FS_Subset, FS_CardinalityType
<1> QED BY <1>1, <1>2, <1>3, RecentFinite, CreatingFinite, HandlersFinite,
        ServerAssumption DEF CodesInv, Auth!SignInAssumption

LEMMA CodesInit == Auth!Init => CodesInv
<1> SUFFICES ASSUME Auth!Init PROVE CodesInv
  OBVIOUS
<1>1. Auth!Recent = {} /\ Creating = {}
  BY DEF Auth!Init, Auth!Recent, Creating
<1>2. Handlers # {}
  BY ServerAssumption DEF Auth!SignInAssumption
<1>3. Cardinality(Handlers) >= 1
  BY <1>2, HandlersFinite, FS_EmptySet
<1> QED BY <1>1, <1>3, HandlersFinite, FS_EmptySet, AuthTypesInit, ServerAssumption
        DEF CodesInv, Auth!SignInAssumption

LEMMA CodesStep == CodesInv /\ [Auth!Next]_signingIn => CodesInv'
<1> SUFFICES ASSUME CodesInv, [Auth!Next]_signingIn PROVE CodesInv'
  OBVIOUS
<1>t. Auth!TypeOK /\ Auth!TypeOK'
  BY AuthTypesStep DEF CodesInv
<1>c. call \in [Handlers -> Auth!Points]
  BY <1>t DEF Auth!TypeOK
<1> USE DEF Auth!Goto, Auth!Return
<1>1. ASSUME NEW h \in Handlers, Auth!CountRecent(h) PROVE CodesInv'
  <2>1. Auth!Recent' = Auth!Recent
    BY <1>1 DEF Auth!CountRecent, Auth!Recent
  <2>2. Cardinality(Auth!Recent) < otpRateLimit
    BY <1>1, CardinalityOfAuth DEF Auth!CountRecent
  <2>3. Creating' \subseteq Handlers
    BY DEF Creating
  <2>4. Cardinality(Creating') <= Cardinality(Handlers)
        /\ Cardinality(Creating') \in Nat
    BY <2>3, HandlersFinite, FS_Subset, FS_CardinalityType
  <2> QED BY <1>t, <2>1, <2>2, <2>4, HandlersFinite, RecentFinite, ServerAssumption
          DEF CodesInv, Auth!SignInAssumption
<1>2. ASSUME NEW h \in Handlers, Auth!CreateOTP(h) PROVE CodesInv'
  <2>1. CASE UNCHANGED codes
    <3>1. Creating' \subseteq Creating
      BY <1>2, <1>c DEF Auth!CreateOTP, Creating
    <3>2. Auth!Recent' = Auth!Recent
      BY <1>2, <2>1 DEF Auth!CreateOTP, Auth!Recent
    <3> QED BY <1>t, <3>1, <3>2, CodesFewer
  <2>2. CASE \E row : codes' = Append(codes, row)
    <3>1. Creating' = Creating \ {h} /\ h \in Creating
      BY <1>2, <1>c DEF Auth!CreateOTP, Creating
    <3>2. Cardinality(Creating') = Cardinality(Creating) - 1
      BY <3>1, CreatingFinite, FS_RemoveElement
    <3>3. Auth!Recent' \subseteq Auth!Recent \cup {Len(codes) + 1}
      BY <1>2, <1>t, <2>2 DEF Auth!CreateOTP, Auth!Recent, Auth!TypeOK
    <3>4. /\ IsFiniteSet(Auth!Recent \cup {Len(codes) + 1})
          /\ Cardinality(Auth!Recent \cup {Len(codes) + 1})
               <= Cardinality(Auth!Recent) + 1
      BY <1>t, RecentFinite, FS_AddElement
    <3>5. Cardinality(Auth!Recent') <= Cardinality(Auth!Recent) + 1
          /\ Cardinality(Auth!Recent') \in Nat
      BY <1>t, <3>3, <3>4, RecentFinite, FS_Subset, FS_CardinalityType
    <3> QED BY <1>t, <3>2, <3>5, CreatingFinite, RecentFinite, HandlersFinite,
            ServerAssumption DEF CodesInv, Auth!SignInAssumption
  <2> QED BY <1>2, <2>1, <2>2 DEF Auth!CreateOTP
<1>3. ASSUME NEW h \in Handlers, Auth!SendOTP(h) PROVE CodesInv'
  <2>1. Creating' \subseteq Creating /\ Auth!Recent' = Auth!Recent
    BY <1>3, <1>c DEF Auth!SendOTP, Creating, Auth!Recent
  <2> QED BY <1>t, <2>1, CodesFewer
<1>4. ASSUME NEW h \in Handlers, NEW code \in OTPs, Auth!Verify(h, code)
      PROVE  CodesInv'
  <2>1. Creating' \subseteq Creating
    BY <1>4, <1>c DEF Auth!Verify, Creating
  <2>2. DOMAIN codes' = DOMAIN codes
    BY <1>4 DEF Auth!Verify
  <2>3. \A i \in DOMAIN codes : codes[i] \in Auth!OTP
    BY <1>t DEF Auth!TypeOK
  <2>4. \A row \in Auth!OTP : [row EXCEPT !.verified = TRUE].at = row.at
    BY DEF Auth!OTP
  <2>5. \A i \in DOMAIN codes : codes'[i].at = codes[i].at
    BY <1>4, <2>3, <2>4 DEF Auth!Verify
  <2>6. Auth!Recent' \subseteq Auth!Recent
    BY <1>4, <2>2, <2>5 DEF Auth!Verify, Auth!Recent
  <2> QED BY <1>t, <2>1, <2>6, CodesFewer
<1>5. ASSUME NEW h \in Handlers, Auth!GetByPhone(h) PROVE CodesInv'
  <2>1. Creating' \subseteq Creating /\ Auth!Recent' = Auth!Recent
    BY <1>5, <1>c DEF Auth!GetByPhone, Creating, Auth!Recent
  <2> QED BY <1>t, <2>1, CodesFewer
<1>6. CASE Auth!Restart
  <2>1. Creating' \subseteq Creating /\ Auth!Recent' = Auth!Recent
    BY <1>6 DEF Auth!Restart, Creating, Auth!Recent
  <2> QED BY <1>t, <2>1, CodesFewer
<1>7. CASE Auth!Tick
  <2>0. \A i \in DOMAIN codes : codes[i] \in Auth!OTP
    BY <1>t DEF Auth!TypeOK
  <2>1. \A i \in DOMAIN codes : codes[i].at \in Nat
    BY <2>0 DEF Auth!OTP
  <2>2. Auth!Recent' \subseteq Auth!Recent
    BY <1>7, <1>t, <2>1, ServerAssumption
       DEF Auth!Tick, Auth!Recent, Auth!TypeOK, Auth!SignInAssumption
  <2>3. Creating' = Creating
    BY <1>7 DEF Auth!Tick, Creating
  <2> QED BY <1>t, <2>2, <2>3, CodesFewer
<1>8. CASE UNCHANGED signingIn
  <2>1. Creating' = Creating /\ Auth!Recent' = Auth!Recent
    BY <1>8 DEF signingIn, Creating, Auth!Recent
  <2> QED BY <1>t, <2>1, CodesFewer
<1> QED BY <1>1, <1>2, <1>3, <1>4, <1>5, <1>6, <1>7, <1>8
        DEF Auth!Next, Auth!Request

(* A session, and a request that will give one out, used a code up.        *)
LookingUp == {h \in Handlers : call[h] = "lookup"}

Used == {i \in DOMAIN codes : codes[i].verified}

SessionInv ==
  /\ Auth!TypeOK
  /\ sessions + Cardinality(LookingUp) <= Cardinality(Used)

LEMMA UsedFinite ==
  ASSUME Auth!TypeOK
  PROVE  IsFiniteSet(Used) /\ Cardinality(Used) \in Nat
<1>1. IsFiniteSet(1..Len(codes))
  BY FS_Interval DEF Auth!TypeOK
<1>2. Used \subseteq 1..Len(codes)
  BY DEF Auth!TypeOK, Used
<1> QED BY <1>1, <1>2, FS_Subset, FS_CardinalityType

LEMMA LookingUpFinite ==
  IsFiniteSet(LookingUp) /\ Cardinality(LookingUp) \in Nat
BY HandlersFinite, FS_Subset, FS_CardinalityType DEF LookingUp

(* More codes used and fewer requests that look up keep the invariant.     *)
LEMMA SessionsSame ==
  ASSUME SessionInv, Auth!TypeOK', sessions' = sessions,
         LookingUp' \subseteq LookingUp, Used \subseteq Used'
  PROVE  SessionInv'
<1>1. Auth!TypeOK /\ sessions \in Nat
  BY DEF SessionInv, Auth!TypeOK
<1>2. Cardinality(LookingUp') <= Cardinality(LookingUp)
      /\ Cardinality(LookingUp') \in Nat
  BY LookingUpFinite, FS_Subset, FS_CardinalityType
<1>3. IsFiniteSet(Used')
  <2>1. IsFiniteSet(1..Len(codes'))
    BY FS_Interval DEF Auth!TypeOK
  <2>2. Used' \subseteq 1..Len(codes')
    BY DEF Auth!TypeOK, Used
  <2> QED BY <2>1, <2>2, FS_Subset
<1>4. Cardinality(Used) <= Cardinality(Used') /\ Cardinality(Used') \in Nat
  BY <1>3, FS_Subset, FS_CardinalityType
<1> QED BY <1>1, <1>2, <1>4, UsedFinite, LookingUpFinite DEF SessionInv

LEMMA SessionsInit == Auth!Init => SessionInv
<1> SUFFICES ASSUME Auth!Init PROVE SessionInv
  OBVIOUS
<1>1. Used = {} /\ LookingUp = {}
  BY DEF Auth!Init, Used, LookingUp
<1>2. sessions = 0
  BY DEF Auth!Init
<1> QED BY <1>1, <1>2, FS_EmptySet, AuthTypesInit DEF SessionInv

LEMMA SessionsStep == SessionInv /\ [Auth!Next]_signingIn => SessionInv'
<1> SUFFICES ASSUME SessionInv, [Auth!Next]_signingIn PROVE SessionInv'
  OBVIOUS
<1>t. Auth!TypeOK /\ Auth!TypeOK'
  BY AuthTypesStep DEF SessionInv
<1>c. call \in [Handlers -> Auth!Points] /\ sessions \in Nat
  BY <1>t DEF Auth!TypeOK
<1> USE DEF Auth!Goto, Auth!Return
<1>1. ASSUME NEW h \in Handlers, Auth!CountRecent(h) PROVE SessionInv'
  <2>1. LookingUp' \subseteq LookingUp /\ Used' = Used
    BY <1>1, <1>c DEF Auth!CountRecent, LookingUp, Used
  <2> QED BY <1>1, <1>t, <2>1, SessionsSame DEF Auth!CountRecent
<1>2. ASSUME NEW h \in Handlers, Auth!CreateOTP(h) PROVE SessionInv'
  <2>1. LookingUp' \subseteq LookingUp /\ sessions' = sessions
    BY <1>2, <1>c DEF Auth!CreateOTP, LookingUp
  <2>2. UNCHANGED codes \/ \E row : codes' = Append(codes, row)
    BY <1>2 DEF Auth!CreateOTP
  <2>3. codes \in Seq(Auth!OTP)
    BY <1>t DEF Auth!TypeOK
  <2>4. Used \subseteq Used'
    BY <2>2, <2>3 DEF Used
  <2> QED BY <1>t, <2>1, <2>4, SessionsSame
<1>3. ASSUME NEW h \in Handlers, Auth!SendOTP(h) PROVE SessionInv'
  <2>1. LookingUp' \subseteq LookingUp /\ Used' = Used
    BY <1>3, <1>c DEF Auth!SendOTP, LookingUp, Used
  <2> QED BY <1>3, <1>t, <2>1, SessionsSame DEF Auth!SendOTP
<1>4. ASSUME NEW h \in Handlers, NEW code \in OTPs, Auth!Verify(h, code)
      PROVE  SessionInv'
  <2>1. PICK n \in Auth!Matching(code) : TRUE
    BY <1>4 DEF Auth!Verify
  <2>2. n \in DOMAIN codes /\ n \notin Used
    BY <2>1 DEF Auth!Matching, Used
  <2>3. \A i \in DOMAIN codes : codes[i] \in Auth!OTP
    BY <1>t DEF Auth!TypeOK
  <2>4. \A row \in Auth!OTP : [row EXCEPT !.verified = TRUE].verified = TRUE
    BY DEF Auth!OTP
  <2>5. /\ DOMAIN codes' = DOMAIN codes
        /\ \A i \in DOMAIN codes : i \in Auth!Matching(code) => codes'[i].verified = TRUE
        /\ \A i \in DOMAIN codes : i \notin Auth!Matching(code) => codes'[i] = codes[i]
    BY <1>4, <2>3, <2>4 DEF Auth!Verify
  <2>6. Used \cup {n} \subseteq Used'
    BY <2>1, <2>2, <2>5 DEF Used, Auth!Matching
  <2>7. IsFiniteSet(Used')
    <3>1. IsFiniteSet(1..Len(codes'))
      BY <1>t, FS_Interval DEF Auth!TypeOK
    <3>2. Used' \subseteq 1..Len(codes')
      BY <1>t DEF Auth!TypeOK, Used
    <3> QED BY <3>1, <3>2, FS_Subset
  <2>8. Cardinality(Used \cup {n}) = Cardinality(Used) + 1
    BY <1>t, <2>2, UsedFinite, FS_AddElement
  <2>9. Cardinality(Used') >= Cardinality(Used) + 1 /\ Cardinality(Used') \in Nat
    BY <1>t, <2>6, <2>7, <2>8, UsedFinite, FS_Subset, FS_CardinalityType
  <2>10. LookingUp' = LookingUp \cup {h} /\ h \notin LookingUp
    BY <1>4, <1>c DEF Auth!Verify, LookingUp
  <2>11. Cardinality(LookingUp') = Cardinality(LookingUp) + 1
    BY <2>10, LookingUpFinite, FS_AddElement
  <2>12. sessions' = sessions
    BY <1>4 DEF Auth!Verify
  <2> QED BY <1>t, <1>c, <2>9, <2>11, <2>12, UsedFinite, LookingUpFinite DEF SessionInv
<1>5. ASSUME NEW h \in Handlers, Auth!GetByPhone(h) PROVE SessionInv'
  <2>1. LookingUp' = LookingUp \ {h} /\ h \in LookingUp /\ Used' = Used
    BY <1>5, <1>c DEF Auth!GetByPhone, LookingUp, Used
  <2>2. Cardinality(LookingUp') = Cardinality(LookingUp) - 1
    BY <2>1, LookingUpFinite, FS_RemoveElement
  <2>3. sessions' \in {sessions, sessions + 1}
    BY <1>5 DEF Auth!GetByPhone
  <2> QED BY <1>t, <1>c, <2>1, <2>2, <2>3, UsedFinite, LookingUpFinite DEF SessionInv
<1>6. CASE Auth!Restart
  <2>1. LookingUp' \subseteq LookingUp /\ Used' = Used /\ sessions' = sessions
    BY <1>6 DEF Auth!Restart, LookingUp, Used
  <2> QED BY <1>t, <2>1, SessionsSame
<1>7. CASE Auth!Tick
  <2>1. LookingUp' = LookingUp /\ Used' = Used /\ sessions' = sessions
    BY <1>7 DEF Auth!Tick, LookingUp, Used
  <2> QED BY <1>t, <2>1, SessionsSame
<1>8. CASE UNCHANGED signingIn
  <2>1. LookingUp' = LookingUp /\ Used' = Used /\ sessions' = sessions
    BY <1>8 DEF signingIn, LookingUp, Used
  <2> QED BY <1>t, <2>1, SessionsSame
<1> QED BY <1>1, <1>2, <1>3, <1>4, <1>5, <1>6, <1>7, <1>8
        DEF Auth!Next, Auth!Request

-----------------------------------------------------------------------------
(* The router's settings                                                   *)

(* Unless they have come apart for one of the reasons, at most one request *)
(* saves, and client and rows agree, or that request is about to make them *)
(* agree.                                                                  *)
ClientInv ==
  /\ Settings!TypeOK
  /\ \A h \in Handlers : saving[h].pc \in {"connect", "configure"} =>
       saving[h].host # Settings!Unsent /\ saving[h].login # Settings!Unsent
  /\ ~apart =>
       /\ \A g, h \in Settings!Busy : g = h
       /\ \A h \in Settings!Busy :
            IF saving[h].pc = "configure"
            THEN stored = [host |-> saving[h].host, login |-> saving[h].login]
            ELSE client = Settings!ClientOf(stored)
       /\ Settings!Busy = {} => client = Settings!ClientOf(stored)

LEMMA SettingsInit == Settings!Init => ClientInv
<1> SUFFICES ASSUME Settings!Init PROVE ClientInv
  OBVIOUS
<1>1. stored = [host |-> stored.host, login |-> stored.login]
  BY DEF Settings!Init, Settings!Setting
<1>2. ~apart => client = Settings!ClientOf(stored)
  BY <1>1 DEF Settings!Init, Settings!Incomplete, Settings!InitialClient
<1>3. Settings!Busy = {}
  BY DEF Settings!Init, Settings!Busy, Settings!NoSave
<1>4. Settings!TypeOK
  BY ServerAssumption
     DEF Settings!Init, Settings!TypeOK, Settings!NoSave, Settings!InitialClient,
         Settings!ClientOf, Settings!Setting, Settings!RouterSettingsAssumption,
         Settings!Incomplete
<1>5. \A h \in Handlers : saving[h].pc = "idle"
  BY DEF Settings!Init, Settings!NoSave
<1> QED BY <1>2, <1>3, <1>4, <1>5 DEF ClientInv

LEMMA SettingsTypesStep ==
  ClientInv /\ [Settings!Next]_configuring => Settings!TypeOK'
<1> SUFFICES ASSUME ClientInv, [Settings!Next]_configuring
             PROVE  Settings!TypeOK'
  OBVIOUS
<1>t. Settings!TypeOK
  BY DEF ClientInv
<1> USE <1>t DEF Settings!TypeOK
<1>1. ASSUME NEW h \in Handlers, Settings!SaveAndConnect(h) PROVE Settings!TypeOK'
  <2>1. PICK s \in Settings!Setting : Settings!Begin(h, "connect", s.host, s.login)
    BY <1>1 DEF Settings!SaveAndConnect
  <2>2. s.host \in Hosts \cup {Empty} /\ s.login \in Logins \cup {Empty}
    BY DEF Settings!Setting
  <2> QED BY <2>1, <2>2, ServerAssumption
          DEF Settings!Begin, Settings!RouterSettingsAssumption
<1>2. ASSUME NEW h \in Handlers, Settings!UpdateSettings(h) PROVE Settings!TypeOK'
  BY <1>2, ServerAssumption
     DEF Settings!UpdateSettings, Settings!Begin, Settings!RouterSettingsAssumption
<1>3. ASSUME NEW h \in Handlers, Settings!SetMultipleFails(h) PROVE Settings!TypeOK'
  BY <1>3 DEF Settings!SetMultipleFails, Settings!End, Settings!NoSave
<1>4. ASSUME NEW h \in Handlers, Settings!SetMultiple(h) PROVE Settings!TypeOK'
  <2>1. stored' \in Settings!Setting
    BY <1>4 DEF Settings!SetMultiple, Settings!Written, Settings!Setting
  <2>2. saving' = [saving EXCEPT ![h].pc = "configure"]
        \/ saving' = [saving EXCEPT ![h] = Settings!NoSave]
    BY <1>4 DEF Settings!SetMultiple, Settings!End
  <2>3. apart' \in BOOLEAN
    BY <1>4 DEF Settings!SetMultiple
  <2> QED BY <1>4, <2>1, <2>2, <2>3 DEF Settings!SetMultiple, Settings!NoSave
<1>5. ASSUME NEW h \in Handlers, Settings!Configure(h) PROVE Settings!TypeOK'
  <2>1. saving[h].host \in Hosts \cup {Empty} /\ saving[h].login \in Logins \cup {Empty}
    BY <1>5 DEF Settings!Configure, ClientInv
  <2> QED BY <1>5, <2>1
          DEF Settings!Configure, Settings!End, Settings!NoSave, Settings!ClientOf,
              Settings!Setting
<1>6. CASE Settings!Restart
  <2>1. client' \in Settings!Setting \cup {None}
    BY <1>6, ServerAssumption
       DEF Settings!Restart, Settings!InitialClient, Settings!ClientOf,
           Settings!Setting, Settings!RouterSettingsAssumption
  <2>2. Settings!Incomplete(stored) \in BOOLEAN
    BY DEF Settings!Incomplete
  <2>3. apart' \in BOOLEAN
    BY <1>6, <2>2 DEF Settings!Restart
  <2> QED BY <1>6, <2>1, <2>3 DEF Settings!Restart, Settings!NoSave
<1>7. CASE UNCHANGED configuring
  BY <1>7 DEF configuring
<1> QED BY <1>1, <1>2, <1>3, <1>4, <1>5, <1>6, <1>7
        DEF Settings!Next, Settings!Save

LEMMA SettingsStep == ClientInv /\ [Settings!Next]_configuring => ClientInv'
<1> SUFFICES ASSUME ClientInv, [Settings!Next]_configuring PROVE ClientInv'
  OBVIOUS
<1>t. Settings!TypeOK /\ Settings!TypeOK'
  BY SettingsTypesStep DEF ClientInv
<1>s. saving \in [Handlers -> [pc : {"idle", "connect", "update", "configure"},
                              host : Hosts \cup {Empty, Settings!Unsent},
                              login : Logins \cup {Empty, Settings!Unsent}]]
  BY <1>t DEF Settings!TypeOK
<1>b. ASSUME NEW h \in Handlers, NEW pc \in {"connect", "update"}, NEW host, NEW login,
             Settings!Begin(h, pc, host, login),
             pc = "connect" => host # Settings!Unsent /\ login # Settings!Unsent
      PROVE  ClientInv'
  <2>1. /\ saving[h].pc = "idle"
        /\ saving' = [saving EXCEPT ![h] = [pc |-> pc, host |-> host, login |-> login]]
        /\ UNCHANGED <<stored, client>>
        /\ ~apart' => ~apart /\ Settings!Busy = {}
    BY <1>b DEF Settings!Begin
  <2>2. Settings!Busy' = Settings!Busy \cup {h}
    BY <2>1, <1>s DEF Settings!Busy
  <2>3. saving'[h] = [pc |-> pc, host |-> host, login |-> login]
        /\ \A g \in Handlers \ {h} : saving'[g] = saving[g]
    BY <2>1, <1>s
  <2>4. \A g \in Handlers : saving'[g].pc \in {"connect", "configure"} =>
          saving'[g].host # Settings!Unsent /\ saving'[g].login # Settings!Unsent
    BY <1>b, <2>3 DEF ClientInv
  <2>5. ~apart' => client' = Settings!ClientOf(stored)'
    BY <2>1 DEF ClientInv, Settings!ClientOf
  <2> QED BY <1>t, <2>1, <2>2, <2>3, <2>4, <2>5 DEF ClientInv
<1>1. ASSUME NEW h \in Handlers, Settings!SaveAndConnect(h) PROVE ClientInv'
  <2>1. PICK s \in Settings!Setting : Settings!Begin(h, "connect", s.host, s.login)
    BY <1>1 DEF Settings!SaveAndConnect
  <2>2. s.host # Settings!Unsent /\ s.login # Settings!Unsent
    BY ServerAssumption DEF Settings!Setting, Settings!RouterSettingsAssumption
  <2> QED BY <1>b, <2>1, <2>2
<1>2. ASSUME NEW h \in Handlers, Settings!UpdateSettings(h) PROVE ClientInv'
  BY <1>2, <1>b DEF Settings!UpdateSettings
<1>3. ASSUME NEW h \in Handlers, Settings!SetMultipleFails(h) PROVE ClientInv'
  BY <1>3, <1>t
     DEF Settings!SetMultipleFails, Settings!End, Settings!NoSave, Settings!Busy,
         ClientInv, Settings!ClientOf
<1>4. ASSUME NEW h \in Handlers, Settings!SetMultiple(h) PROVE ClientInv'
  <2>h. h \in Settings!Busy
    BY <1>4 DEF Settings!SetMultiple, Settings!Busy
  <2>1. CASE saving[h].pc = "connect"
    <3>1. /\ stored' = [host |-> saving[h].host, login |-> saving[h].login]
          /\ saving' = [saving EXCEPT ![h].pc = "configure"]
          /\ ~apart' => ~apart \/ Settings!Busy = {h}
      BY <1>4, <2>1 DEF Settings!SetMultiple, Settings!Written, ClientInv
    <3>2. /\ saving'[h].pc = "configure"
          /\ saving'[h].host = saving[h].host
          /\ saving'[h].login = saving[h].login
          /\ \A g \in Handlers \ {h} : saving'[g] = saving[g]
      BY <3>1, <1>s
    <3>3. Settings!Busy' = Settings!Busy
      BY <2>1, <3>2 DEF Settings!Busy
    <3>4. ~apart' => Settings!Busy = {h}
      BY <2>h, <3>1 DEF ClientInv
    <3> QED BY <1>t, <2>1, <3>1, <3>2, <3>3, <3>4 DEF ClientInv
  <2>2. CASE saving[h].pc = "update"
    <3>1. /\ saving' = [saving EXCEPT ![h] = Settings!NoSave]
          /\ ~apart' => ~apart /\ stored' = stored
          /\ client' = client
      BY <1>4, <2>2 DEF Settings!SetMultiple, Settings!End
    <3>2. saving'[h].pc = "idle" /\ \A g \in Handlers \ {h} : saving'[g] = saving[g]
      BY <3>1, <1>s DEF Settings!NoSave
    <3>3. Settings!Busy' = Settings!Busy \ {h}
      BY <3>2 DEF Settings!Busy
    <3>4. ~apart => Settings!Busy = {h} /\ client = Settings!ClientOf(stored)
      BY <2>h, <2>2 DEF ClientInv
    <3>5. ~apart' => Settings!Busy' = {} /\ client' = Settings!ClientOf(stored)'
      BY <3>1, <3>3, <3>4 DEF Settings!ClientOf
    <3> QED BY <1>t, <3>2, <3>5 DEF ClientInv
  <2> QED BY <1>4, <2>1, <2>2 DEF Settings!SetMultiple
<1>5. ASSUME NEW h \in Handlers, Settings!Configure(h) PROVE ClientInv'
  BY <1>5, <1>t
     DEF Settings!Configure, Settings!End, Settings!NoSave, Settings!Busy,
         ClientInv, Settings!ClientOf
<1>6. CASE Settings!Restart
  <2>1. stored = [host |-> stored.host, login |-> stored.login]
    BY <1>t DEF Settings!TypeOK, Settings!Setting
  <2>2. stored' = stored /\ (~apart' => client' = Settings!ClientOf(stored))
    BY <1>6, <2>1 DEF Settings!Restart, Settings!InitialClient, Settings!Incomplete
  <2>3. \A h \in Handlers : saving'[h].pc = "idle"
    BY <1>6 DEF Settings!Restart, Settings!NoSave
  <2>4. Settings!Busy' = {}
    BY <2>3 DEF Settings!Busy
  <2>5. ~apart' => client' = Settings!ClientOf(stored)'
    BY <2>2 DEF Settings!ClientOf
  <2> QED BY <1>t, <2>3, <2>4, <2>5 DEF ClientInv
<1>7. CASE UNCHANGED configuring
  BY <1>7, <1>t DEF configuring, Settings!Busy, ClientInv, Settings!ClientOf
<1> QED BY <1>1, <1>2, <1>3, <1>4, <1>5, <1>6, <1>7
        DEF Settings!Next, Settings!Save

-----------------------------------------------------------------------------
(* Messages                                                                *)

(* The batch a goroutine sends is its own, begun and not yet saved, and it *)
(* has asked for those it has results of, once.                            *)
Sending(h) ==
  LET s == sending[h]
      b == s.batch
  IN  /\ b \in 1..batches
      /\ messages[b] = <<>>
      /\ s.left \subseteq audience[b]
      /\ DOMAIN s.results = audience[b] \ s.left
      /\ \A r \in Recipients : asked[b][r] = IF r \in DOMAIN s.results THEN 1 ELSE 0
      /\ \A r \in DOMAIN s.results : s.results[r] = "sent" => r \in accepted[b]
      /\ s.pc = "save" => s.left = {}

MailInv ==
  /\ Mail!TypeOK
  /\ \A h \in Handlers : sending[h].pc # "idle" => Sending(h)
  /\ \A g, h \in Handlers :
       sending[g].pc # "idle" /\ sending[h].pc # "idle"
         /\ sending[g].batch = sending[h].batch => g = h
  /\ \A b \in Mail!Batches :
       b > batches => messages[b] = <<>> /\ \A r \in Recipients : asked[b][r] = 0
  /\ HistoryIsTrue

LEMMA NoResults == <<>> \in Mail!Results /\ DOMAIN <<>> = {}
  BY DEF Mail!Results

LEMMA MailInit == Mail!Init => MailInv
<1> SUFFICES ASSUME Mail!Init PROVE MailInv
  OBVIOUS
<1>1. Mail!TypeOK
  BY NoResults, ServerAssumption DEF Mail!Init, Mail!TypeOK, Mail!NoBatch, Mail!Batches
<1>2. \A h \in Handlers : sending[h].pc = "idle"
  BY DEF Mail!Init, Mail!NoBatch
<1>3. \A b \in Mail!Batches : messages[b] = <<>> /\ \A r \in Recipients : asked[b][r] = 0
  BY DEF Mail!Init
<1>4. HistoryIsTrue
  BY <1>3 DEF HistoryIsTrue, Mail!HistoryIsTrue
<1> QED BY <1>1, <1>2, <1>3, <1>4 DEF MailInv

LEMMA MailStep == MailInv /\ [Mail!Next]_mailing => MailInv'
<1> SUFFICES ASSUME MailInv, [Mail!Next]_mailing PROVE MailInv'
  OBVIOUS
<1>t. /\ sending \in [Handlers -> [pc : {"idle", "send", "save"}, batch : 0..MaxBatches,
                                   left : SUBSET Recipients, results : Mail!Results]]
      /\ batches \in 0..MaxBatches
      /\ messages \in [Mail!Batches -> Mail!Results]
      /\ audience \in [Mail!Batches -> SUBSET Recipients]
      /\ asked \in [Mail!Batches -> [Recipients -> Nat]]
      /\ accepted \in [Mail!Batches -> SUBSET Recipients]
      /\ MaxBatches \in Nat
  BY ServerAssumption DEF MailInv, Mail!TypeOK
<1>n. Mail!NoBatch \in [pc : {"idle", "send", "save"}, batch : 0..MaxBatches,
                        left : SUBSET Recipients, results : Mail!Results]
  BY <1>t, NoResults DEF Mail!NoBatch
<1>1. ASSUME NEW h \in Handlers, Mail!Begin(h) PROVE MailInv'
  <2> DEFINE b == batches + 1
  <2>1. PICK rs \in SUBSET Recipients \ {{}} :
          /\ sending' = [sending EXCEPT ![h] = [pc |-> "send", batch |-> b,
                                                left |-> rs, results |-> <<>>]]
          /\ audience' = [audience EXCEPT ![b] = rs]
    BY <1>1 DEF Mail!Begin
  <2>2. b \in Mail!Batches /\ batches' = b /\ UNCHANGED <<messages, asked, accepted>>
    BY <1>1, <1>t DEF Mail!Begin, Mail!Batches
  <2>3. Mail!TypeOK'
    BY <1>t, <2>1, <2>2, NoResults DEF Mail!TypeOK, Mail!Batches
  <2>4. /\ sending'[h] = [pc |-> "send", batch |-> b, left |-> rs, results |-> <<>>]
        /\ \A g \in Handlers \ {h} : sending'[g] = sending[g]
        /\ audience'[b] = rs
        /\ \A c \in Mail!Batches \ {b} : audience'[c] = audience[c]
    BY <1>t, <2>1, <2>2
  <2>5. messages[b] = <<>> /\ \A r \in Recipients : asked[b][r] = 0
    BY <2>2, <1>t DEF MailInv
  <2>6. Sending(h)'
    BY <1>t, <2>2, <2>4, <2>5, NoResults DEF Sending
  <2>7. ASSUME NEW g \in Handlers \ {h}, sending[g].pc # "idle" PROVE Sending(g)'
    <3>1. Sending(g) /\ sending[g].batch \in Mail!Batches \ {b}
      BY <2>7, <1>t DEF MailInv, Sending, Mail!Batches
    <3> QED BY <3>1, <1>t, <2>2, <2>4 DEF Sending
  <2>8. \A f, g \in Handlers :
          sending'[f].pc # "idle" /\ sending'[g].pc # "idle"
            /\ sending'[f].batch = sending'[g].batch => f = g
    BY <1>t, <2>4 DEF MailInv, Sending
  <2>9. HistoryIsTrue'
    BY <2>2, <2>4, <2>5 DEF MailInv, HistoryIsTrue, Mail!HistoryIsTrue
  <2>10. \A c \in Mail!Batches :
           c > batches' => messages'[c] = <<>> /\ \A r \in Recipients : asked'[c][r] = 0
    <3>1. \A c \in Mail!Batches : c > batches' => c > batches
      BY <2>2, <1>t DEF Mail!Batches
    <3> QED BY <3>1, <2>2 DEF MailInv
  <2>11. \A g \in Handlers : sending'[g].pc # "idle" => Sending(g)'
    BY <2>4, <2>6, <2>7
  <2> QED BY <2>3, <2>8, <2>9, <2>10, <2>11 DEF MailInv
<1>2. ASSUME NEW h \in Handlers, Mail!SendReminder(h) PROVE MailInv'
  <2> DEFINE b == sending[h].batch
             results == sending[h].results
  <2>1. PICK r \in sending[h].left, status \in Mail!Status :
          /\ Mail!Turn(h, r, status)
          /\ Mail!Taken(h, r) \/ UNCHANGED accepted
          /\ status = "sent" => Mail!Taken(h, r)
    BY <1>2 DEF Mail!SendReminder, Mail!Status
  <2>2. sending[h].pc = "send" /\ UNCHANGED <<batches, messages, audience>>
    BY <1>2 DEF Mail!SendReminder
  <2>3. /\ Sending(h) /\ b \in Mail!Batches /\ b \in 1..batches
        /\ r \in Recipients /\ r \in audience[b] /\ r \notin DOMAIN results
        /\ results \in Mail!Results /\ DOMAIN results \subseteq Recipients
    BY <1>t, <2>1, <2>2 DEF MailInv, Sending, Mail!Batches
  <2> DEFINE after == [x \in DOMAIN results \cup {r} |-> IF x = r THEN status ELSE results[x]]
             pc == IF sending[h].left = {r} THEN "save" ELSE "send"
  <2>4. after \in Mail!Results
    <3>1. \A x \in DOMAIN results : results[x] \in Mail!Status
      BY <2>3 DEF Mail!Results
    <3>2. after \in [DOMAIN results \cup {r} -> Mail!Status]
      BY <3>1
    <3>3. DOMAIN results \cup {r} \in SUBSET Recipients
      BY <2>3
    <3> QED BY <3>2, <3>3 DEF Mail!Results
  <2>5. /\ sending' = [sending EXCEPT ![h].left = sending[h].left \ {r}, ![h].pc = pc,
                                      ![h].results = after]
        /\ asked' = [asked EXCEPT ![b][r] = asked[b][r] + 1]
    BY <2>1 DEF Mail!Turn
  <2> HIDE DEF after, pc
  <2>6. /\ sending'[h].pc = pc /\ sending'[h].batch = b
        /\ sending'[h].left = sending[h].left \ {r} /\ sending'[h].results = after
        /\ \A g \in Handlers \ {h} : sending'[g] = sending[g]
    BY <1>t, <2>5
  <2>7. /\ asked'[b][r] = asked[b][r] + 1
        /\ \A x \in Recipients \ {r} : asked'[b][x] = asked[b][x]
        /\ \A c \in Mail!Batches \ {b} : asked'[c] = asked[c]
    BY <1>t, <2>3, <2>5
  <2>8. accepted' \in [Mail!Batches -> SUBSET Recipients]
        /\ \A c \in Mail!Batches : accepted[c] \subseteq accepted'[c]
    <3>1. CASE Mail!Taken(h, r)
      BY <1>t, <2>3, <3>1 DEF Mail!Taken
    <3>2. CASE UNCHANGED accepted
      BY <1>t, <3>2
    <3> QED BY <2>1, <3>1, <3>2
  <2>9. status = "sent" => r \in accepted'[b]
    BY <1>t, <2>1, <2>3 DEF Mail!Taken
  <2>10. Mail!TypeOK'
    <3>1. asked' \in [Mail!Batches -> [Recipients -> Nat]]
      BY <1>t, <2>3, <2>5
    <3>2. sending' \in [Handlers -> [pc : {"idle", "send", "save"}, batch : 0..MaxBatches,
                                     left : SUBSET Recipients, results : Mail!Results]]
      <4> DEFINE Rec == [pc : {"idle", "send", "save"}, batch : 0..MaxBatches,
                         left : SUBSET Recipients, results : Mail!Results]
                 turned(x) == [x EXCEPT !.left = sending[h].left \ {r}, !.pc = pc,
                                        !.results = after]
      <4>1. pc \in {"idle", "send", "save"} /\ sending[h].left \ {r} \in SUBSET Recipients
        BY <1>t DEF pc
      <4>2. \A x \in Rec : turned(x) \in Rec
        BY <2>4, <4>1
      <4>3. sending'[h] = turned(sending[h])
        BY <1>t, <2>5
      <4>4. sending[h] \in Rec
        BY <1>t
      <4> HIDE DEF Rec, turned
      <4>5. sending'[h] \in Rec
        BY <4>2, <4>3, <4>4
      <4> USE DEF Rec
      <4> QED BY <1>t, <2>5, <2>6, <4>5
    <3> QED BY <1>t, <2>2, <2>8, <3>1, <3>2 DEF Mail!TypeOK
  <2>11. Sending(h)'
    <3>1. /\ DOMAIN after = DOMAIN results \cup {r}
          /\ after[r] = status
          /\ \A x \in DOMAIN results : x # r => after[x] = results[x]
      BY DEF after
    <3>2. DOMAIN after = audience[b] \ (sending[h].left \ {r})
      BY <2>3, <3>1, <2>1 DEF Sending
    <3>3. \A x \in Recipients : asked'[b][x] = IF x \in DOMAIN after THEN 1 ELSE 0
      BY <1>t, <2>3, <2>7, <3>1 DEF Sending
    <3>4. \A x \in DOMAIN after : after[x] = "sent" => x \in accepted'[b]
      BY <2>3, <2>8, <2>9, <3>1 DEF Sending
    <3>5. pc = "save" => sending[h].left \ {r} = {}
      BY DEF pc
    <3> QED BY <2>2, <2>3, <2>6, <3>2, <3>3, <3>4, <3>5 DEF Sending
  <2>12. ASSUME NEW g \in Handlers \ {h}, sending[g].pc # "idle" PROVE Sending(g)'
    <3>1. Sending(g) /\ sending[g].batch \in Mail!Batches \ {b}
      BY <2>12, <2>2, <1>t DEF MailInv, Sending, Mail!Batches
    <3> QED BY <3>1, <1>t, <2>2, <2>6, <2>7, <2>8 DEF Sending
  <2>13. \A f, g \in Handlers :
           sending'[f].pc # "idle" /\ sending'[g].pc # "idle"
             /\ sending'[f].batch = sending'[g].batch => f = g
    BY <2>2, <2>6 DEF MailInv
  <2>14. HistoryIsTrue'
    <3>1. \A x \in Recipients : asked'[b][x] <= 1
      BY <2>11, <2>6, <2>3 DEF Sending
    <3>2. messages'[b] = <<>>
      BY <2>2, <2>3 DEF Sending
    <3>3. \A c \in Mail!Batches \ {b} : asked'[c] = asked[c] /\ messages'[c] = messages[c]
      BY <2>2, <2>7
    <3>4. ASSUME NEW c \in Mail!Batches \ {b}
          PROVE  /\ \A x \in Recipients : asked'[c][x] <= 1
                 /\ messages'[c] # <<>> =>
                      /\ DOMAIN messages'[c] = audience'[c]
                      /\ \A x \in audience'[c] :
                           asked'[c][x] = 1
                             /\ (messages'[c][x] = "sent" => x \in accepted'[c])
      BY <2>2, <2>8, <3>3 DEF MailInv, HistoryIsTrue, Mail!HistoryIsTrue
    <3> QED BY <3>1, <3>2, <3>4 DEF HistoryIsTrue, Mail!HistoryIsTrue
  <2>15. \A c \in Mail!Batches :
           c > batches' => messages'[c] = <<>> /\ \A x \in Recipients : asked'[c][x] = 0
    <3>1. \A c \in Mail!Batches : c > batches => c # b
      BY <1>t, <2>3 DEF Mail!Batches
    <3> QED BY <3>1, <2>2, <2>7 DEF MailInv
  <2> QED BY <2>2, <2>6, <2>10, <2>11, <2>12, <2>13, <2>14, <2>15 DEF MailInv
<1>3. ASSUME NEW h \in Handlers, Mail!CreateBatch(h) PROVE MailInv'
  <2> DEFINE b == sending[h].batch
             results == sending[h].results
  <2>1. /\ sending[h].pc = "save"
        /\ messages' = [messages EXCEPT ![b] = results]
        /\ sending' = [sending EXCEPT ![h] = Mail!NoBatch]
        /\ UNCHANGED <<batches, audience, asked, accepted>>
    BY <1>3 DEF Mail!CreateBatch, Mail!End
  <2>2. Sending(h) /\ b \in Mail!Batches /\ b \in 1..batches /\ results \in Mail!Results
    BY <1>t, <2>1 DEF MailInv, Sending, Mail!Batches
  <2>3. /\ sending'[h].pc = "idle"
        /\ \A g \in Handlers \ {h} : sending'[g] = sending[g]
        /\ messages'[b] = results
        /\ \A c \in Mail!Batches \ {b} : messages'[c] = messages[c]
    BY <1>t, <2>1, <2>2 DEF Mail!NoBatch
  <2>4. Mail!TypeOK'
    BY <1>t, <1>n, <2>1, <2>2 DEF Mail!TypeOK
  <2>5. ASSUME NEW g \in Handlers \ {h}, sending[g].pc # "idle" PROVE Sending(g)'
    <3>1. Sending(g) /\ sending[g].batch \in Mail!Batches \ {b}
      BY <2>5, <2>1, <1>t DEF MailInv, Sending, Mail!Batches
    <3> QED BY <3>1, <2>1, <2>3 DEF Sending
  <2>6. HistoryIsTrue'
    <3>1. /\ DOMAIN results = audience[b] /\ audience[b] \subseteq Recipients
          /\ \A r \in audience[b] : asked[b][r] = 1 /\ (results[r] = "sent" => r \in accepted[b])
      BY <1>t, <2>1, <2>2 DEF Sending
    <3> QED BY <1>t, <2>1, <2>3, <3>1 DEF MailInv, HistoryIsTrue, Mail!HistoryIsTrue
  <2> QED BY <1>t, <2>1, <2>2, <2>3, <2>4, <2>5, <2>6 DEF MailInv
<1>4. ASSUME NEW h \in Handlers, Mail!CreateBatchFails(h) PROVE MailInv'
  <2>1. /\ sending' = [sending EXCEPT ![h] = Mail!NoBatch]
        /\ UNCHANGED <<batches, messages, audience, asked, accepted>>
    BY <1>4 DEF Mail!CreateBatchFails, Mail!End
  <2>2. sending'[h].pc = "idle" /\ \A g \in Handlers \ {h} : sending'[g] = sending[g]
    BY <1>t, <2>1 DEF Mail!NoBatch
  <2>3. Mail!TypeOK'
    BY <1>t, <1>n, <2>1 DEF Mail!TypeOK
  <2>4. ASSUME NEW g \in Handlers \ {h}, sending[g].pc # "idle" PROVE Sending(g)'
    BY <2>1, <2>2, <2>4 DEF MailInv, Sending
  <2>5. HistoryIsTrue'
    BY <2>1 DEF MailInv, HistoryIsTrue, Mail!HistoryIsTrue
  <2> QED BY <2>1, <2>2, <2>3, <2>4, <2>5 DEF MailInv
<1>5. CASE Mail!Restart
  <2>1. /\ sending' = [h \in Handlers |-> Mail!NoBatch]
        /\ UNCHANGED <<batches, messages, audience, asked, accepted>>
    BY <1>5 DEF Mail!Restart
  <2>2. \A h \in Handlers : sending'[h].pc = "idle"
    BY <2>1 DEF Mail!NoBatch
  <2>3. Mail!TypeOK'
    BY <1>t, <1>n, <2>1 DEF Mail!TypeOK
  <2>4. HistoryIsTrue'
    BY <2>1 DEF MailInv, HistoryIsTrue, Mail!HistoryIsTrue
  <2> QED BY <2>1, <2>2, <2>3, <2>4 DEF MailInv
<1>6. CASE UNCHANGED mailing
  BY <1>6 DEF mailing, MailInv, Sending, Mail!TypeOK, HistoryIsTrue, Mail!HistoryIsTrue
<1> QED BY <1>1, <1>2, <1>3, <1>4, <1>5, <1>6 DEF Mail!Next, Mail!Send

-----------------------------------------------------------------------------
(* The start                                                               *)

(* What is executed and recorded is one of the migrations.                 *)
AtHand ==
  \A p \in Procs :
    proc[p].pc \in {"execute", "record"} => proc[p].at \in Boot!Migrations

(* A start on its way to the drops did not see the table subscriptions, or *)
(* has company, and both that start at once know.                          *)
BootInv ==
  /\ Boot!TypeOK
  /\ AtHand
  /\ \A p \in Procs :
       proc[p].pc \in {"list", "drop", "types"} /\ ~proc[p].blind /\ ~proc[p].shared
         => SubsVersion \notin tables
  /\ \A p, q \in Procs : p # q /\ Boot!Starting(p) /\ Boot!Starting(q)
                          => proc[p].shared

LEMMA BootInit == Boot!Init => BootInv
  BY ServerAssumption
     DEF AtHand, Boot!Init, Boot!Unused, Boot!ByHand, Boot!Release, Boot!Down, BootInv,
         Boot!TypeOK, Boot!Starting, Boot!StartupAssumption, Boot!Migrations,
         Boot!Ledger, Boot!Foreign

LEMMA BootTypesStep == Boot!TypeOK /\ AtHand /\ [Boot!Next]_starting => Boot!TypeOK'
<1> SUFFICES ASSUME Boot!TypeOK, AtHand, [Boot!Next]_starting PROVE Boot!TypeOK'
  OBVIOUS
<1>a. /\ Newest \in Nat /\ SubsVersion \in 1..Newest /\ Typed \subseteq 1..Newest
      /\ MaxFaults \in Nat
  BY ServerAssumption DEF Boot!StartupAssumption, Boot!Migrations
<1> USE DEF Boot!TypeOK, Boot!Ledger, Boot!Foreign, Boot!Migrations, Boot!At,
        Boot!Fault, Boot!NoFault, Boot!db
<1> DEFINE Process == [pc : {"down", "look", "list", "drop", "types", "create",
                             "check", "execute", "record", "serving"},
                       todo : SUBSET (0..(Newest + 1)), at : 1..(Newest + 1),
                       blind : BOOLEAN, shared : BOOLEAN]
<1>d. Boot!Down \in Process
  BY <1>a DEF Boot!Down
<1>x. \A p \in Procs : Boot!Exit(p) => proc' \in [Procs -> Process]
  BY <1>d DEF Boot!Exit
<1>y. /\ \A p \in Procs : Boot!Goto(p, "check") => proc' \in [Procs -> Process]
      /\ \A p \in Procs : Boot!Goto(p, "record") => proc' \in [Procs -> Process]
      /\ \A p \in Procs : Boot!Goto(p, "execute") => proc' \in [Procs -> Process]
      /\ \A p \in Procs : Boot!Goto(p, "serving") => proc' \in [Procs -> Process]
  BY DEF Boot!Goto
<1>1. ASSUME NEW p \in Procs, Boot!Start(p) PROVE Boot!TypeOK'
  <2> DEFINE others == {q \in Procs \ {p} : Boot!Starting(q)}
             started == [Boot!Down EXCEPT !.pc = "look", !.shared = others # {}]
             met(q) == [proc[q] EXCEPT !.shared = @ \/ q \in others]
  <2>1. started \in Process
    BY <1>d
  <2>2. \A q \in Procs : met(q) \in Process
    <3> HIDE DEF others
    <3> QED OBVIOUS
  <2>3. proc' = [q \in Procs |-> IF q = p THEN started ELSE met(q)]
    BY <1>1 DEF Boot!Start
  <2> HIDE DEF started, met, Process
  <2>4. proc' \in [Procs -> Process]
    BY <2>1, <2>2, <2>3
  <2> QED BY <1>1, <2>4 DEF Boot!Start, Process
<1>2. ASSUME NEW p \in Procs, Boot!LookForSubscriptions(p) PROVE Boot!TypeOK'
  BY <1>2, <1>a DEF Boot!LookForSubscriptions, Boot!Goto
<1>3. ASSUME NEW p \in Procs, Boot!ListTables(p) PROVE Boot!TypeOK'
  BY <1>3, <1>a DEF Boot!ListTables
<1>4. ASSUME NEW p \in Procs, Boot!DropTable(p) PROVE Boot!TypeOK'
  BY <1>4, <1>a DEF Boot!DropTable, Boot!Goto
<1>5. ASSUME NEW p \in Procs, Boot!DropTypes(p) PROVE Boot!TypeOK'
  BY <1>5, <1>a DEF Boot!DropTypes, Boot!Goto
<1>6. ASSUME NEW p \in Procs, Boot!CreateLedger(p) PROVE Boot!TypeOK'
  <2>1. proc' \in [Procs -> Process]
    <3>1. Boot!Goto(p, "check") \/ Boot!Exit(p)
      BY <1>6 DEF Boot!CreateLedger
    <3> HIDE DEF Process
    <3> QED BY <1>x, <1>y, <3>1
  <2>2. tables' \subseteq 0..(Newest + 1) /\ types' = types /\ recorded' = recorded
    <3>1. tables' \in {tables, tables \cup {0}} /\ UNCHANGED <<types, recorded>>
      BY <1>6 DEF Boot!CreateLedger
    <3> QED BY <3>1, <1>a
  <2>3. faults' \in 0..MaxFaults
    BY <1>6, <1>a DEF Boot!CreateLedger
  <2> QED BY <2>1, <2>2, <2>3
<1>7. ASSUME NEW p \in Procs, Boot!CheckMigration(p) PROVE Boot!TypeOK'
  <2>1. CASE Boot!Exit(p) \/ Boot!Goto(p, "serving") \/ Boot!Goto(p, "execute")
    <3>1. proc' \in [Procs -> Process]
      BY <2>1, <1>x, <1>y
    <3> HIDE DEF Process
    <3> QED BY <1>7, <1>a, <3>1 DEF Boot!CheckMigration, Process
  <2>2. CASE /\ proc[p].at \in recorded
             /\ proc' = [proc EXCEPT ![p].at = proc[p].at + 1]
    <3>1. proc[p].at + 1 \in 1..(Newest + 1)
      BY <2>2, <1>a
    <3>2. proc' \in [Procs -> Process]
      BY <2>2, <3>1
    <3>3. UNCHANGED <<tables, types, recorded>> /\ faults' \in 0..MaxFaults
      BY <1>7, <1>a DEF Boot!CheckMigration
    <3> QED BY <3>2, <3>3
  <2> QED BY <1>7, <2>1, <2>2 DEF Boot!CheckMigration
<1>8. ASSUME NEW p \in Procs, Boot!ExecuteMigration(p) PROVE Boot!TypeOK'
  <2>1. proc' \in [Procs -> Process]
    <3>1. Boot!Goto(p, "record") \/ Boot!Exit(p)
      BY <1>8 DEF Boot!ExecuteMigration
    <3> HIDE DEF Process
    <3> QED BY <1>x, <1>y, <3>1
  <2>2. proc[p].at \in 1..(Newest + 1)
    OBVIOUS
  <2>3. tables' \subseteq 0..(Newest + 1) /\ types' \subseteq Typed /\ recorded' = recorded
    <3>1. /\ tables' \in {tables, tables \cup {proc[p].at}}
          /\ types' \in {types, types \cup (Typed \cap {proc[p].at})}
          /\ recorded' = recorded
      BY <1>8 DEF Boot!ExecuteMigration
    <3> QED BY <3>1, <1>a, <2>2
  <2>4. faults' \in 0..MaxFaults
    BY <1>8, <1>a DEF Boot!ExecuteMigration
  <2> QED BY <2>1, <2>3, <2>4
<1>9. ASSUME NEW p \in Procs, Boot!RecordMigration(p) PROVE Boot!TypeOK'
  <2>1. CASE Boot!Exit(p)
    <3>1. proc' \in [Procs -> Process]
      BY <2>1, <1>x
    <3> HIDE DEF Process
    <3> QED BY <1>9, <1>a, <2>1, <3>1 DEF Boot!RecordMigration, Process
  <2>2. CASE /\ recorded' = recorded \cup {proc[p].at}
             /\ proc' = [proc EXCEPT ![p].pc = "check", ![p].at = proc[p].at + 1]
    <3>1. proc[p].at \in 1..Newest /\ proc[p].at + 1 \in 1..(Newest + 1)
      BY <1>9, <1>a DEF AtHand, Boot!RecordMigration
    <3> QED BY <1>9, <2>2, <3>1 DEF Boot!RecordMigration
  <2> QED BY <1>9, <2>1, <2>2 DEF Boot!RecordMigration
<1>10. ASSUME NEW p \in Procs, Boot!Killed(p) PROVE Boot!TypeOK'
  BY <1>10, <1>a, <1>x DEF Boot!Killed
<1>11. CASE UNCHANGED starting
  BY <1>11 DEF starting
<1> QED BY <1>1, <1>2, <1>3, <1>4, <1>5, <1>6, <1>7, <1>8, <1>9, <1>10, <1>11
        DEF Boot!Next, Boot!Run, Boot!RunMigrations

LEMMA AtHandStep ==
  Boot!TypeOK /\ AtHand /\ [Boot!Next]_starting => AtHand'
<1> SUFFICES ASSUME Boot!TypeOK, AtHand, [Boot!Next]_starting PROVE AtHand'
  OBVIOUS
<1> USE DEF AtHand, Boot!TypeOK, Boot!Goto, Boot!Exit, Boot!Down, Boot!At
<1>1. ASSUME NEW p \in Procs, Boot!Start(p) PROVE AtHand'
  BY <1>1 DEF Boot!Start
<1>2. ASSUME NEW p \in Procs, Boot!LookForSubscriptions(p) PROVE AtHand'
  BY <1>2 DEF Boot!LookForSubscriptions
<1>3. ASSUME NEW p \in Procs, Boot!ListTables(p) PROVE AtHand'
  BY <1>3 DEF Boot!ListTables
<1>4. ASSUME NEW p \in Procs, Boot!DropTable(p) PROVE AtHand'
  BY <1>4 DEF Boot!DropTable
<1>5. ASSUME NEW p \in Procs, Boot!DropTypes(p) PROVE AtHand'
  BY <1>5 DEF Boot!DropTypes
<1>6. ASSUME NEW p \in Procs, Boot!CreateLedger(p) PROVE AtHand'
  BY <1>6 DEF Boot!CreateLedger
<1>7. ASSUME NEW p \in Procs, Boot!CheckMigration(p) PROVE AtHand'
  BY <1>7 DEF Boot!CheckMigration
<1>8. ASSUME NEW p \in Procs, Boot!ExecuteMigration(p) PROVE AtHand'
  BY <1>8 DEF Boot!ExecuteMigration
<1>9. ASSUME NEW p \in Procs, Boot!RecordMigration(p) PROVE AtHand'
  BY <1>9 DEF Boot!RecordMigration
<1>10. ASSUME NEW p \in Procs, Boot!Killed(p) PROVE AtHand'
  BY <1>10 DEF Boot!Killed
<1>11. CASE UNCHANGED starting
  BY <1>11 DEF starting
<1> QED BY <1>1, <1>2, <1>3, <1>4, <1>5, <1>6, <1>7, <1>8, <1>9, <1>10, <1>11
        DEF Boot!Next, Boot!Run, Boot!RunMigrations

LEMMA BootStep == BootInv /\ [Boot!Next]_starting => BootInv'
<1> SUFFICES ASSUME BootInv, [Boot!Next]_starting PROVE BootInv'
  OBVIOUS
<1>t. Boot!TypeOK /\ Boot!TypeOK' /\ AtHand'
  BY BootTypesStep, AtHandStep DEF BootInv
<1>p. /\ DOMAIN proc = Procs
      /\ \A p \in Procs : DOMAIN proc[p] = {"pc", "todo", "at", "blind", "shared"}
  BY <1>t DEF Boot!TypeOK
<1> USE DEF Boot!Goto, Boot!Exit, Boot!At, Boot!Down, Boot!db, Boot!Starting, BootInv
(* A step of a start that neither looks nor executes                       *)
<1>g. ASSUME NEW p \in Procs, Boot!Starting(p),
             \A q \in Procs \ {p} : proc'[q] = proc[q],
             \/ proc'[p].pc \in {"down", "serving"}
             \/ /\ proc'[p].shared = proc[p].shared
                /\ \/ proc'[p].pc \notin {"list", "drop", "types"}
                   \/ /\ proc[p].pc \in {"list", "drop", "types"}
                      /\ proc'[p].blind = proc[p].blind,
             SubsVersion \in tables' => SubsVersion \in tables
      PROVE  BootInv'
  BY <1>t, <1>g
<1>1. ASSUME NEW p \in Procs, Boot!Start(p) PROVE BootInv'
  <2>1. /\ proc'[p].pc = "look"
        /\ proc'[p].shared = ({q \in Procs \ {p} : Boot!Starting(q)} # {})
        /\ tables' = tables
    BY <1>1, <1>p DEF Boot!Start
  <2>2. \A q \in Procs \ {p} :
          /\ proc'[q].pc = proc[q].pc /\ proc'[q].blind = proc[q].blind
          /\ proc'[q].shared = (proc[q].shared \/ Boot!Starting(q))
    BY <1>1, <1>p DEF Boot!Start
  <2> QED BY <1>t, <2>1, <2>2
<1>2. ASSUME NEW p \in Procs, Boot!LookForSubscriptions(p) PROVE BootInv'
  <2>1. /\ proc[p].pc = "look" /\ proc'[p].shared = proc[p].shared
        /\ \/ proc'[p].pc = "create"
           \/ proc'[p].pc = "list" /\ (proc'[p].blind \/ SubsVersion \notin tables)
        /\ tables' = tables
        /\ \A q \in Procs \ {p} : proc'[q] = proc[q]
    BY <1>2, <1>p DEF Boot!LookForSubscriptions
  <2> QED BY <1>t, <2>1
<1>3. ASSUME NEW p \in Procs, Boot!ListTables(p) PROVE BootInv'
  BY <1>3, <1>p, <1>g DEF Boot!ListTables
<1>4. ASSUME NEW p \in Procs, Boot!DropTable(p) PROVE BootInv'
  BY <1>4, <1>p, <1>g DEF Boot!DropTable
<1>5. ASSUME NEW p \in Procs, Boot!DropTypes(p) PROVE BootInv'
  BY <1>5, <1>p, <1>g DEF Boot!DropTypes
<1>6. ASSUME NEW p \in Procs, Boot!CreateLedger(p) PROVE BootInv'
  <2>1. SubsVersion # Boot!Ledger
    BY ServerAssumption DEF Boot!StartupAssumption, Boot!Migrations, Boot!Ledger
  <2> QED BY <1>6, <1>p, <1>g, <2>1 DEF Boot!CreateLedger
<1>7. ASSUME NEW p \in Procs, Boot!CheckMigration(p) PROVE BootInv'
  BY <1>7, <1>p, <1>g DEF Boot!CheckMigration
<1>8. ASSUME NEW p \in Procs, Boot!ExecuteMigration(p) PROVE BootInv'
  <2>1. /\ proc[p].pc = "execute"
        /\ \/ proc'[p].pc = "down"
           \/ proc'[p].pc = "record" /\ proc'[p].shared = proc[p].shared
        /\ \A q \in Procs \ {p} : proc'[q] = proc[q]
    BY <1>8, <1>p DEF Boot!ExecuteMigration
  <2>2. \A q \in Procs \ {p} : proc[q].pc \in {"list", "drop", "types"} => proc[q].shared
    BY <2>1
  <2> QED BY <1>t, <2>1, <2>2
<1>9. ASSUME NEW p \in Procs, Boot!RecordMigration(p) PROVE BootInv'
  BY <1>9, <1>p, <1>g DEF Boot!RecordMigration
<1>10. ASSUME NEW p \in Procs, Boot!Killed(p) PROVE BootInv'
  <2>1. /\ proc'[p].pc = "down" /\ tables' = tables
        /\ \A q \in Procs \ {p} : proc'[q] = proc[q]
    BY <1>10, <1>p DEF Boot!Killed
  <2> QED BY <1>t, <2>1
<1>11. CASE UNCHANGED starting
  BY <1>t, <1>11 DEF starting
<1> QED BY <1>1, <1>2, <1>3, <1>4, <1>5, <1>6, <1>7, <1>8, <1>9, <1>10, <1>11
        DEF Boot!Next, Boot!Run, Boot!RunMigrations

(* Only the drops take anything away, and they have their reason.          *)
LEMMA BootDrops ==
  ASSUME BootInv, Boot!Next,
         NEW m \in Boot!Migrations,
         SubsVersion \in tables, Boot!Whole(m), ~Boot!Whole(m)'
  PROVE  \E p \in Procs : /\ proc[p].pc \in {"drop", "types"}
                          /\ proc[p].blind \/ proc[p].shared
<1>1. ~(tables \subseteq tables' /\ types \subseteq types')
  BY DEF Boot!Whole
<1>2. PICK p \in Procs : Boot!DropTable(p) \/ Boot!DropTypes(p)
  BY <1>1 DEF Boot!Next, Boot!Run, Boot!RunMigrations, Boot!Start,
        Boot!LookForSubscriptions, Boot!ListTables, Boot!CreateLedger,
        Boot!CheckMigration, Boot!ExecuteMigration, Boot!RecordMigration,
        Boot!Killed, Boot!db
<1>3. proc[p].pc \in {"drop", "types"}
  BY <1>2 DEF Boot!DropTable, Boot!DropTypes, Boot!At
<1>4. proc[p].blind \in BOOLEAN /\ proc[p].shared \in BOOLEAN
  BY DEF BootInv, Boot!TypeOK
<1> QED BY <1>3, <1>4 DEF BootInv

-----------------------------------------------------------------------------
(* Commands to the router: the proofs about Executor are proofs about the  *)
(* part, name by name.                                                     *)

Ways == INSTANCE ExecutorProofs

LEMMA CommandsInit == Commands!Init => Ways!ExecutorInv
<1>1. Commands!Init => Ways!Init
  BY
     DEF Commands!Init, Ways!Init, Commands!Idle, Ways!Idle,
         Commands!Cmds, Ways!Cmds, Commands!Router!Init,
         Ways!Router!Init
<1> QED
  BY <1>1, Ways!ExecutorInit, ServerAssumption
     DEF Commands!ExecutorAssumption, Ways!ExecutorAssumption

LEMMA SameSteps == Commands!Next => Ways!Next
  BY
     DEF Commands!Next, Ways!Next, Commands!GetMTExecutor,
         Ways!GetMTExecutor, Commands!Execute, Ways!Execute,
         Commands!Connect, Ways!Connect, Commands!ExecuteReturns,
         Ways!ExecuteReturns, Commands!RunReturns, Ways!RunReturns,
         Commands!Finish, Ways!Finish, Commands!RunFromAgent,
         Ways!RunFromAgent, Commands!RunFromClient, Ways!RunFromClient,
         Commands!AgentComesOrGoes, Ways!AgentComesOrGoes,
         Commands!Configure, Ways!Configure, Commands!Take, Ways!Take,
         Commands!Fail, Ways!Fail, Commands!Issue, Ways!Issue,
         Commands!AwaitReply, Ways!AwaitReply, Commands!Returned,
         Ways!Returned, Commands!Idle, Ways!Idle, Commands!hub,
         Ways!hub, Commands!history, Ways!history, Commands!Cmds,
         Ways!Cmds, Commands!Contains, Ways!Contains,
         Commands!Router!Send, Ways!Router!Send, Commands!Router!Return,
         Ways!Router!Return, Commands!Router!Run, Ways!Router!Run

LEMMA CommandsStep ==
  Ways!ExecutorInv /\ [Commands!Next]_commanding => Ways!ExecutorInv'
<1>1. [Commands!Next]_commanding => [Ways!Next]_(Ways!vars)
  BY SameSteps DEF commanding, Ways!vars, Ways!hub, Ways!history
<1> QED
  BY <1>1, Ways!ExecutorStep

LEMMA CommandsTyped == Ways!ExecutorInv => Commands!TypeOK
<1>1. Ways!TypeOK => Commands!TypeOK
  BY
     DEF Commands!TypeOK, Ways!TypeOK, Commands!Idle, Ways!Idle,
         Commands!Cmds, Ways!Cmds, Commands!Router!Answers,
         Ways!Router!Answers
<1> QED
  BY <1>1 DEF Ways!ExecutorInv

LEMMA PromisesKept == Ways!ExecutorInv => CommandsAreKept
<1>1. Ways!CommandsAreKept => Commands!CommandsAreKept
  BY
     DEF Commands!CommandsAreKept, Ways!CommandsAreKept,
         Commands!LateOnlyIfFailed, Ways!LateOnlyIfFailed,
         Commands!OnceAndTold, Ways!OnceAndTold, Commands!Overtaken,
         Ways!Overtaken, Commands!Cmds, Ways!Cmds, Commands!Contains,
         Ways!Contains
<1> QED
  BY <1>1, Ways!InvKeeps DEF CommandsAreKept

-----------------------------------------------------------------------------
(* The server                                                              *)

ServerInv ==
  BootInv /\ CodesInv /\ SessionInv /\ ClientInv /\ Ways!ExecutorInv /\ MailInv

(* What is a step of the server is one of every part, or leaves it alone.  *)
LEMMA StepOfParts ==
  [Next]_vars => /\ [Boot!Next]_starting
                 /\ [Auth!Next]_signingIn
                 /\ [Settings!Next]_configuring
                 /\ [Commands!Next]_commanding
                 /\ [Mail!Next]_mailing
  BY DEF Next, vars, MigrateAndServe, ServeSignIns, ServeSettings,
        SendCommands, ServeMessages

LEMMA ServerStep == ServerInv /\ [Next]_vars => ServerInv'
  BY StepOfParts, BootStep, CodesStep, SessionsStep, SettingsStep, CommandsStep, MailStep
     DEF ServerInv

LEMMA AlwaysServer == Spec => []ServerInv
<1>1. Init => ServerInv
  BY BootInit, CodesInit, SessionsInit, SettingsInit, CommandsInit, MailInit
     DEF Init, ServerInv
<1> QED
  BY <1>1, ServerStep, PTL DEF Spec

(***************************************************************************)
(* The state of the start, the codes, the settings and the messages has    *)
(* its type: no counter, index or set leaves its range.                    *)
(***************************************************************************)
THEOREM TypeCorrect == Spec => []TypeOK
<1>1. ServerInv => TypeOK
  BY CommandsTyped DEF ServerInv, BootInv, CodesInv, ClientInv, MailInv, TypeOK
<1> QED
  BY <1>1, AlwaysServer, PTL

(***************************************************************************)
(* auth_service.go 75-90: the codes of the last window exceed the limit by *)
(* less than the number of requests that can run at once.                  *)
(***************************************************************************)
THEOREM LimitIsSoft == Spec => []CodesPerHour
<1>1. ServerInv => CodesPerHour
  <2> SUFFICES ASSUME ServerInv PROVE CodesPerHour
    OBVIOUS
  <2>1. CodesInv /\ Cardinality(Auth!Recent) \in Nat /\ Cardinality(Creating) \in Nat
    BY RecentFinite, CreatingFinite DEF ServerInv, CodesInv
  <2>2. Cardinality(Auth!Recent) <= otpRateLimit + Cardinality(Handlers) - 1
    BY <2>1, HandlersFinite, ServerAssumption DEF CodesInv, Auth!SignInAssumption
  <2> QED BY <2>2, CardinalityOfAuth DEF CodesPerHour, Auth!CodesPerHour
<1> QED
  BY <1>1, AlwaysServer, PTL

(***************************************************************************)
(* auth_service.go 100-118, otp_repo.go 34-48: a code signs in once,       *)
(* however many requests come with it at once.                             *)
(***************************************************************************)
THEOREM CodeSignsInOnce == Spec => []OneSessionPerCode
<1>1. ServerInv => OneSessionPerCode
  BY CardinalityOfAuth
     DEF ServerInv, SessionInv, LookingUp, Used, OneSessionPerCode,
         Auth!OneSessionPerCode
<1> QED
  BY <1>1, AlwaysServer, PTL

(***************************************************************************)
(* mikrotik_handler.go 90-135, main.go 74-104: when nobody saves, the      *)
(* client in use is the one of the stored rows; unless requests overlapped,*)
(* UpdateSettings changed these rows, or a row was empty at the start.     *)
(***************************************************************************)
THEOREM SavedIsUsed == Spec => []ClientIsStored
<1>1. ServerInv => ClientIsStored
  BY DEF ServerInv, ClientInv, ClientIsStored, Settings!ClientIsStored
<1> QED
  BY <1>1, AlwaysServer, PTL

(***************************************************************************)
(* subscription_service.go 38-48, agent_hub.go 115-150, client.go: however *)
(* the executors change, commands are run once, and after one that was     *)
(* issued later only if they had failed.                                   *)
(***************************************************************************)
THEOREM CommandsKept == Spec => []CommandsAreKept
<1>1. ServerInv => CommandsAreKept
  BY PromisesKept DEF ServerInv
<1> QED
  BY <1>1, AlwaysServer, PTL

(***************************************************************************)
(* message_handler.go, message_repo.go: the history of messages tells what *)
(* was sent, whatever ran beside it and wherever the server stopped.       *)
(***************************************************************************)
THEOREM HistoryTells == Spec => []HistoryIsTrue
<1>1. ServerInv => HistoryIsTrue
  BY DEF ServerInv, MailInv
<1> QED
  BY <1>1, AlwaysServer, PTL

(***************************************************************************)
(* database.go 45-77: a start that saw the table subscriptions, or came    *)
(* alone to a database without it, drops nothing of a live schema.         *)
(***************************************************************************)
THEOREM DropsHaveACause == Spec => WipeHasACause
<1> DEFINE Wipe ==
      \A m \in Boot!Migrations :
        SubsVersion \in tables /\ Boot!Whole(m) /\ ~Boot!Whole(m)' =>
          \E p \in Procs : /\ proc[p].pc \in {"drop", "types"}
                           /\ proc[p].blind \/ proc[p].shared
<1>1. ServerInv /\ [Next]_vars => [Wipe]_(Boot!vars)
  <2> SUFFICES ASSUME ServerInv, [Next]_vars PROVE [Wipe]_(Boot!vars)
    OBVIOUS
  <2>1. BootInv /\ [Boot!Next]_starting
    BY StepOfParts DEF ServerInv
  <2>2. CASE Boot!Next
    BY <2>1, <2>2, BootDrops
  <2>3. CASE UNCHANGED starting
    BY <2>3 DEF starting, Boot!vars
  <2> QED BY <2>1, <2>2, <2>3
<1> QED
  BY <1>1, AlwaysServer, PTL DEF Spec, WipeHasACause, Boot!WipeHasACause

=============================================================================
