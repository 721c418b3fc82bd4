------------------------------- MODULE SignIn -------------------------------
(***************************************************************************)
(* Signing in with a one-time code: RequestOTP counts the codes of the     *)
(* last hour, stores a new one and sends it; VerifyOTP marks the code as   *)
(* used and then looks the user up.  Each statement is a step of its own,  *)
(* and requests for one phone run at once.                                 *)
(*                                                                         *)
(* Sources: backend/internal/service/auth_service.go and                   *)
(* backend/internal/repository/otp_repo.go.  All statements select by      *)
(* phone, so one phone is modelled.                                        *)
(***************************************************************************)
EXTENDS Naturals, Sequences, FiniteSets

CONSTANTS
  Handlers,      (* goroutines that serve requests                         *)
  OTPs,          (* the codes that may be generated                        *)
  otpRateLimit,
  otpWindow,     (* in ticks, and so is                                    *)
  otpExpiry,
  MaxCodes,      (* codes ever stored (a bound)                            *)
  MaxTime        (* the clock (a bound)                                    *)

SignInAssumption ==
  /\ IsFiniteSet(Handlers) /\ Handlers # {}
  /\ otpRateLimit \in Nat \ {0}
  /\ otpWindow \in Nat /\ otpExpiry \in Nat
  /\ MaxCodes \in Nat /\ MaxTime \in Nat

VARIABLES
  now,       (* the database's clock                                       *)
  codes,     (* the table otp_codes, in the order of the inserts           *)
  call,      (* per goroutine, the point at which its request is           *)
  sessions   (* history: token pairs given out for a code                  *)

vars == <<now, codes, call, sessions>>

Points == {"idle", "create", "send", "lookup"}

OTP == [code : OTPs, at : Nat, expires : Nat, verified : BOOLEAN]

TypeOK ==
  /\ now \in Nat
  /\ codes \in Seq(OTP)
  /\ call \in [Handlers -> Points]
  /\ sessions \in Nat

Init ==
  /\ now = 0
  /\ codes = <<>>
  /\ call = [h \in Handlers |-> "idle"]
  /\ sessions = 0

-----------------------------------------------------------------------------
(* RequestOTP                                                              *)

Goto(h, pc) == call' = [call EXCEPT ![h] = pc]

Return(h) == Goto(h, "idle")

(* The rows with created_at > now - 1 hour                                 *)
Recent == {i \in DOMAIN codes : codes[i].at + otpWindow > now}

(* Deviation: used codes do not count.                                     *)
CountUnused(h) ==
  /\ call[h] = "idle"
  /\ Cardinality({i \in Recent : ~codes[i].verified}) < otpRateLimit
  /\ Goto(h, "create")
  /\ UNCHANGED <<now, codes, sessions>>

(* At the limit, or when the query fails, the request is over.             *)
CountRecent(h) ==
  /\ call[h] = "idle"
  /\ Cardinality(Recent) < otpRateLimit /\ Goto(h, "create")
  /\ UNCHANGED <<now, codes, sessions>>

(* The INSERT, which may fail.                                             *)
CreateOTP(h) ==
  /\ call[h] = "create"
  /\ \/ /\ Len(codes) < MaxCodes
        /\ \E code \in OTPs :
             codes' = Append(codes, [code |-> code, at |-> now, verified |-> FALSE,
                                     expires |-> now + otpExpiry])
        /\ Goto(h, "send")
     \/ UNCHANGED codes /\ Return(h)
  /\ UNCHANGED <<now, sessions>>

(* The SMS arrives or does not, the request is over.                       *)
SendOTP(h) ==
  /\ call[h] = "send"
  /\ Return(h)
  /\ UNCHANGED <<now, codes, sessions>>

-----------------------------------------------------------------------------
(* VerifyOTP                                                               *)

(* Deviation: without the last condition.                                  *)
MatchingUsed(code) ==
  {i \in DOMAIN codes : codes[i].code = code /\ codes[i].expires > now}

(* WHERE phone = $1 AND code = $2 AND expires_at > NOW() AND NOT verified  *)
Matching(code) ==
  {i \in DOMAIN codes : /\ codes[i].code = code
                        /\ codes[i].expires > now
                        /\ ~codes[i].verified}

(* One UPDATE marks all that match; without one the request is refused.    *)
Verify(h, code) ==
  /\ call[h] = "idle"
  /\ Matching(code) # {}
  /\ codes' = [i \in DOMAIN codes |->
                 IF i \in Matching(code) THEN [codes[i] EXCEPT !.verified = TRUE]
                 ELSE codes[i]]
  /\ Goto(h, "lookup")
  /\ UNCHANGED <<now, sessions>>

(* The user is found and gets his tokens, or the code is lost.             *)
GetByPhone(h) ==
  /\ call[h] = "lookup"
  /\ sessions' \in {sessions, sessions + 1}
  /\ Return(h)
  /\ UNCHANGED <<now, codes>>

-----------------------------------------------------------------------------
(* A restart of the server ends all requests.                              *)
Restart ==
  /\ \E h \in Handlers : call[h] # "idle"
  /\ call' = [h \in Handlers |-> "idle"]
  /\ UNCHANGED <<now, codes, sessions>>

Tick == now < MaxTime /\ now' = now + 1 /\ UNCHANGED <<codes, call, sessions>>

Request(h) ==
  \/ CountRecent(h) \/ CreateOTP(h) \/ SendOTP(h)
  \/ GetByPhone(h) \/ \E code \in OTPs : Verify(h, code)

Next == (\E h \in Handlers : Request(h)) \/ Restart \/ Tick

Spec == Init /\ [][Next]_vars

-----------------------------------------------------------------------------
(* Properties                                                              *)

(***************************************************************************)
(* auth_service.go 72-91: the count and the insert are two statements, so  *)
(* the limit of codes per hour is exceeded, but by no more than the        *)
(* requests of this phone that run at once, less one.                      *)
(***************************************************************************)
CodesPerHour == Cardinality(Recent) <= otpRateLimit + Cardinality(Handlers) - 1

(***************************************************************************)
(* otp_repo.go 34-48, auth_service.go 100-118: a code signs in once,       *)
(* however many requests come with it at once; codes that happen to be     *)
(* equal are used together.                                                *)
(***************************************************************************)
OneSessionPerCode ==
  sessions + Cardinality({h \in Handlers : call[h] = "lookup"})
    <= Cardinality({i \in DOMAIN codes : codes[i].verified})

=============================================================================
