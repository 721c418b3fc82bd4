------------------------------- MODULE Server -------------------------------
(***************************************************************************)
(* The parts of the server beside Billing: its start, signing in with a    *)
(* code, the settings of the router's client, the commands of operations   *)
(* on the router, and messages.  They share no rows, and no memory but the *)
(* manager's client, of which the commands ask only whether there is one   *)
(* and take any answer; so one part, any, acts in a behaviour, and all but *)
(* the start itself find the schema of the newest migration.               *)
(***************************************************************************)
EXTENDS Naturals

CONSTANTS
  Procs, Newest, SubsVersion, Typed, Repeatable, Refs, MaxFaults,
  Handlers,
  OTPs, otpRateLimit, otpWindow, otpExpiry, MaxCodes, MaxTime,
  Hosts, Logins, Empty, None, Environment, MaxSaves,
  MaxCmds,
  Recipients, MaxBatches

VARIABLES
  part,   (* the part that acts                                            *)
  tables, types, recorded, proc, faults,
  now, codes, call, sessions,
  stored, client, saving, saves, apart,
  connected, configured, op, sent, last, done, answer, flying,
  issued, route, earlier, ran,
  sending, batches, messages, audience, asked, accepted

Boot     == INSTANCE Startup
Auth     == INSTANCE SignIn
Settings == INSTANCE RouterSettings
Commands == INSTANCE Executor
Mail     == INSTANCE MessageSending

ASSUME ServerAssumption ==
  /\ Boot!StartupAssumption
  /\ Auth!SignInAssumption
  /\ Settings!RouterSettingsAssumption
  /\ Commands!ExecutorAssumption
  /\ MaxBatches \in Nat

starting == <<tables, types, recorded, proc, faults>>
signingIn == <<now, codes, call, sessions>>
configuring == <<stored, client, saving, saves, apart>>
commanding == <<connected, configured, op, sent, last, done, answer, flying,
                issued, route, earlier, ran>>
mailing == <<sending, batches, messages, audience, asked, accepted>>

vars == <<part, starting, signingIn, configuring, commanding, mailing>>

Init ==
  /\ part \in {"start", "signIn", "settings", "commands", "messages"}
  /\ Boot!Init /\ (part = "start" \/ Boot!Release(Newest))
  /\ Auth!Init
  /\ Settings!Init /\ (part = "settings" \/ stored = Environment)
  /\ Commands!Init /\ (part = "commands" \/ ~(connected \/ configured))
  /\ Mail!Init

MigrateAndServe ==
  /\ part = "start" /\ Boot!Next
  /\ UNCHANGED <<part, signingIn, configuring, commanding, mailing>>

ServeSignIns ==
  /\ part = "signIn" /\ Auth!Next
  /\ UNCHANGED <<part, starting, configuring, commanding, mailing>>

ServeSettings ==
  /\ part = "settings" /\ Settings!Next
  /\ UNCHANGED <<part, starting, signingIn, commanding, mailing>>

SendCommands ==
  /\ part = "commands" /\ Commands!Next
  /\ UNCHANGED <<part, starting, signingIn, configuring, mailing>>

ServeMessages ==
  /\ part = "messages" /\ Mail!Next
  /\ UNCHANGED <<part, starting, signingIn, configuring, commanding>>

Next ==
  MigrateAndServe \/ ServeSignIns \/ ServeSettings \/ SendCommands \/ ServeMessages

Spec == Init /\ [][Next]_vars

(* docker-compose.yml and the hosting platform start again what stopped,   *)
(* and a start goes on.                                                    *)
Fairness == \A p \in Procs : WF_starting(part = "start" /\ Boot!Run(p))

FairSpec == Spec /\ Fairness

-----------------------------------------------------------------------------
(* Properties                                                              *)

(* The types of all parts                                                  *)
TypeOK ==
  Boot!TypeOK /\ Auth!TypeOK /\ Settings!TypeOK /\ Commands!TypeOK /\ Mail!TypeOK

(* A live schema is dropped only by a start that could not see it, or that *)
(* ran beside another (Startup).                                           *)
WipeHasACause == Boot!WipeHasACause

(* The server comes up on the whole schema, or the database is torn        *)
(* (Startup).                                                              *)
ServesUnlessTorn == part = "start" => Boot!ServesUnlessTorn

(* The limit of codes per hour is soft by the requests that run at once    *)
(* (SignIn).                                                               *)
CodesPerHour == Auth!CodesPerHour

(* A code signs in once (SignIn).                                          *)
OneSessionPerCode == Auth!OneSessionPerCode

(* The client in use is the one stored (RouterSettings).                   *)
ClientIsStored == Settings!ClientIsStored

(* Commands are run once, and late only when they had failed (Executor).   *)
CommandsAreKept == Commands!CommandsAreKept

(* The history of messages tells what was sent (MessageSending).           *)
HistoryIsTrue == Mail!HistoryIsTrue

=============================================================================
