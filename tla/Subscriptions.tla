--------------------------- MODULE Subscriptions ---------------------------
(***************************************************************************)
(* The subscription service of the backend: the `subscriptions' rows, the  *)
(* router the service keeps in step with them, and the service calls that  *)
(* change both.  A call is a sequence of database statements and router    *)
(* commands; each of them is one action, so calls of different goroutines  *)
(* interleave between any two of them, as they do in the server.           *)
(*                                                                         *)
(* Backend sources: service/subscription_service.go,                       *)
(* repository/subscription_repo.go, handler/subscription_handler.go.       *)
(***************************************************************************)
EXTENDS Naturals, FiniteSets

CONSTANTS
  Subs,          (* subscriptions that may be created                      *)
  PPPoESubs,     (* those created with a pppoe_username                    *)
  IPSubs,        (* those created with an ip_address, hence a simple queue *)
  Plans,         (* plans; a plan stands for its MikroTik profile          *)
  Unpaid,        (* the "unpaid" MikroTik profile                          *)
  Graces,        (* the grace periods, in days, an admin may choose        *)
  Handlers,      (* goroutines serving HTTP requests                       *)
  Cron,          (* the goroutine of the overdue check                     *)
  Month,         (* days in a billing month                                *)
  MaxNow,        (* last day of the modelled calendar (a bound)            *)
  DBFails,       (* BOOLEAN: may a database statement fail?                *)
  RouterFails    (* BOOLEAN: may a router command fail?                    *)

Threads == Handlers \cup {Cron}
Statuses == {"active", "overdue", "suspended"}

ASSUME SubscriptionsAssumption ==
  /\ PPPoESubs \subseteq Subs
  /\ IPSubs \subseteq Subs
  /\ Unpaid \notin Plans
  /\ Graces \subseteq Nat
  /\ IsFiniteSet(Handlers)
  /\ Cron \notin Handlers
  /\ Month \in Nat \ {0}
  /\ MaxNow \in Nat
  /\ DBFails \in BOOLEAN
  /\ RouterFails \in BOOLEAN

VARIABLES
  now,      (* the current day                                             *)
  rows,     (* the rows of table subscriptions                             *)
  router,   (* per subscription, its secret and its queue on the router    *)
  frame,    (* per goroutine, the call it is in and what it has read       *)
  first,    (* history: the first due date of each subscription            *)
  tainted   (* history: router and row may differ, see Settled             *)

subVars == <<now, rows, router, frame, first, tainted>>

-----------------------------------------------------------------------------
(* Values                                                                  *)

NoRow == [status |-> "none", due |-> 0, grace |-> 0, plan |-> Unpaid,
          queue |-> FALSE]

Row == [status : Statuses \cup {"none"}, due : Nat, grace : Nat,
        plan : Plans \cup {Unpaid}, queue : BOOLEAN]

Switch == {"absent", "enabled", "disabled"}

RouterEntry == [secret : Switch, profile : Plans \cup {Unpaid}, queue : Switch]

Nobody == "nobody"

Idle == [pc |-> "idle", sub |-> Nobody, pay |-> Nobody, plan |-> Unpaid,
         queue |-> FALSE]

CreatePcs == {"create.plan", "create.secret", "create.queue", "create.save"}

DisconnectPcs == {"disconnect.pppoe", "disconnect.queue", "disconnect.status"}

ReconnectPcs == {"reconnect.pppoe", "reconnect.profile", "reconnect.queue",
                 "reconnect.status"}

OverduePcs == {"overdue.profile", "overdue.status"}

(* the program points between the first read of a row by a call that       *)
(* drives the router and the call's last write                             *)
ServicePcs == CreatePcs \cup DisconnectPcs \cup ReconnectPcs \cup OverduePcs

Exists(s) == rows[s].status # "none"

(***************************************************************************)
(* planProfile: the profile of a plan is its mikrotik_profile or, without  *)
(* one, its name; a plan stands for that profile.                          *)
(***************************************************************************)
planProfile(plan) == plan

(***************************************************************************)
(* repository.Create: the first due date is this month's billing day, or   *)
(* next month's when that day is not in the future.  Every month of the    *)
(* model has Month days, so the clamp of billing_day to 1..28, which makes *)
(* the day exist in each month, has nothing left to do.                    *)
(***************************************************************************)
FirstDue(day) ==
  LET due == Month * (now \div Month) + day - 1
  IN  IF due <= now THEN due + Month ELSE due

(* GetOverdue's date condition: next_due_date + grace_days < NOW()         *)
PastGrace(s) == rows[s].due + rows[s].grace < now

-----------------------------------------------------------------------------
(* Goroutines, and the failures every step must allow for                  *)

At(h, pc) == frame[h].pc = pc

Goto(h, pc) == frame' = [frame EXCEPT ![h].pc = pc]

Return(h) == frame' = [frame EXCEPT ![h] = Idle]

(* The call reads the row: later steps use this copy, not the row.         *)
ReadRow(h, s, pc) ==
  frame' = [frame EXCEPT ![h].pc = pc, ![h].sub = s,
                         ![h].plan = rows[s].plan, ![h].queue = rows[s].queue]

(* Service calls on s in progress                                          *)
Working(s) == {h \in Threads : frame[h].sub = s /\ frame[h].pc \in ServicePcs}

Taint(s, dirty) == tainted' = [tainted EXCEPT ![s] = @ \/ dirty]

(* A call that sets secret and queue alone settles whatever was before it. *)
TaintAnew(s, dirty) == tainted' = [tainted EXCEPT ![s] = dirty]

(***************************************************************************)
(* One command to the router through the executor.  It takes effect, or    *)
(* fails, which the service only logs: the executor is gone, the agent is  *)
(* unreachable, RouterOS refuses, there is no such secret or queue.        *)
(***************************************************************************)
Command(h, s, possible, entry, next) ==
  /\ \/ /\ possible
        /\ router' = [router EXCEPT ![s] = entry]
        /\ UNCHANGED tainted
     \/ /\ RouterFails \/ ~possible
        /\ Taint(s, TRUE)
        /\ UNCHANGED router
  /\ Goto(h, next)
  /\ UNCHANGED <<now, rows, first>>

(* The step's condition (a username, a queue id) does not hold: no command *)
Skip(h, next) == Goto(h, next) /\ UNCHANGED <<now, rows, router, first, tainted>>

(* A database statement fails: the service call returns the error.         *)
DBError(h) ==
  /\ DBFails
  /\ Return(h)
  /\ Taint(frame[h].sub, frame[h].pc \in ServicePcs)
  /\ UNCHANGED <<now, rows, router, first>>

(***************************************************************************)
(* getMTExecutor: the executor is the agent hub or the direct client; with *)
(* neither the call goes straight to its last database statement.          *)
(***************************************************************************)
GetMTExecutor(h, s, pc, statusPc, settles) ==
  LET dirty == Working(s) # {}
      Begin(lost) == IF settles THEN TaintAnew(s, dirty \/ lost)
                                ELSE Taint(s, dirty \/ lost)
  IN  \/ ReadRow(h, s, pc) /\ Begin(FALSE)
      \/ RouterFails /\ ReadRow(h, s, statusPc) /\ Begin(TRUE)

-----------------------------------------------------------------------------
(* Create                                                                  *)

NewRow(plan, grace, day) ==
  [status |-> "active", due |-> FirstDue(day), grace |-> grace, plan |-> plan,
   queue |-> FALSE]

(* INSERT, then the row is read back; the read may fail after the INSERT.  *)
Create(h, s, plan, grace, day) ==
  /\ At(h, "idle")
  /\ ~Exists(s)
  /\ rows' = [rows EXCEPT ![s] = NewRow(plan, grace, day)]
  /\ first' = [first EXCEPT ![s] = FirstDue(day)]
  /\ \/ /\ frame' = [frame EXCEPT ![h].pc = "create.plan", ![h].sub = s,
                                  ![h].plan = plan]
        /\ UNCHANGED tainted
     \/ /\ DBFails
        /\ Taint(s, TRUE)
        /\ UNCHANGED frame
  /\ UNCHANGED <<now, router>>

(* No executor, or the plan cannot be read: nothing is provisioned.        *)
CreateReadPlan(h) ==
  /\ At(h, "create.plan")
  /\ \/ Goto(h, "create.secret") /\ UNCHANGED tainted
     \/ (RouterFails \/ DBFails) /\ Return(h) /\ Taint(frame[h].sub, TRUE)
  /\ UNCHANGED <<now, rows, router, first>>

AddPPPoESecret(h) ==
  LET s == frame[h].sub
  IN  /\ At(h, "create.secret")
      /\ IF s \in PPPoESubs
         THEN Command(h, s, router[s].secret = "absent",
                      [router[s] EXCEPT !.secret = "enabled",
                                        !.profile = planProfile(frame[h].plan)],
                      "create.queue")
         ELSE Skip(h, "create.queue")

(* Deviation: the error of the command is ignored, an id is saved anyway.  *)
CreateQueueUnchecked(h) ==
  LET s == frame[h].sub
  IN  /\ At(h, "create.queue")
      /\ router' \in {router, [router EXCEPT ![s].queue = "enabled"]}
      /\ Goto(h, "create.save")
      /\ UNCHANGED <<now, rows, first, tainted>>

(* The id the router returns is saved next; without one the call ends, and *)
(* the queue may be there all the same.                                    *)
CreateQueue(h) ==
  LET s == frame[h].sub
  IN  /\ At(h, "create.queue")
      /\ \/ /\ s \in IPSubs
            /\ router' = [router EXCEPT ![s].queue = "enabled"]
            /\ Goto(h, "create.save")
            /\ UNCHANGED tainted
         \/ /\ s \in IPSubs /\ RouterFails
            /\ router' \in {router, [router EXCEPT ![s].queue = "enabled"]}
            /\ Return(h)
            /\ Taint(s, TRUE)
         \/ /\ s \notin IPSubs
            /\ Return(h)
            /\ UNCHANGED <<router, tainted>>
      /\ UNCHANGED <<now, rows, first>>

UpdateMikroTikQueueID(h) ==
  /\ At(h, "create.save")
  /\ \/ /\ rows' = [rows EXCEPT ![frame[h].sub].queue = TRUE]
        /\ Return(h)
        /\ UNCHANGED <<now, router, first, tainted>>
     \/ DBError(h)

-----------------------------------------------------------------------------
(* Update: one UPDATE of the row, nothing on the router                    *)

Update(s, status, plan, grace) ==
  /\ Exists(s)
  /\ rows' = [rows EXCEPT ![s].status = status, ![s].plan = plan,
                          ![s].grace = grace]
  /\ Taint(s, status # rows[s].status \/ plan # rows[s].plan)
  /\ UNCHANGED <<now, router, frame, first>>

-----------------------------------------------------------------------------
(* The last statement of every call that drives the router                 *)

UpdateStatus(h, status) ==
  /\ rows' = [rows EXCEPT ![frame[h].sub].status = status]
  /\ UNCHANGED <<now, router, first, tainted>>

(* DisablePPPoEUser, EnablePPPoEUser                                       *)
SwitchSecret(h, to, next) ==
  LET s == frame[h].sub
  IN  IF s \in PPPoESubs
      THEN Command(h, s, router[s].secret # "absent",
                   [router[s] EXCEPT !.secret = to], next)
      ELSE Skip(h, next)

SetPPPoEProfile(h, profile, next) ==
  LET s == frame[h].sub
  IN  IF s \in PPPoESubs
      THEN Command(h, s, router[s].secret # "absent",
                   [router[s] EXCEPT !.profile = profile], next)
      ELSE Skip(h, next)

(* DisableQueue, EnableQueue: only with a queue id in the copy of the row  *)
SwitchQueue(h, to, next) ==
  LET s == frame[h].sub
  IN  IF frame[h].queue
      THEN Command(h, s, router[s].queue # "absent",
                   [router[s] EXCEPT !.queue = to], next)
      ELSE Skip(h, next)

-----------------------------------------------------------------------------
(* Disconnect                                                              *)

Disconnect(h, s) ==
  /\ At(h, "idle")
  /\ Exists(s)
  /\ GetMTExecutor(h, s, "disconnect.pppoe", "disconnect.status", TRUE)
  /\ UNCHANGED <<now, rows, router, first>>

DisconnectPPPoE(h) ==
  At(h, "disconnect.pppoe") /\ SwitchSecret(h, "disabled", "disconnect.queue")

(* Deviation: the queue is disabled only in place of a secret.             *)
DisconnectQueueElse(h) ==
  /\ At(h, "disconnect.queue")
  /\ IF frame[h].sub \in PPPoESubs
     THEN Skip(h, "disconnect.status")
     ELSE SwitchQueue(h, "disabled", "disconnect.status")

DisconnectQueue(h) ==
  At(h, "disconnect.queue") /\ SwitchQueue(h, "disabled", "disconnect.status")

DisconnectStatus(h) ==
  /\ At(h, "disconnect.status")
  /\ \/ UpdateStatus(h, "suspended") /\ Return(h)
     \/ DBError(h)

-----------------------------------------------------------------------------
(* Reconnect                                                               *)

ReconnectRead(h, s) ==
  /\ GetMTExecutor(h, s, "reconnect.pppoe", "reconnect.status", TRUE)
  /\ UNCHANGED <<now, rows, router, first>>

Reconnect(h, s) == At(h, "idle") /\ Exists(s) /\ ReconnectRead(h, s)

(* Deviation: the secret is enabled, its profile is not restored.          *)
ReconnectPPPoEOnly(h) ==
  At(h, "reconnect.pppoe") /\ SwitchSecret(h, "enabled", "reconnect.queue")

ReconnectPPPoE(h) ==
  At(h, "reconnect.pppoe") /\ SwitchSecret(h, "enabled", "reconnect.profile")

(* The plan is read first; when that fails the profile stays as it is.     *)
ReconnectProfile(h) ==
  /\ At(h, "reconnect.profile")
  /\ \/ SetPPPoEProfile(h, planProfile(frame[h].plan), "reconnect.queue")
     \/ /\ DBFails /\ frame[h].sub \in PPPoESubs
        /\ Goto(h, "reconnect.queue")
        /\ Taint(frame[h].sub, TRUE)
        /\ UNCHANGED <<now, rows, router, first>>

ReconnectQueue(h) ==
  At(h, "reconnect.queue") /\ SwitchQueue(h, "enabled", "reconnect.status")

ReconnectStatus(h) ==
  /\ At(h, "reconnect.status")
  /\ \/ UpdateStatus(h, "active") /\ Return(h)
     \/ DBError(h)

-----------------------------------------------------------------------------
(* MarkOverdue: called by the overdue check, see Scheduler                 *)

MarkOverdue(h, s) ==
  /\ GetMTExecutor(h, s, "overdue.profile", "overdue.status", FALSE)
  /\ UNCHANGED <<now, rows, router, first>>

MarkOverdueProfile(h) ==
  At(h, "overdue.profile") /\ SetPPPoEProfile(h, Unpaid, "overdue.status")

-----------------------------------------------------------------------------
(* A day passes                                                            *)

Tick ==
  /\ now < MaxNow
  /\ now' = now + 1
  /\ UNCHANGED <<rows, router, frame, first, tainted>>

SubscriptionsInit ==
  /\ now = 0
  /\ rows = [s \in Subs |-> NoRow]
  /\ router = [s \in Subs |-> [secret |-> "absent", profile |-> Unpaid,
                               queue |-> "absent"]]
  /\ frame = [h \in Threads |-> Idle]
  /\ first = [s \in Subs |-> 0]
  /\ tainted = [s \in Subs |-> FALSE]

(* What the HTTP handlers of handler/subscription_handler.go may do next   *)
SubscriptionCall(h) ==
  \/ \E s \in Subs, plan \in Plans, grace \in Graces, day \in 1..Month :
       Create(h, s, plan, grace, day)
  \/ CreateReadPlan(h)
  \/ AddPPPoESecret(h)
  \/ CreateQueue(h)
  \/ UpdateMikroTikQueueID(h)
  \/ \E s \in Subs : Disconnect(h, s)
  \/ DisconnectPPPoE(h)
  \/ DisconnectQueue(h)
  \/ DisconnectStatus(h)
  \/ \E s \in Subs : Reconnect(h, s)
  \/ ReconnectPPPoE(h)
  \/ ReconnectProfile(h)
  \/ ReconnectQueue(h)
  \/ ReconnectStatus(h)

SubscriptionUpdate ==
  \E s \in Subs, status \in Statuses, plan \in Plans, grace \in Graces :
    Update(s, status, plan, grace)

=============================================================================
