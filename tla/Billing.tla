------------------------------ MODULE Billing ------------------------------
(***************************************************************************)
(* The billing core of the server: the HTTP handlers of subscriptions and  *)
(* payments and the overdue check, goroutines of one process that share    *)
(* the database and the router.  The process may be killed and restarted   *)
(* at any point: it has no shutdown sequence, and all it loses are the     *)
(* calls in progress.                                                      *)
(***************************************************************************)
EXTENDS Payments, Scheduler

CONSTANTS
  MayEdit,      (* BOOLEAN: do admins edit subscriptions (Update)?         *)
  MaxCrashes    (* restarts of the server (a bound)                        *)

ASSUME BillingAssumption ==
  /\ MayEdit \in BOOLEAN
  /\ MaxCrashes \in Nat
  /\ Failing \subseteq Subs

VARIABLE crashes    (* restarts so far *)

vars == <<subVars, payVars, schedVars, crashes>>

-----------------------------------------------------------------------------

Init ==
  /\ SubscriptionsInit
  /\ PaymentsInit
  /\ SchedulerInit
  /\ crashes = 0

HTTPCall(h) ==
  \/ /\ SubscriptionCall(h)
     /\ TrackOverdue
     /\ UNCHANGED <<payVars, scan, crashes>>
  \/ PaymentCall(h) /\ UNCHANGED <<schedVars, crashes>>

EditCall ==
  /\ MayEdit
  /\ SubscriptionUpdate
  /\ TrackOverdue
  /\ UNCHANGED <<payVars, scan, crashes>>

OverdueCheck ==
  /\ \/ CheckOverdue
     \/ \E s \in Subs : MarkNext(s)
     \/ MarkNextProfile
     \/ MarkNextStatus
     \/ SendDisconnectionSMS
  /\ UNCHANGED <<payVars, crashes>>

Day == Tick /\ UNCHANGED <<payVars, schedVars, crashes>>

(* The process dies; its successor starts with the overdue check.          *)
Restart ==
  /\ crashes < MaxCrashes
  /\ crashes' = crashes + 1
  /\ frame' = [h \in Threads |-> Idle]
  /\ scan' = {}
  /\ tainted' = [s \in Subs |-> tainted[s] \/ Working(s) # {}]
  /\ UNCHANGED <<now, rows, router, first, payVars, notices>>

Next ==
  \/ \E h \in Handlers : HTTPCall(h)
  \/ EditCall
  \/ OverdueCheck
  \/ Day
  \/ Restart

Spec == Init /\ [][Next]_vars

(***************************************************************************)
(* The Go runtime runs every goroutine that can run: a call once begun     *)
(* takes its next step, and the overdue check, whose ticker fires each     *)
(* hour, is run again.  No request is ever bound to arrive, and time and   *)
(* restarts are not bound to happen.                                       *)
(***************************************************************************)
Progress(h) == HTTPCall(h) /\ ~At(h, "idle")

Fairness ==
  /\ \A h \in Handlers : WF_vars(Progress(h))
  /\ WF_vars(OverdueCheck)

FairSpec == Spec /\ Fairness

-----------------------------------------------------------------------------
(* Types                                                                   *)

Frame == [pc : {"idle"} \cup ServicePcs \cup PaymentPcs \cup SchedulerPcs,
          sub : Subs \cup {Nobody}, pay : Payments \cup {Nobody},
          plan : Plans \cup {Unpaid}, queue : BOOLEAN]

(* The variables hold values of the database's and the program's types.    *)
TypeOK ==
  /\ now \in Nat
  /\ rows \in [Subs -> Row]
  /\ router \in [Subs -> RouterEntry]
  /\ frame \in [Threads -> Frame]
  /\ first \in [Subs -> Nat]
  /\ tainted \in [Subs -> BOOLEAN]
  /\ pay \in [Payments -> PaymentRow]
  /\ approvals \in [Subs -> Nat]
  /\ scan \in SUBSET Subs
  /\ notices \in [Subs -> Nat]
  /\ crashes \in Nat

-----------------------------------------------------------------------------
(* Safety                                                                  *)

(***************************************************************************)
(* A due date is never further than one month per approval from the first  *)
(* due date, whatever handlers, restarts and failed statements do.         *)
(***************************************************************************)
NeverOverCredited ==
  \A s \in Subs : rows[s].due <= first[s] + Month * approvals[s]

Quiet == \A h \in Threads : At(h, "idle")

(***************************************************************************)
(* Without failures and restarts an approval always reaches the due date:  *)
(* once no call is in progress every approval has moved it by one month,   *)
(* also when several payments of a subscription were approved at once.     *)
(***************************************************************************)
EveryApprovalCredited ==
  Quiet => \A s \in Subs : rows[s].due = first[s] + Month * approvals[s]

(* The router gives s what its status says.                                *)
Matches(s) ==
  CASE rows[s].status = "active" ->
         /\ s \in PPPoESubs => /\ router[s].secret = "enabled"
                               /\ router[s].profile = planProfile(rows[s].plan)
         /\ rows[s].queue => router[s].queue = "enabled"
    [] rows[s].status = "overdue" ->
         s \in PPPoESubs => router[s].profile = Unpaid
    [] rows[s].status = "suspended" ->
         /\ s \in PPPoESubs => router[s].secret = "disabled"
         /\ rows[s].queue => router[s].queue = "disabled"
    [] OTHER -> TRUE

(***************************************************************************)
(* When no service call on a subscription is in progress, the router gives *)
(* it what its status says, unless since the last Disconnect, Reconnect or *)
(* Create two calls on it overlapped, a command or a statement failed, or  *)
(* an admin edited its status or plan.  In particular one clean Disconnect *)
(* or Reconnect repairs whatever was wrong before it.                      *)
(***************************************************************************)
RouterFollowsStatus ==
  \A s \in Subs : ~tainted[s] /\ Working(s) = {} => Matches(s)

(***************************************************************************)
(* A queue id in a row is that of a queue the router has, or Disconnect    *)
(* and Reconnect would command a queue that is not there.                  *)
(***************************************************************************)
QueueIdIsReal == \A s \in Subs : rows[s].queue => router[s].queue # "absent"

(***************************************************************************)
(* The hourly check tells a customer about a disconnection at most once,   *)
(* however often it runs while the subscription stays overdue and wherever *)
(* a restart interrupts it.                                                *)
(***************************************************************************)
OneNoticePerDisconnection == \A s \in Subs : notices[s] <= 1

(***************************************************************************)
(* The database and history of billing implement the ledger.               *)
(***************************************************************************)
Ledger == INSTANCE BillingLedger WITH
            start <- first,
            paidTo <- [s \in Subs |-> rows[s].due],
            receipts <- approvals

ImplementsLedger == Ledger!Spec

-----------------------------------------------------------------------------
(* Liveness                                                                *)

Late(s) == rows[s].status = "active" /\ PastGrace(s)

(***************************************************************************)
(* A subscription that is past its grace period does not stay active: the  *)
(* overdue check gets to it, even if MarkOverdue keeps failing for others. *)
(***************************************************************************)
LateIsNoticed == \A s \in Subs \ Failing : Late(s) ~> ~Late(s)

-----------------------------------------------------------------------------
(* What the code's documents promise and the code does not do              *)

(* An approved or rejected payment keeps its status: only a pending one is *)
(* approved or rejected (ErrPaymentNotPending).                            *)
DecidedOnce ==
  [][\A p \in Payments : pay[p].status \in {"approved", "rejected"}
                           => pay'[p].status = pay[p].status]_pay

(* Approving a payment reconnects: a subscription paid up to a later date  *)
(* does not stay overdue.                                                  *)
PaidIsReconnected ==
  \A s \in Subs :
    (rows[s].status = "overdue" /\ now <= rows[s].due)
      ~> (rows[s].status # "overdue")

(* The check marks a subscription overdue only past its grace period.      *)
MarkedPastGrace ==
  [][At(Cron, "overdue.status") /\ frame'[Cron].pc = "overdue.sms"
       => PastGrace(frame[Cron].sub)]_vars

=============================================================================
