------------------------------ MODULE Scheduler ------------------------------
(***************************************************************************)
(* The overdue check of the background scheduler.  It lists the late       *)
(* subscriptions once, then for each of them calls MarkOverdue and sends   *)
(* the customer an SMS.  The list is not looked at again: a row may change *)
(* between the listing and the call.                                       *)
(*                                                                         *)
(* Backend sources: cron/scheduler.go, GetOverdue of                       *)
(* repository/subscription_repo.go.                                        *)
(***************************************************************************)
EXTENDS Subscriptions

CONSTANT
  Failing    (* subscriptions for which MarkOverdue fails every time       *)

VARIABLES
  scan,      (* the rest of the list of the check in progress              *)
  notices    (* history: disconnection SMSs since the status last became   *)
             (* or ceased to be overdue                                    *)

schedVars == <<scan, notices>>

SchedulerPcs == {"overdue.sms"}

(* A new status begins or ends a period of being overdue.                  *)
TrackOverdue ==
  notices' = [s \in Subs |->
                IF (rows[s].status = "overdue") # (rows'[s].status = "overdue")
                THEN 0 ELSE notices[s]]

(* Deviation: status != 'suspended', so the overdue are listed again.      *)
GetOverdueAgain ==
  {s \in Subs : rows[s].status \in {"active", "overdue"} /\ PastGrace(s)}

(* GetOverdue: status NOT IN ('suspended', 'overdue') and past the grace   *)
(* period.  Its ORDER BY is left out: the check takes any order.           *)
GetOverdue ==
  {s \in Subs : rows[s].status = "active" /\ PastGrace(s)}

(* checkOverdue, at start-up and each hour.  When the listing fails the    *)
(* check ends there.                                                       *)
CheckOverdue ==
  /\ At(Cron, "idle")
  /\ scan = {}
  /\ scan' = GetOverdue
  /\ UNCHANGED <<notices, subVars>>

(* Deviation: the check ends at the first failure.                         *)
MarkNextOrStop(s) ==
  /\ At(Cron, "idle")
  /\ s \in scan
  /\ \/ s \notin Failing /\ MarkOverdue(Cron, s) /\ scan' = scan \ {s}
     \/ (DBFails \/ s \in Failing) /\ UNCHANGED subVars /\ scan' = {}
  /\ UNCHANGED notices

(* The next subscription of the list.  Its read may fail: `continue'.      *)
MarkNext(s) ==
  /\ At(Cron, "idle")
  /\ s \in scan
  /\ scan' = scan \ {s}
  /\ \/ s \notin Failing /\ MarkOverdue(Cron, s)
     \/ (DBFails \/ s \in Failing) /\ UNCHANGED subVars
  /\ UNCHANGED notices

MarkNextProfile == MarkOverdueProfile(Cron) /\ UNCHANGED schedVars

MarkNextStatus ==
  LET s == frame[Cron].sub
  IN  /\ At(Cron, "overdue.status")
      /\ \/ UpdateStatus(Cron, "overdue") /\ Goto(Cron, "overdue.sms")
         \/ DBError(Cron)
      /\ TrackOverdue
      /\ UNCHANGED scan

(* SendReminder: the provider takes the message or fails, which is logged  *)
SendDisconnectionSMS ==
  LET s == frame[Cron].sub
  IN  /\ At(Cron, "overdue.sms")
      /\ notices' \in {notices, [notices EXCEPT ![s] = @ + 1]}
      /\ Return(Cron)
      /\ UNCHANGED <<scan, now, rows, router, first, tainted>>

SchedulerInit ==
  /\ scan = {}
  /\ notices = [s \in Subs |-> 0]

=============================================================================
