------------------------------ MODULE Payments ------------------------------
(***************************************************************************)
(* The payment service: customers submit payments, admins and technicians  *)
(* approve or reject them.  An approval is four database statements and,   *)
(* for a suspended subscription, a whole Reconnect call, with nothing that *)
(* makes them one transaction.                                             *)
(*                                                                         *)
(* Backend sources: service/payment_service.go,                            *)
(* repository/payment_repo.go, handler/payment_handler.go.                 *)
(***************************************************************************)
EXTENDS Subscriptions

CONSTANT Payments    (* payments that may be submitted                     *)

VARIABLES
  pay,        (* the rows of table payments                                *)
  approvals   (* history: per subscription, the UPDATEs that approved a    *)
              (* payment for it                                            *)

payVars == <<pay, approvals>>

PaymentStatuses == {"none", "pending", "approved", "rejected"}

PaymentRow == [status : PaymentStatuses, sub : Subs \cup {Nobody}]

ApprovePcs == {"approve.write", "approve.advance", "approve.reread",
               "approve.reconnect"}

PaymentPcs == ApprovePcs \cup {"reject.write"}

(***************************************************************************)
(* Create: the subscription is read for the end of the billing period,     *)
(* then a pending row is inserted.  Nothing limits how many payments of a  *)
(* subscription are pending; amount, method, period and proof image are    *)
(* data no decision depends on.                                            *)
(***************************************************************************)
CreatePayment(h, p, s) ==
  /\ At(h, "idle")
  /\ pay[p].status = "none"
  /\ Exists(s)
  /\ pay' = [pay EXCEPT ![p] = [status |-> "pending", sub |-> s]]
  /\ UNCHANGED <<approvals, subVars>>

(* Deviation: payment and subscription are taken for each other.           *)
ReadPendingSwapped(h, p, pc) ==
  /\ At(h, "idle")
  /\ pay[p].status = "pending"
  /\ frame' = [frame EXCEPT ![h].pc = pc, ![h].sub = p, ![h].pay = pay[p].sub]
  /\ UNCHANGED <<payVars, now, rows, router, first, tainted>>

(* Approve and Reject begin alike: read the payment, refuse it unless it   *)
(* is pending (ErrPaymentNotPending), and go on with what was read.        *)
ReadPending(h, p, pc) ==
  /\ At(h, "idle")
  /\ pay[p].status = "pending"
  /\ frame' = [frame EXCEPT ![h].pc = pc, ![h].pay = p, ![h].sub = pay[p].sub]
  /\ UNCHANGED <<payVars, now, rows, router, first, tainted>>

(* Deviation: the due date is advanced without recording the approval.     *)
ApproveUnrecorded(h, p) == ReadPending(h, p, "approve.advance")

Approve(h, p) == ReadPending(h, p, "approve.write")

(* The UPDATE does not look at the status again; the row is read back, and *)
(* when that fails Approve gives up with the payment approved.             *)
ApproveWrite(h) ==
  LET p == frame[h].pay
  IN  /\ At(h, "approve.write")
      /\ \/ /\ pay' = [pay EXCEPT ![p].status = "approved"]
            /\ approvals' = [approvals EXCEPT ![frame[h].sub] = @ + 1]
            /\ Goto(h, "approve.advance") \/ (DBFails /\ Return(h))
         \/ /\ DBFails
            /\ Return(h)
            /\ UNCHANGED payVars
      /\ UNCHANGED <<now, rows, router, first, tainted>>

(* Deviation: the new period counts from today.                            *)
AdvanceDueDateFromToday(s) == now + Month

(* AdvanceDueDate: next_due_date + INTERVAL '1 month', in one UPDATE       *)
AdvanceDueDate(s) == rows[s].due + Month

(* Deviation: the statement is repeated when its reply is lost.            *)
ApproveAdvanceRepeated(h) ==
  LET s == frame[h].sub
  IN  /\ At(h, "approve.advance")
      /\ rows' = [rows EXCEPT ![s].due = AdvanceDueDate(s)]
      /\ Goto(h, "approve.reread") \/ (DBFails /\ UNCHANGED frame)
      /\ UNCHANGED <<payVars, now, router, first, tainted>>

ApproveAdvance(h) ==
  LET s == frame[h].sub
  IN  /\ At(h, "approve.advance")
      /\ \/ /\ rows' = [rows EXCEPT ![s].due = AdvanceDueDate(s)]
            /\ Goto(h, "approve.reread")
            /\ UNCHANGED <<now, router, first, tainted>>
         \/ DBError(h)
      /\ UNCHANGED payVars

(* only a subscription found suspended is reconnected *)
NeedsReconnect(s) == rows[s].status = "suspended"

ApproveReread(h) ==
  LET s == frame[h].sub
  IN  /\ At(h, "approve.reread")
      /\ \/ NeedsReconnect(s) /\ Goto(h, "approve.reconnect")
         \/ ~NeedsReconnect(s) /\ Return(h)
         \/ DBFails /\ Return(h)
      /\ UNCHANGED <<payVars, now, rows, router, first, tainted>>

(* the read of subService.Reconnect, whose error Approve ignores *)
ApproveReconnect(h) ==
  LET s == frame[h].sub
  IN  /\ At(h, "approve.reconnect")
      /\ ReconnectRead(h, s) \/ DBError(h)
      /\ UNCHANGED payVars

Reject(h, p) == ReadPending(h, p, "reject.write")

RejectWrite(h) ==
  /\ At(h, "reject.write")
  /\ \/ pay' = [pay EXCEPT ![frame[h].pay].status = "rejected"]
     \/ DBFails /\ UNCHANGED pay
  /\ Return(h)
  /\ UNCHANGED <<approvals, now, rows, router, first, tainted>>

PaymentsInit ==
  /\ pay = [p \in Payments |-> [status |-> "none", sub |-> Nobody]]
  /\ approvals = [s \in Subs |-> 0]

PaymentCall(h) ==
  \/ \E p \in Payments, s \in Subs : CreatePayment(h, p, s)
  \/ \E p \in Payments : Approve(h, p)
  \/ ApproveWrite(h)
  \/ ApproveAdvance(h)
  \/ ApproveReread(h)
  \/ ApproveReconnect(h)
  \/ \E p \in Payments : Reject(h, p)
  \/ RejectWrite(h)

=============================================================================
