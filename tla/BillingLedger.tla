--------------------------- MODULE BillingLedger ---------------------------
(***************************************************************************)
(* What billing promises about time and money: a subscription is paid up   *)
(* to a date, that date moves by whole months, and it never moves further  *)
(* than the approvals recorded for the subscription allow.                 *)
(***************************************************************************)
EXTENDS Naturals

CONSTANTS Subs, Month

VARIABLES
  start,      (* per subscription, the due date it was opened with, or 0   *)
  paidTo,     (* per subscription, its current due date, or 0              *)
  receipts    (* per subscription, the approvals recorded for it           *)

vars == <<start, paidTo, receipts>>

Init ==
  /\ start = [s \in Subs |-> 0]
  /\ paidTo = [s \in Subs |-> 0]
  /\ receipts = [s \in Subs |-> 0]

Open(s) ==
  /\ paidTo[s] = 0
  /\ start'[s] \in Nat /\ start'[s] # 0
  /\ start' = [start EXCEPT ![s] = start'[s]]
  /\ paidTo' = [paidTo EXCEPT ![s] = start'[s]]
  /\ UNCHANGED receipts

Receive(s) ==
  /\ paidTo[s] # 0
  /\ receipts' = [receipts EXCEPT ![s] = @ + 1]
  /\ UNCHANGED <<start, paidTo>>

Credit(s) ==
  /\ paidTo[s] # 0
  /\ paidTo[s] + Month <= start[s] + Month * receipts[s]
  /\ paidTo' = [paidTo EXCEPT ![s] = @ + Month]
  /\ UNCHANGED <<start, receipts>>

Next == \E s \in Subs : Open(s) \/ Receive(s) \/ Credit(s)

Spec == Init /\ [][Next]_vars

=============================================================================
