--------------------------- MODULE BillingProofs ---------------------------
(***************************************************************************)
(* Theorems about Billing for every set of subscriptions, payments and     *)
(* goroutines, every month length and every pattern of failures. Types and *)
(* names come first, and how each kind of step moves calls, rows and due   *)
(* dates; then what is credited, the ledger and the notices; then, under   *)
(* the assumption that nothing fails, that every approval is credited; and *)
(* last what the router holds.                                             *)
(***************************************************************************)
EXTENDS Billing, FiniteSetTheorems, TLAPS

-----------------------------------------------------------------------------
(* Type correctness                                                        *)

Pcs == {"idle"} \cup ServicePcs \cup PaymentPcs \cup SchedulerPcs

(* The parts of TypeOK an action of Subscriptions can disturb.             *)
SubTypeOK ==
  /\ now \in Nat
  /\ rows \in [Subs -> Row]
  /\ router \in [Subs -> RouterEntry]
  /\ frame \in [Threads -> Frame]
  /\ first \in [Subs -> Nat]
  /\ tainted \in [Subs -> BOOLEAN]

(* A call in progress is about a subscription that exists.                 *)
CallsNamed ==
  \A h \in Threads :
    frame[h].pc # "idle" => frame[h].sub \in Subs /\ Exists(frame[h].sub)

(* A pending payment is one of a subscription that exists.                 *)
PaymentsNamed ==
  \A p \in Payments :
    pay[p].status = "pending" => pay[p].sub \in Subs /\ Exists(pay[p].sub)

(* Moving a goroutine to another program point keeps the frames typed.     *)
LEMMA GotoType ==
  ASSUME frame \in [Threads -> Frame], NEW h \in Threads, NEW pc \in Pcs,
         Goto(h, pc)
  PROVE  frame' \in [Threads -> Frame]
BY DEF Goto, Frame, Pcs

(* Ending a call keeps the frames typed.                                   *)
LEMMA ReturnType ==
  ASSUME frame \in [Threads -> Frame], NEW h \in Threads, Return(h)
  PROVE  frame' \in [Threads -> Frame]
BY DEF Return, Frame, Idle

(* Reading a row into a frame keeps the frames typed.                      *)
LEMMA ReadRowType ==
  ASSUME frame \in [Threads -> Frame], rows \in [Subs -> Row],
         NEW h \in Threads, NEW s \in Subs, NEW pc \in Pcs, ReadRow(h, s, pc)
  PROVE  frame' \in [Threads -> Frame]
<1>1. rows[s].plan \in Plans \cup {Unpaid} /\ rows[s].queue \in BOOLEAN
  BY DEF Row
<1>2. [frame[h] EXCEPT !.pc = pc, !.sub = s, !.plan = rows[s].plan,
                       !.queue = rows[s].queue] \in Frame
  BY <1>1 DEF Frame, Pcs
<1>3. frame' = [frame EXCEPT ![h] = [frame[h] EXCEPT !.pc = pc, !.sub = s,
                  !.plan = rows[s].plan, !.queue = rows[s].queue]]
  BY DEF ReadRow
<1> QED
  BY <1>2, <1>3

(* A history flag stays a flag.                                            *)
LEMMA TaintType ==
  ASSUME tainted \in [Subs -> BOOLEAN], NEW s, NEW dirty \in BOOLEAN,
         Taint(s, dirty) \/ TaintAnew(s, dirty)
  PROVE  tainted' \in [Subs -> BOOLEAN]
BY DEF Taint, TaintAnew

(* A router command, taking effect or failing, keeps the types.            *)
LEMMA CommandType ==
  ASSUME SubTypeOK, NEW h \in Threads, NEW s, NEW possible \in BOOLEAN,
         NEW entry, s \in Subs => entry \in RouterEntry, NEW next \in Pcs,
         Command(h, s, possible, entry, next)
  PROVE  SubTypeOK'
<1>1. frame' \in [Threads -> Frame]
  BY GotoType DEF Command, SubTypeOK
<1>2. tainted' \in [Subs -> BOOLEAN]
  BY TaintType DEF Command, SubTypeOK
<1>3. router' \in [Subs -> RouterEntry]
  BY DEF Command, SubTypeOK
<1> QED
  BY <1>1, <1>2, <1>3 DEF Command, SubTypeOK

(* Doing nothing on the router keeps the types.                            *)
LEMMA SkipType ==
  ASSUME SubTypeOK, NEW h \in Threads, NEW next \in Pcs, Skip(h, next)
  PROVE  SubTypeOK'
<1>1. frame' \in [Threads -> Frame]
  BY GotoType DEF Skip, SubTypeOK
<1> QED
  BY <1>1 DEF Skip, SubTypeOK

(* A failing statement keeps the types.                                    *)
LEMMA DBErrorType ==
  ASSUME SubTypeOK, NEW h \in Threads, DBError(h)
  PROVE  SubTypeOK'
<1>1. frame' \in [Threads -> Frame]
  BY ReturnType DEF DBError, SubTypeOK
<1>2. tainted' \in [Subs -> BOOLEAN]
  <2>1. (frame[h].pc \in ServicePcs) \in BOOLEAN
    OBVIOUS
  <2> QED
    BY <2>1, TaintType DEF DBError, SubTypeOK
<1> QED
  BY <1>1, <1>2 DEF DBError, SubTypeOK

(* The first step of Disconnect, Reconnect and MarkOverdue.                *)
LEMMA ExecutorType ==
  ASSUME SubTypeOK, NEW h \in Threads, NEW s \in Subs, NEW pc \in Pcs,
         NEW statusPc \in Pcs, NEW settles \in BOOLEAN,
         GetMTExecutor(h, s, pc, statusPc, settles),
         UNCHANGED <<now, rows, router, first>>
  PROVE  SubTypeOK'
<1>1. frame' \in [Threads -> Frame]
  BY ReadRowType DEF GetMTExecutor, SubTypeOK
<1>2. tainted' \in [Subs -> BOOLEAN]
  BY DEF GetMTExecutor, Taint, TaintAnew, SubTypeOK
<1> QED
  BY <1>1, <1>2 DEF SubTypeOK

(* A status written to a row is one the column's enumeration has.          *)
LEMMA UpdateStatusType ==
  ASSUME SubTypeOK, NEW h \in Threads, NEW status \in Statuses,
         UpdateStatus(h, status)
  PROVE  rows' \in [Subs -> Row]
<1> DEFINE s == frame[h].sub
<1>1. rows' = [rows EXCEPT ![s].status = status]
  BY DEF UpdateStatus
<1>2. \A x \in Subs : [rows[x] EXCEPT !.status = status] \in Row
  BY DEF SubTypeOK, Row
<1> HIDE DEF s
<1> QED
  BY <1>1, <1>2 DEF SubTypeOK

(* Enabling or disabling a secret keeps the types.                         *)
LEMMA SwitchSecretType ==
  ASSUME SubTypeOK, NEW h \in Threads, NEW to \in Switch, NEW next \in Pcs,
         SwitchSecret(h, to, next)
  PROVE  SubTypeOK'
<1> DEFINE s == frame[h].sub
           entry == [router[s] EXCEPT !.secret = to]
<1>1. s \in Subs => entry \in RouterEntry
  BY DEF SubTypeOK, RouterEntry
<1>2. \/ Command(h, s, router[s].secret # "absent", entry, next)
      \/ Skip(h, next)
  BY DEF SwitchSecret
<1>3. (router[s].secret # "absent") \in BOOLEAN
  OBVIOUS
<1> HIDE DEF s, entry
<1> QED
  BY <1>1, <1>2, <1>3, CommandType, SkipType

(* Setting a profile keeps the types.                                      *)
LEMMA SetProfileType ==
  ASSUME SubTypeOK, NEW h \in Threads, NEW profile \in Plans \cup {Unpaid},
         NEW next \in Pcs, SetPPPoEProfile(h, profile, next)
  PROVE  SubTypeOK'
<1> DEFINE s == frame[h].sub
           entry == [router[s] EXCEPT !.profile = profile]
<1>1. s \in Subs => entry \in RouterEntry
  BY DEF SubTypeOK, RouterEntry
<1>2. \/ Command(h, s, router[s].secret # "absent", entry, next)
      \/ Skip(h, next)
  BY DEF SetPPPoEProfile
<1>3. (router[s].secret # "absent") \in BOOLEAN
  OBVIOUS
<1> HIDE DEF s, entry
<1> QED
  BY <1>1, <1>2, <1>3, CommandType, SkipType

(* Enabling or disabling a queue keeps the types.                          *)
LEMMA SwitchQueueType ==
  ASSUME SubTypeOK, NEW h \in Threads, NEW to \in Switch, NEW next \in Pcs,
         SwitchQueue(h, to, next)
  PROVE  SubTypeOK'
<1> DEFINE s == frame[h].sub
           entry == [router[s] EXCEPT !.queue = to]
<1>1. s \in Subs => entry \in RouterEntry
  BY DEF SubTypeOK, RouterEntry
<1>2. \/ Command(h, s, router[s].queue # "absent", entry, next)
      \/ Skip(h, next)
  BY DEF SwitchQueue
<1>3. (router[s].queue # "absent") \in BOOLEAN
  OBVIOUS
<1> HIDE DEF s, entry
<1> QED
  BY <1>1, <1>2, <1>3, CommandType, SkipType

(* Every step of a subscription request keeps the types.                   *)
LEMMA SubscriptionCallType ==
  ASSUME SubTypeOK, NEW h \in Handlers, SubscriptionCall(h)
  PROVE  SubTypeOK'
<1> USE SubscriptionsAssumption
<1>t. h \in Threads
  BY DEF Threads
<1>p. /\ "idle" \in Pcs /\ \A pc \in ServicePcs : pc \in Pcs
      /\ \A pc \in CreatePcs \cup DisconnectPcs \cup ReconnectPcs : pc \in Pcs
  BY DEF Pcs, ServicePcs
<1>1. ASSUME NEW s \in Subs, NEW plan \in Plans, NEW grace \in Graces,
             NEW day \in 1..Month, Create(h, s, plan, grace, day)
      PROVE  SubTypeOK'
  <2>1. FirstDue(day) \in Nat
    BY <1>1 DEF FirstDue, SubTypeOK
  <2>2. rows' \in [Subs -> Row]
    BY <1>1, <2>1 DEF Create, NewRow, SubTypeOK, Row, Statuses
  <2>3. first' \in [Subs -> Nat]
    BY <1>1, <2>1 DEF Create, SubTypeOK
  <2>4. frame' \in [Threads -> Frame]
    <3> DEFINE begun == [frame[h] EXCEPT !.pc = "create.plan", !.sub = s,
                                         !.plan = plan]
    <3>1. begun \in Frame
      BY <1>t DEF SubTypeOK, Frame, ServicePcs, CreatePcs
    <3>2. \/ frame' = [frame EXCEPT ![h] = begun]
          \/ frame' = frame
      BY <1>1 DEF Create
    <3> QED
      BY <3>1, <3>2 DEF SubTypeOK
  <2>5. tainted' \in [Subs -> BOOLEAN]
    BY <1>1, TaintType DEF Create, SubTypeOK
  <2> QED
    BY <1>1, <2>2, <2>3, <2>4, <2>5 DEF Create, SubTypeOK
<1>2. CASE CreateReadPlan(h)
  <2>1. frame' \in [Threads -> Frame]
    BY <1>2, <1>t, <1>p, GotoType, ReturnType
       DEF CreateReadPlan, SubTypeOK, CreatePcs
  <2>2. tainted' \in [Subs -> BOOLEAN]
    BY <1>2, TaintType DEF CreateReadPlan, SubTypeOK
  <2> QED
    BY <1>2, <2>1, <2>2 DEF CreateReadPlan, SubTypeOK
<1>3. CASE AddPPPoESecret(h)
  <2> DEFINE s == frame[h].sub
             entry == [router[s] EXCEPT !.secret = "enabled",
                                  !.profile = planProfile(frame[h].plan)]
  <2>1. "create.queue" \in Pcs
    BY <1>p DEF CreatePcs
  <2>2. s \in Subs => entry \in RouterEntry
    <3>1. frame[h].plan \in Plans \cup {Unpaid}
      BY <1>t DEF SubTypeOK, Frame
    <3>2. s \in Subs => router[s] \in RouterEntry
      BY DEF SubTypeOK
    <3> HIDE DEF s
    <3> QED
      BY <3>1, <3>2 DEF RouterEntry, Switch, planProfile
  <2>3. \/ Command(h, s, router[s].secret = "absent", entry, "create.queue")
        \/ Skip(h, "create.queue")
    BY <1>3 DEF AddPPPoESecret
  <2>4. (router[s].secret = "absent") \in BOOLEAN
    OBVIOUS
  <2> HIDE DEF s, entry
  <2> QED
    BY <1>t, <2>1, <2>2, <2>3, <2>4, CommandType, SkipType
<1>4. CASE CreateQueue(h)
  <2>1. frame' \in [Threads -> Frame]
    BY <1>4, <1>t, <1>p, GotoType, ReturnType
       DEF CreateQueue, SubTypeOK, CreatePcs
  <2>2. tainted' \in [Subs -> BOOLEAN]
    BY <1>4, TaintType DEF CreateQueue, SubTypeOK
  <2>3. router' \in [Subs -> RouterEntry]
    <3> DEFINE s == frame[h].sub
               added == [router EXCEPT ![s].queue = "enabled"]
    <3>1. added \in [Subs -> RouterEntry]
      <4> HIDE DEF s
      <4> QED
        BY DEF SubTypeOK, RouterEntry, Switch
    <3>2. router' \in {router, added}
      BY <1>4 DEF CreateQueue
    <3> QED
      BY <3>1, <3>2 DEF SubTypeOK
  <2> QED
    BY <1>4, <2>1, <2>2, <2>3 DEF CreateQueue, SubTypeOK
<1>5. CASE UpdateMikroTikQueueID(h)
  <2>1. CASE DBError(h)
    BY <2>1, <1>t, DBErrorType
  <2>2. CASE ~DBError(h)
    <3>1. rows' \in [Subs -> Row]
      <4> DEFINE s == frame[h].sub
      <4>1. rows' = [rows EXCEPT ![s].queue = TRUE]
        BY <1>5, <2>2 DEF UpdateMikroTikQueueID
      <4>2. \A x \in Subs : [rows[x] EXCEPT !.queue = TRUE] \in Row
        BY DEF SubTypeOK, Row
      <4> HIDE DEF s
      <4> QED
        BY <4>1, <4>2 DEF SubTypeOK
    <3>2. frame' \in [Threads -> Frame]
      BY <1>5, <2>2, <1>t, ReturnType DEF UpdateMikroTikQueueID, SubTypeOK
    <3> QED
      BY <1>5, <2>2, <3>1, <3>2 DEF UpdateMikroTikQueueID, SubTypeOK
  <2> QED
    BY <2>1, <2>2
<1>6. ASSUME NEW s \in Subs, Disconnect(h, s)
      PROVE  SubTypeOK'
  BY <1>6, <1>t, <1>p, ExecutorType DEF Disconnect, DisconnectPcs
<1>7. ASSUME NEW s \in Subs, Reconnect(h, s)
      PROVE  SubTypeOK'
  BY <1>7, <1>t, <1>p, ExecutorType DEF Reconnect, ReconnectRead, ReconnectPcs
<1>8. CASE DisconnectPPPoE(h) \/ ReconnectPPPoE(h)
  BY <1>8, <1>t, <1>p, SwitchSecretType
     DEF DisconnectPPPoE, ReconnectPPPoE, DisconnectPcs, ReconnectPcs, Switch
<1>9. CASE DisconnectQueue(h) \/ ReconnectQueue(h)
  BY <1>9, <1>t, <1>p, SwitchQueueType
     DEF DisconnectQueue, ReconnectQueue, DisconnectPcs, ReconnectPcs, Switch
<1>10. CASE ReconnectProfile(h)
  <2>1. CASE SetPPPoEProfile(h, planProfile(frame[h].plan), "reconnect.queue")
    <3>1. planProfile(frame[h].plan) \in Plans \cup {Unpaid}
      BY <1>t DEF planProfile, SubTypeOK, Frame
    <3> QED
      BY <2>1, <3>1, <1>t, <1>p, SetProfileType DEF ReconnectPcs
  <2>2. CASE ~SetPPPoEProfile(h, planProfile(frame[h].plan), "reconnect.queue")
    <3>1. frame' \in [Threads -> Frame]
      BY <1>10, <2>2, <1>t, <1>p, GotoType
         DEF ReconnectProfile, SubTypeOK, ReconnectPcs
    <3>2. tainted' \in [Subs -> BOOLEAN]
      BY <1>10, <2>2, TaintType DEF ReconnectProfile, SubTypeOK
    <3> QED
      BY <1>10, <2>2, <3>1, <3>2 DEF ReconnectProfile, SubTypeOK
  <2> QED
    BY <2>1, <2>2
<1>11. CASE DisconnectStatus(h) \/ ReconnectStatus(h)
  <2>1. CASE DBError(h)
    BY <2>1, <1>t, DBErrorType
  <2>2. CASE ~DBError(h)
    <3>1. PICK status \in Statuses : UpdateStatus(h, status) /\ Return(h)
      BY <1>11, <2>2 DEF DisconnectStatus, ReconnectStatus, Statuses
    <3>2. frame' \in [Threads -> Frame]
      BY <3>1, <1>t, ReturnType DEF SubTypeOK
    <3>3. rows' \in [Subs -> Row]
      BY <3>1, <1>t, UpdateStatusType
    <3> QED
      BY <3>1, <3>2, <3>3 DEF SubTypeOK, UpdateStatus
  <2> QED
    BY <2>1, <2>2
<1> QED
  BY <1>1, <1>2, <1>3, <1>4, <1>5, <1>6, <1>7, <1>8, <1>9, <1>10, <1>11
     DEF SubscriptionCall

(* An edit writes a status and a plan the columns may have.                *)
LEMMA UpdateType ==
  ASSUME SubTypeOK, SubscriptionUpdate
  PROVE  SubTypeOK'
<1> USE SubscriptionsAssumption
<1>1. PICK s \in Subs, status \in Statuses, plan \in Plans, grace \in Graces :
        Update(s, status, plan, grace)
  BY DEF SubscriptionUpdate
<1>2. [rows[s] EXCEPT !.status = status, !.plan = plan, !.grace = grace] \in Row
  BY DEF SubTypeOK, Row
<1>3. rows' = [rows EXCEPT ![s] = [rows[s] EXCEPT !.status = status,
                                     !.plan = plan, !.grace = grace]]
  BY <1>1 DEF Update
<1>4. rows' \in [Subs -> Row]
  BY <1>2, <1>3 DEF SubTypeOK
<1>5. tainted' \in [Subs -> BOOLEAN]
  <2>1. (status # rows[s].status \/ plan # rows[s].plan) \in BOOLEAN
    OBVIOUS
  <2> QED
    BY <1>1, <2>1, TaintType DEF Update, SubTypeOK
<1> QED
  BY <1>1, <1>4, <1>5 DEF Update, SubTypeOK

(* The parts of TypeOK that payments add                                   *)
PayTypeOK ==
  /\ pay \in [Payments -> PaymentRow]
  /\ approvals \in [Subs -> Nat]

(* Approve and Reject put a payment and its subscription into the frame.   *)
LEMMA ReadPendingType ==
  ASSUME SubTypeOK, PayTypeOK, NEW h \in Threads, NEW p \in Payments,
         NEW pc \in Pcs, ReadPending(h, p, pc)
  PROVE  SubTypeOK' /\ PayTypeOK'
<1> DEFINE begun == [frame[h] EXCEPT !.pc = pc, !.pay = p, !.sub = pay[p].sub]
<1>1. pay[p].sub \in Subs \cup {Nobody}
  BY DEF PayTypeOK, PaymentRow
<1>2. begun \in Frame
  BY <1>1 DEF SubTypeOK, Frame, Pcs
<1>3. frame' = [frame EXCEPT ![h] = begun]
  BY DEF ReadPending
<1>4. frame' \in [Threads -> Frame]
  BY <1>2, <1>3 DEF SubTypeOK
<1> QED
  BY <1>4 DEF ReadPending, SubTypeOK, PayTypeOK, payVars

(* Moving a due date by a month keeps the rows typed.                      *)
LEMMA AdvanceType ==
  ASSUME rows \in [Subs -> Row], NEW s,
         rows' = [rows EXCEPT ![s].due = AdvanceDueDate(s)]
  PROVE  rows' \in [Subs -> Row]
<1>1. s \in Subs => [rows[s] EXCEPT !.due = AdvanceDueDate(s)] \in Row
  BY SubscriptionsAssumption DEF Row, AdvanceDueDate
<1>2. rows' = [rows EXCEPT ![s] = [rows[s] EXCEPT !.due = AdvanceDueDate(s)]]
  OBVIOUS
<1> QED
  BY <1>1, <1>2

(* Every step of a payment request keeps the types.                        *)
LEMMA PaymentCallType ==
  ASSUME SubTypeOK, PayTypeOK, CallsNamed, NEW h \in Handlers, PaymentCall(h)
  PROVE  SubTypeOK' /\ PayTypeOK'
<1>t. h \in Threads
  BY DEF Threads
<1>p. "idle" \in Pcs /\ \A pc \in ServicePcs \cup PaymentPcs : pc \in Pcs
  BY DEF Pcs
<1>1. ASSUME NEW p \in Payments, NEW s \in Subs, CreatePayment(h, p, s)
      PROVE  SubTypeOK' /\ PayTypeOK'
  <2>1. pay' \in [Payments -> PaymentRow]
    BY <1>1 DEF CreatePayment, PayTypeOK, PaymentRow, PaymentStatuses
  <2> QED
    BY <1>1, <2>1 DEF CreatePayment, subVars, SubTypeOK, PayTypeOK
<1>2. ASSUME NEW p \in Payments, Approve(h, p) \/ Reject(h, p)
      PROVE  SubTypeOK' /\ PayTypeOK'
  <2>1. PICK pc \in Pcs : ReadPending(h, p, pc)
    BY <1>2, <1>p DEF Approve, Reject, PaymentPcs, ApprovePcs
  <2> QED
    BY <1>t, <2>1, ReadPendingType
<1>3. CASE ApproveWrite(h)
  <2> DEFINE p == frame[h].pay
             s == frame[h].sub
  <2>1. frame' \in [Threads -> Frame]
    BY <1>3, <1>t, <1>p, GotoType, ReturnType
       DEF ApproveWrite, SubTypeOK, PaymentPcs, ApprovePcs
  <2>2. \/ /\ pay' = [pay EXCEPT ![p].status = "approved"]
           /\ approvals' = [approvals EXCEPT ![s] = @ + 1]
        \/ UNCHANGED <<pay, approvals>>
    BY <1>3 DEF ApproveWrite, payVars
  <2>3. \A x \in Payments : [pay[x] EXCEPT !.status = "approved"] \in PaymentRow
    BY DEF PayTypeOK, PaymentRow, PaymentStatuses
  <2>4. PayTypeOK'
    <3> HIDE DEF p, s
    <3> QED
      BY <2>2, <2>3 DEF PayTypeOK
  <2> QED
    BY <1>3, <2>1, <2>4 DEF ApproveWrite, SubTypeOK
<1>4. CASE ApproveAdvance(h)
  <2>1. PayTypeOK'
    BY <1>4 DEF ApproveAdvance, payVars, PayTypeOK
  <2>2. CASE DBError(h)
    BY <2>1, <2>2, <1>t, DBErrorType
  <2>3. CASE ~DBError(h)
    <3>1. rows' \in [Subs -> Row]
      BY <1>4, <2>3, AdvanceType DEF ApproveAdvance, SubTypeOK
    <3>2. frame' \in [Threads -> Frame]
      BY <1>4, <2>3, <1>t, <1>p, GotoType
         DEF ApproveAdvance, SubTypeOK, PaymentPcs, ApprovePcs
    <3> QED
      BY <1>4, <2>1, <2>3, <3>1, <3>2 DEF ApproveAdvance, SubTypeOK
  <2> QED
    BY <2>2, <2>3
<1>5. CASE ApproveReread(h)
  <2>1. frame' \in [Threads -> Frame]
    BY <1>5, <1>t, <1>p, GotoType, ReturnType
       DEF ApproveReread, SubTypeOK, PaymentPcs, ApprovePcs
  <2> QED
    BY <1>5, <2>1 DEF ApproveReread, SubTypeOK, PayTypeOK, payVars
<1>6. CASE RejectWrite(h)
  <2> DEFINE p == frame[h].pay
  <2>1. frame' \in [Threads -> Frame]
    BY <1>6, <1>t, ReturnType DEF RejectWrite, SubTypeOK
  <2>2. pay' = [pay EXCEPT ![p].status = "rejected"] \/ pay' = pay
    BY <1>6 DEF RejectWrite
  <2>3. \A x \in Payments : [pay[x] EXCEPT !.status = "rejected"] \in PaymentRow
    BY DEF PayTypeOK, PaymentRow, PaymentStatuses
  <2>4. pay' \in [Payments -> PaymentRow]
    <3> HIDE DEF p
    <3> QED
      BY <2>2, <2>3 DEF PayTypeOK
  <2> QED
    BY <1>6, <2>1, <2>4 DEF RejectWrite, SubTypeOK, PayTypeOK
<1>7. CASE ApproveReconnect(h)
  <2>1. PayTypeOK'
    BY <1>7 DEF ApproveReconnect, payVars, PayTypeOK
  <2>2. CASE DBError(h)
    BY <2>1, <2>2, <1>t, DBErrorType
  <2>3. CASE ReconnectRead(h, frame[h].sub)
    <3>1. frame[h].sub \in Subs
      BY <1>7, <1>t DEF ApproveReconnect, At, CallsNamed
    <3> QED
      BY <2>1, <2>3, <3>1, <1>t, <1>p, ExecutorType
         DEF ReconnectRead, ServicePcs, ReconnectPcs
  <2> QED
    BY <1>7, <2>2, <2>3 DEF ApproveReconnect
<1> QED
  BY <1>1, <1>2, <1>3, <1>4, <1>5, <1>6, <1>7 DEF PaymentCall

(* Every step of the overdue check keeps the types.                        *)
LEMMA OverdueCheckType ==
  ASSUME TypeOK, OverdueCheck
  PROVE  TypeOK'
<1>s. SubTypeOK
  BY DEF TypeOK, SubTypeOK
<1>t. Cron \in Threads
  BY DEF Threads
<1>p. \A pc \in {"idle"} \cup OverduePcs \cup SchedulerPcs : pc \in Pcs
  BY DEF Pcs, ServicePcs
<1>k. UNCHANGED <<pay, approvals, crashes>>
  BY DEF OverdueCheck, payVars
<1>1. CASE CheckOverdue
  BY <1>1, <1>k DEF CheckOverdue, GetOverdue, subVars, TypeOK
<1>2. ASSUME NEW s \in Subs, MarkNext(s)
      PROVE  TypeOK'
  <2>1. scan' \in SUBSET Subs /\ notices' \in [Subs -> Nat]
    BY <1>2 DEF MarkNext, TypeOK
  <2>2. SubTypeOK'
    <3>1. CASE MarkOverdue(Cron, s)
      BY <3>1, <1>s, <1>t, <1>p, ExecutorType DEF MarkOverdue, OverduePcs
    <3>2. CASE UNCHANGED subVars
      BY <3>2, <1>s DEF subVars, SubTypeOK
    <3> QED
      BY <1>2, <3>1, <3>2 DEF MarkNext
  <2> QED
    BY <1>k, <2>1, <2>2 DEF TypeOK, SubTypeOK
<1>3. CASE MarkNextProfile
  <2>1. SetPPPoEProfile(Cron, Unpaid, "overdue.status")
    BY <1>3 DEF MarkNextProfile, MarkOverdueProfile
  <2>2. SubTypeOK'
    BY <2>1, <1>s, <1>t, <1>p, SetProfileType DEF OverduePcs
  <2> QED
    BY <1>3, <1>k, <2>2 DEF MarkNextProfile, schedVars, TypeOK, SubTypeOK
<1>4. CASE MarkNextStatus
  <2>1. notices' \in [Subs -> Nat]
    BY <1>4 DEF MarkNextStatus, TrackOverdue, TypeOK
  <2>2. SubTypeOK'
    <3>1. CASE DBError(Cron)
      BY <3>1, <1>s, <1>t, DBErrorType
    <3>2. CASE UpdateStatus(Cron, "overdue") /\ Goto(Cron, "overdue.sms")
      <4>1. frame' \in [Threads -> Frame]
        BY <3>2, <1>s, <1>t, <1>p, GotoType DEF SubTypeOK, SchedulerPcs
      <4>2. rows' \in [Subs -> Row]
        BY <3>2, <1>s, <1>t, UpdateStatusType DEF Statuses
      <4> QED
        BY <3>2, <1>s, <4>1, <4>2 DEF UpdateStatus, SubTypeOK
    <3> QED
      BY <1>4, <3>1, <3>2 DEF MarkNextStatus
  <2> QED
    BY <1>4, <1>k, <2>1, <2>2 DEF MarkNextStatus, TypeOK, SubTypeOK
<1>5. CASE SendDisconnectionSMS
  <2>1. frame' \in [Threads -> Frame]
    BY <1>5, <1>t, ReturnType DEF SendDisconnectionSMS, TypeOK
  <2>2. notices' \in [Subs -> Nat]
    <3> DEFINE s == frame[Cron].sub
    <3>1. notices' \in {notices, [notices EXCEPT ![s] = @ + 1]}
      BY <1>5 DEF SendDisconnectionSMS
    <3> HIDE DEF s
    <3> QED
      BY <3>1 DEF TypeOK
  <2> QED
    BY <1>5, <1>k, <2>1, <2>2 DEF SendDisconnectionSMS, TypeOK
<1> QED
  BY <1>1, <1>2, <1>3, <1>4, <1>5 DEF OverdueCheck

(* Every step of the server keeps the types.                               *)
LEMMA TypeStep ==
  ASSUME TypeOK, CallsNamed, [Next]_vars
  PROVE  TypeOK'
<1>s. SubTypeOK /\ PayTypeOK
  BY DEF TypeOK, SubTypeOK, PayTypeOK
<1>n. TrackOverdue => notices' \in [Subs -> Nat]
  BY DEF TrackOverdue, TypeOK
<1>1. ASSUME NEW h \in Handlers, HTTPCall(h)
      PROVE  TypeOK'
  <2>1. CASE SubscriptionCall(h) /\ TrackOverdue /\ UNCHANGED <<payVars, scan, crashes>>
    BY <2>1, <1>s, <1>n, SubscriptionCallType DEF payVars, TypeOK, SubTypeOK
  <2>2. CASE PaymentCall(h) /\ UNCHANGED <<schedVars, crashes>>
    BY <2>2, <1>s, PaymentCallType DEF schedVars, TypeOK, SubTypeOK, PayTypeOK
  <2> QED
    BY <1>1, <2>1, <2>2 DEF HTTPCall
<1>2. CASE EditCall
  BY <1>2, <1>s, <1>n, UpdateType DEF EditCall, payVars, TypeOK, SubTypeOK
<1>3. CASE OverdueCheck
  BY <1>3, OverdueCheckType
<1>4. CASE Day
  BY <1>4 DEF Day, Tick, payVars, schedVars, TypeOK
<1>5. CASE Restart
  <2>1. frame' \in [Threads -> Frame]
    BY <1>5 DEF Restart, Idle, Frame
  <2>2. tainted' \in [Subs -> BOOLEAN]
    BY <1>5 DEF Restart, TypeOK
  <2> QED
    BY <1>5, <2>1, <2>2 DEF Restart, payVars, TypeOK
<1>6. CASE UNCHANGED vars
  BY <1>6 DEF vars, subVars, payVars, schedVars, TypeOK
<1> QED
  BY <1>1, <1>2, <1>3, <1>4, <1>5, <1>6 DEF Next

-----------------------------------------------------------------------------
(* What a step can do to calls, rows and due dates                         *)

(* h takes a step of its call, or begins or ends one, and owes no due date *)
(* afterwards; the other goroutines stay where they are.                   *)
Proceeds(h) ==
  /\ \A x \in Threads \ {h} : frame'[x] = frame[x]
  /\ \/ frame'[h].pc = "idle"
     \/ frame[h].pc # "idle" /\ frame'[h].sub = frame[h].sub
     \/ frame'[h].sub \in Subs /\ rows'[frame'[h].sub].status # "none"
  /\ frame'[h].pc # "approve.advance"

(* No subscription appears or disappears and no due date moves.            *)
RowsKept ==
  \A s \in Subs : /\ rows'[s].due = rows[s].due
                  /\ rows'[s].status = "none" <=> rows[s].status = "none"

(* s appears, with its first due date.                                     *)
Opens(s) ==
  /\ ~Exists(s) /\ rows'[s].status # "none"
  /\ first'[s] = rows'[s].due /\ first'[s] \in Nat \ {0}
  /\ first' = [first EXCEPT ![s] = first'[s]]
  /\ \A x \in Subs \ {s} : rows'[x] = rows[x]

(* A step to another point of the call.                                    *)
LEMMA GotoProceeds ==
  ASSUME SubTypeOK, NEW h \in Threads, NEW pc, Goto(h, pc),
         frame[h].pc # "idle", pc # "approve.advance"
  PROVE  Proceeds(h)
<1>1. frame'[h] = [frame[h] EXCEPT !.pc = pc]
  BY DEF Goto, SubTypeOK
<1>2. frame'[h].pc = pc /\ frame'[h].sub = frame[h].sub
  BY <1>1 DEF SubTypeOK, Frame
<1>3. \A x \in Threads \ {h} : frame'[x] = frame[x]
  BY DEF Goto, SubTypeOK
<1> QED
  BY <1>2, <1>3 DEF Proceeds

(* The end of a call.                                                      *)
LEMMA ReturnProceeds ==
  ASSUME SubTypeOK, NEW h \in Threads, Return(h)
  PROVE  Proceeds(h)
BY DEF Return, Idle, SubTypeOK, Proceeds

(* The read of an existing row by a call.                                  *)
LEMMA ReadRowProceeds ==
  ASSUME SubTypeOK, NEW h \in Threads, NEW s \in Subs, NEW pc,
         pc # "approve.advance", Exists(s), UNCHANGED rows, ReadRow(h, s, pc)
  PROVE  Proceeds(h)
<1>1. /\ frame'[h].pc = pc
      /\ frame'[h].sub = s
  BY DEF ReadRow, SubTypeOK, Frame
<1>2. \A x \in Threads \ {h} : frame'[x] = frame[x]
  BY DEF ReadRow, SubTypeOK
<1> QED
  BY <1>1, <1>2 DEF Proceeds, Exists

(* A router command, or the decision to send none.                         *)
LEMMA CommandProceeds ==
  ASSUME SubTypeOK, NEW h \in Threads, NEW next, frame[h].pc # "idle",
         next # "approve.advance",
         \/ Skip(h, next)
         \/ \E s, possible, entry : Command(h, s, possible, entry, next)
  PROVE  Proceeds(h) /\ UNCHANGED <<rows, first>>
<1>1. Goto(h, next) /\ UNCHANGED <<rows, first>>
  BY DEF Skip, Command
<1> QED
  BY <1>1, GotoProceeds

(* A switch of a secret, a queue or a profile.                             *)
LEMMA SwitchProceeds ==
  ASSUME SubTypeOK, NEW h \in Threads, NEW to, NEW next, frame[h].pc # "idle",
         next # "approve.advance",
         \/ SwitchSecret(h, to, next)
         \/ SwitchQueue(h, to, next)
         \/ SetPPPoEProfile(h, to, next)
  PROVE  Proceeds(h) /\ UNCHANGED <<rows, first>>
<1>1. \/ Skip(h, next)
      \/ \E s, possible, entry : Command(h, s, possible, entry, next)
  BY DEF SwitchSecret, SwitchQueue, SetPPPoEProfile
<1> QED
  BY <1>1, CommandProceeds

(* The first step of Disconnect, Reconnect and MarkOverdue.                *)
LEMMA ExecutorProceeds ==
  ASSUME SubTypeOK, NEW h \in Threads, NEW s \in Subs, Exists(s),
         NEW pc, NEW statusPc, NEW settles,
         pc # "approve.advance", statusPc # "approve.advance",
         GetMTExecutor(h, s, pc, statusPc, settles),
         UNCHANGED <<now, rows, router, first>>
  PROVE  Proceeds(h) /\ UNCHANGED <<rows, first>>
<1>1. ReadRow(h, s, pc) \/ ReadRow(h, s, statusPc)
  BY DEF GetMTExecutor
<1> QED
  BY <1>1, ReadRowProceeds

(* Writing a status moves no due date.                                     *)
LEMMA StatusKept ==
  ASSUME rows \in [Subs -> Row], NEW s, NEW status \in Statuses,
         s \in Subs => Exists(s), rows' = [rows EXCEPT ![s].status = status]
  PROVE  RowsKept
BY DEF RowsKept, Exists, Statuses, Row

(* The kinds of step of a subscription request                             *)
LEMMA SubscriptionCallKinds ==
  ASSUME SubTypeOK, CallsNamed, NEW h \in Handlers, SubscriptionCall(h)
  PROVE  /\ Proceeds(h)
         /\ \/ UNCHANGED first /\ RowsKept
            \/ \E s \in Subs : Opens(s)
<1> USE SubscriptionsAssumption
<1> DEFINE Goal == /\ Proceeds(h)
                   /\ \/ UNCHANGED first /\ RowsKept
                      \/ \E s \in Subs : Opens(s)
<1>t. h \in Threads
  BY DEF Threads
<1>k. UNCHANGED <<rows, first>> => UNCHANGED first /\ RowsKept
  BY DEF RowsKept
<1>e. DBError(h) => Goal
  <2>1. DBError(h) => Return(h) /\ UNCHANGED <<rows, first>>
    BY DEF DBError
  <2> QED
    BY <2>1, <1>t, <1>k, ReturnProceeds
<1>1. ASSUME NEW s \in Subs, NEW plan \in Plans, NEW grace \in Graces,
             NEW day \in 1..Month, Create(h, s, plan, grace, day)
      PROVE  Goal
  <2>1. FirstDue(day) \in Nat \ {0}
    BY DEF FirstDue, SubTypeOK
  <2>2. Opens(s)
    BY <1>1, <2>1 DEF Create, NewRow, Opens, Exists, SubTypeOK
  <2>3. \/ frame'[h].pc = "create.plan" /\ frame'[h].sub = s
        \/ frame' = frame
    <3> DEFINE begun == [frame[h] EXCEPT !.pc = "create.plan", !.sub = s,
                                         !.plan = plan]
    <3>1. begun.pc = "create.plan" /\ begun.sub = s
      BY <1>t DEF SubTypeOK, Frame
    <3>2. \/ frame' = [frame EXCEPT ![h] = begun]
          \/ frame' = frame
      BY <1>1 DEF Create
    <3>3. frame' = [frame EXCEPT ![h] = begun] => frame'[h] = begun
      BY <1>t DEF SubTypeOK
    <3> HIDE DEF begun
    <3> QED
      BY <3>1, <3>2, <3>3
  <2>4. \A x \in Threads \ {h} : frame'[x] = frame[x]
    BY <1>1, <1>t DEF Create, SubTypeOK
  <2>5. frame[h].pc = "idle"
    BY <1>1 DEF Create, At
  <2>6. Proceeds(h)
    BY <2>2, <2>3, <2>4, <2>5 DEF Proceeds, Opens
  <2> QED
    BY <2>2, <2>6
<1>2. CASE CreateReadPlan(h)
  BY <1>2, <1>t, <1>k, GotoProceeds, ReturnProceeds DEF CreateReadPlan, At
<1>3. CASE AddPPPoESecret(h)
  <2>1. frame[h].pc = "create.secret"
    BY <1>3 DEF AddPPPoESecret, At
  <2>2. \/ Skip(h, "create.queue")
        \/ \E s, possible, entry : Command(h, s, possible, entry, "create.queue")
    BY <1>3 DEF AddPPPoESecret
  <2> QED
    BY <1>t, <1>k, <2>1, <2>2, CommandProceeds
<1>4. CASE CreateQueue(h)
  BY <1>4, <1>t, <1>k, GotoProceeds, ReturnProceeds DEF CreateQueue, At
<1>5. CASE UpdateMikroTikQueueID(h)
  <2>1. CASE ~DBError(h)
    <3>1. /\ Return(h) /\ UNCHANGED first
          /\ rows' = [rows EXCEPT ![frame[h].sub].queue = TRUE]
      BY <1>5, <2>1 DEF UpdateMikroTikQueueID
    <3>2. RowsKept
      BY <3>1 DEF RowsKept, SubTypeOK, Row
    <3> QED
      BY <3>1, <3>2, <1>t, ReturnProceeds
  <2> QED
    BY <2>1, <1>e
<1>6. ASSUME NEW s \in Subs, Disconnect(h, s) \/ Reconnect(h, s)
      PROVE  Goal
  BY <1>6, <1>t, <1>k, ExecutorProceeds
     DEF Disconnect, Reconnect, ReconnectRead
<1>7. CASE DisconnectPPPoE(h) \/ ReconnectPPPoE(h)
  BY <1>7, <1>t, <1>k, SwitchProceeds DEF DisconnectPPPoE, ReconnectPPPoE, At
<1>8. CASE DisconnectQueue(h) \/ ReconnectQueue(h)
  BY <1>8, <1>t, <1>k, SwitchProceeds DEF DisconnectQueue, ReconnectQueue, At
<1>9. CASE ReconnectProfile(h)
  <2>1. frame[h].pc # "idle"
    BY <1>9 DEF ReconnectProfile, At
  <2>2. CASE SetPPPoEProfile(h, planProfile(frame[h].plan), "reconnect.queue")
    BY <1>t, <1>k, <2>1, <2>2, SwitchProceeds
  <2>3. CASE Goto(h, "reconnect.queue") /\ UNCHANGED <<rows, first>>
    BY <1>t, <1>k, <2>1, <2>3, GotoProceeds
  <2> QED
    BY <1>9, <2>2, <2>3 DEF ReconnectProfile
<1>10. CASE DisconnectStatus(h) \/ ReconnectStatus(h)
  <2>1. CASE ~DBError(h)
    <3>1. PICK status \in Statuses : UpdateStatus(h, status) /\ Return(h)
      BY <1>10, <2>1 DEF DisconnectStatus, ReconnectStatus, Statuses
    <3>2. frame[h].sub \in Subs /\ Exists(frame[h].sub)
      BY <1>10, <1>t DEF DisconnectStatus, ReconnectStatus, At, CallsNamed
    <3>3. RowsKept
      BY <3>1, <3>2, StatusKept DEF UpdateStatus, SubTypeOK
    <3> QED
      BY <3>1, <3>3, <1>t, ReturnProceeds DEF UpdateStatus
  <2> QED
    BY <2>1, <1>e
<1> QED
  BY <1>1, <1>2, <1>3, <1>4, <1>5, <1>6, <1>7, <1>8, <1>9, <1>10
     DEF SubscriptionCall

(* The list of the overdue check names subscriptions that exist.           *)
ScanNamed == \A s \in scan : Exists(s)

(* No call comes to owe a due date: each stays, ends or goes on elsewhere. *)
GoesOn(x) ==
  \/ frame'[x] = frame[x]
  \/ /\ frame'[x].pc # "approve.advance"
     /\ \/ frame'[x].pc = "idle"
        \/ frame[x].pc # "idle" /\ frame'[x].sub = frame[x].sub
        \/ frame'[x].sub \in Subs /\ rows'[frame'[x].sub].status # "none"

(* The kinds of step, as far as calls, rows and due dates are concerned    *)
Keeps ==
  /\ \A x \in Threads : GoesOn(x)
  /\ UNCHANGED <<first, approvals>>
  /\ RowsKept

OpensOne ==
  /\ \A x \in Threads : GoesOn(x)
  /\ \E s \in Subs : Opens(s)
  /\ UNCHANGED approvals

Records(h) ==
  LET s == frame[h].sub
  IN  /\ frame[h].pc = "approve.write"
      /\ approvals' = [approvals EXCEPT ![s] = @ + 1]
      /\ \A x \in Threads \ {h} : frame'[x] = frame[x]
      /\ \/ frame'[h].pc = "idle"
         \/ frame'[h].pc = "approve.advance" /\ frame'[h].sub = s
      /\ UNCHANGED <<rows, first>>

Credits(h) ==
  LET s == frame[h].sub
  IN  /\ frame[h].pc = "approve.advance"
      /\ rows' = [rows EXCEPT ![s].due = AdvanceDueDate(s)]
      /\ Proceeds(h)
      /\ UNCHANGED <<first, approvals>>

(* A pending payment was pending before or is one of an existing row.      *)
PendingKept ==
  \A p \in Payments :
    pay'[p].status = "pending" =>
      \/ pay'[p] = pay[p]
      \/ pay'[p].sub \in Subs /\ Exists(pay'[p].sub)

(* The kinds of step of a payment request                                  *)
LEMMA PaymentCallKinds ==
  ASSUME SubTypeOK, PayTypeOK, CallsNamed, PaymentsNamed,
         NEW h \in Handlers, PaymentCall(h)
  PROVE  /\ PendingKept
         /\ Keeps \/ Records(h) \/ Credits(h)
<1> DEFINE Goal == PendingKept /\ (Keeps \/ Records(h) \/ Credits(h))
<1>t. h \in Threads
  BY DEF Threads
<1>k. ASSUME UNCHANGED <<rows, first, approvals>>, Proceeds(h) \/ UNCHANGED frame
      PROVE  Keeps
  BY <1>k DEF Keeps, GoesOn, Proceeds, RowsKept
<1>p. UNCHANGED pay => PendingKept
  BY DEF PendingKept
<1>e. ASSUME DBError(h), UNCHANGED payVars
      PROVE  Goal
  <2>1. Return(h) /\ UNCHANGED <<rows, first, approvals, pay>>
    BY <1>e DEF DBError, payVars
  <2> QED
    BY <2>1, <1>t, <1>k, <1>p, ReturnProceeds
<1>1. ASSUME NEW p \in Payments, NEW s \in Subs, CreatePayment(h, p, s)
      PROVE  Goal
  <2>1. PendingKept
    BY <1>1 DEF CreatePayment, PendingKept, PayTypeOK
  <2>2. UNCHANGED <<rows, first, approvals, frame>>
    BY <1>1 DEF CreatePayment, subVars
  <2> QED
    BY <2>1, <2>2, <1>k
<1>2. ASSUME NEW p \in Payments, Approve(h, p) \/ Reject(h, p)
      PROVE  Goal
  <2>1. PICK pc \in {"approve.write", "reject.write"} : ReadPending(h, p, pc)
    BY <1>2 DEF Approve, Reject
  <2>2. pay[p].sub \in Subs /\ Exists(pay[p].sub)
    BY <2>1 DEF ReadPending, PaymentsNamed
  <2>3. frame'[h].pc = pc /\ frame'[h].sub = pay[p].sub
    <3> DEFINE begun == [frame[h] EXCEPT !.pc = pc, !.pay = p,
                                         !.sub = pay[p].sub]
    <3>1. begun.pc = pc /\ begun.sub = pay[p].sub
      BY <1>t DEF SubTypeOK, Frame
    <3>2. frame' = [frame EXCEPT ![h] = begun]
      BY <2>1 DEF ReadPending
    <3>3. frame'[h] = begun
      BY <3>2, <1>t DEF SubTypeOK
    <3> QED
      BY <3>1, <3>3
  <2>4. \A x \in Threads \ {h} : frame'[x] = frame[x]
    BY <2>1, <1>t DEF ReadPending, SubTypeOK
  <2>5. UNCHANGED <<rows, first, approvals, pay>>
    BY <2>1 DEF ReadPending, payVars
  <2>6. Proceeds(h)
    BY <2>2, <2>3, <2>4, <2>5 DEF Proceeds, Exists
  <2> QED
    BY <2>5, <2>6, <1>k, <1>p
<1>3. CASE ApproveWrite(h)
  <2>1. PendingKept
    BY <1>3 DEF ApproveWrite, payVars, PendingKept, PayTypeOK, PaymentRow
  <2>2. frame[h].pc = "approve.write" /\ UNCHANGED <<rows, first>>
    BY <1>3 DEF ApproveWrite, At
  <2>3. CASE Return(h) /\ UNCHANGED approvals
    BY <2>1, <2>2, <2>3, <1>t, <1>k, ReturnProceeds
  <2>4. CASE /\ approvals' = [approvals EXCEPT ![frame[h].sub] = @ + 1]
             /\ Return(h)
    <3>1. \A x \in Threads \ {h} : frame'[x] = frame[x]
      BY <2>4, <1>t DEF Return, SubTypeOK
    <3>2. frame'[h].pc = "idle"
      BY <2>4, <1>t DEF Return, Idle, SubTypeOK
    <3> QED
      BY <2>1, <2>2, <2>4, <3>1, <3>2 DEF Records
  <2>5. CASE /\ approvals' = [approvals EXCEPT ![frame[h].sub] = @ + 1]
             /\ Goto(h, "approve.advance")
    <3>1. \A x \in Threads \ {h} : frame'[x] = frame[x]
      BY <2>5, <1>t DEF Goto, SubTypeOK
    <3>2. frame'[h].pc = "approve.advance" /\ frame'[h].sub = frame[h].sub
      <4>1. frame'[h] = [frame[h] EXCEPT !.pc = "approve.advance"]
        BY <2>5, <1>t DEF Goto, SubTypeOK
      <4> QED
        BY <4>1, <1>t DEF SubTypeOK, Frame
    <3> QED
      BY <2>1, <2>2, <2>5, <3>1, <3>2 DEF Records
  <2> QED
    BY <1>3, <2>3, <2>4, <2>5 DEF ApproveWrite, payVars
<1>4. CASE ApproveAdvance(h)
  <2>1. UNCHANGED payVars
    BY <1>4 DEF ApproveAdvance
  <2>2. CASE ~DBError(h)
    <3>1. /\ frame[h].pc = "approve.advance" /\ UNCHANGED first
          /\ rows' = [rows EXCEPT ![frame[h].sub].due
                                    = AdvanceDueDate(frame[h].sub)]
          /\ Goto(h, "approve.reread")
      BY <1>4, <2>2 DEF ApproveAdvance, At
    <3>2. Proceeds(h)
      BY <3>1, <1>t, GotoProceeds
    <3> QED
      BY <2>1, <3>1, <3>2, <1>p DEF Credits, payVars
  <2> QED
    BY <2>1, <2>2, <1>e
<1>5. CASE ApproveReread(h)
  <2>1. /\ UNCHANGED <<rows, first, approvals, pay>>
        /\ frame[h].pc # "idle"
        /\ Goto(h, "approve.reconnect") \/ Return(h)
    BY <1>5 DEF ApproveReread, payVars, At
  <2> QED
    BY <2>1, <1>t, <1>k, <1>p, GotoProceeds, ReturnProceeds
<1>6. CASE ApproveReconnect(h)
  <2>1. UNCHANGED payVars /\ frame[h].pc # "idle"
    BY <1>6 DEF ApproveReconnect, At
  <2>2. CASE ReconnectRead(h, frame[h].sub)
    <3>1. frame[h].sub \in Subs /\ Exists(frame[h].sub)
      BY <2>1, <1>t DEF CallsNamed
    <3>2. Proceeds(h) /\ UNCHANGED <<rows, first>>
      BY <2>2, <3>1, <1>t, ExecutorProceeds DEF ReconnectRead
    <3> QED
      BY <2>1, <3>2, <1>k, <1>p DEF payVars
  <2> QED
    BY <1>6, <2>1, <2>2, <1>e DEF ApproveReconnect
<1>7. CASE RejectWrite(h)
  <2>1. PendingKept
    BY <1>7 DEF RejectWrite, PendingKept, PayTypeOK, PaymentRow
  <2> QED
    BY <1>7, <2>1, <1>t, <1>k, ReturnProceeds DEF RejectWrite
<1> QED
  BY <1>1, <1>2, <1>3, <1>4, <1>5, <1>6, <1>7 DEF PaymentCall

(* The kinds of step of the server                                         *)
LEMMA StepKinds ==
  ASSUME TypeOK, CallsNamed, PaymentsNamed, ScanNamed, [Next]_vars
  PROVE  /\ PendingKept
         /\ Keeps \/ OpensOne \/ \E h \in Threads : Records(h) \/ Credits(h)
<1> DEFINE Goal ==
      /\ PendingKept
      /\ Keeps \/ OpensOne \/ \E h \in Threads : Records(h) \/ Credits(h)
<1>s. SubTypeOK /\ PayTypeOK
  BY DEF TypeOK, SubTypeOK, PayTypeOK
<1>t. Cron \in Threads /\ \A h \in Handlers : h \in Threads
  BY DEF Threads
<1>p. UNCHANGED pay => PendingKept
  BY DEF PendingKept
<1>k. ASSUME UNCHANGED <<first, approvals>>, RowsKept,
             UNCHANGED frame \/ \E h \in Threads : Proceeds(h)
      PROVE  Keeps
  BY <1>k DEF Keeps, GoesOn, Proceeds
<1>r. UNCHANGED rows => RowsKept
  BY DEF RowsKept
<1>1. ASSUME NEW h \in Handlers, HTTPCall(h)
      PROVE  Goal
  <2>1. CASE SubscriptionCall(h) /\ UNCHANGED payVars
    <3>1. /\ Proceeds(h)
          /\ \/ UNCHANGED first /\ RowsKept
             \/ \E s \in Subs : Opens(s)
      BY <2>1, <1>s, SubscriptionCallKinds
    <3>2. UNCHANGED <<pay, approvals>>
      BY <2>1 DEF payVars
    <3>3. CASE UNCHANGED first /\ RowsKept
      BY <3>1, <3>2, <3>3, <1>t, <1>k, <1>p
    <3>4. CASE \E s \in Subs : Opens(s)
      BY <3>1, <3>2, <3>4, <1>t, <1>p DEF OpensOne, GoesOn, Proceeds
    <3> QED
      BY <3>1, <3>3, <3>4
  <2>2. CASE PaymentCall(h)
    BY <2>2, <1>s, <1>t, PaymentCallKinds
  <2> QED
    BY <1>1, <2>1, <2>2 DEF HTTPCall
<1>2. CASE EditCall
  <2>1. UNCHANGED <<first, approvals, pay, frame>>
    BY <1>2 DEF EditCall, SubscriptionUpdate, Update, payVars
  <2>2. RowsKept
    BY <1>2, <1>s DEF EditCall, SubscriptionUpdate, Update, RowsKept, Exists,
                      Statuses, SubTypeOK, Row
  <2> QED
    BY <2>1, <2>2, <1>k, <1>p
<1>3. CASE OverdueCheck
  <2>0. UNCHANGED <<pay, approvals>>
    BY <1>3 DEF OverdueCheck, payVars
  <2>1. CASE CheckOverdue
    BY <2>0, <2>1, <1>k, <1>p, <1>r DEF CheckOverdue, subVars
  <2>2. ASSUME NEW s \in Subs, MarkNext(s)
        PROVE  Goal
    <3>1. CASE UNCHANGED subVars
      BY <2>0, <3>1, <1>k, <1>p, <1>r DEF subVars
    <3>2. CASE MarkOverdue(Cron, s) /\ Exists(s)
      BY <2>0, <3>2, <1>s, <1>t, <1>k, <1>p, <1>r, ExecutorProceeds
         DEF MarkOverdue
    <3> QED
      BY <2>2, <3>1, <3>2 DEF MarkNext, ScanNamed
  <2>3. CASE MarkNextProfile
    <3>1. /\ frame[Cron].pc # "idle"
          /\ SetPPPoEProfile(Cron, Unpaid, "overdue.status")
      BY <2>3 DEF MarkNextProfile, MarkOverdueProfile, At
    <3> QED
      BY <2>0, <3>1, <1>s, <1>t, <1>k, <1>p, <1>r, SwitchProceeds
  <2>4. CASE MarkNextStatus
    <3>1. frame[Cron].pc # "idle"
      BY <2>4 DEF MarkNextStatus, At
    <3>2. CASE DBError(Cron)
      BY <2>0, <3>2, <1>s, <1>t, <1>k, <1>p, <1>r, ReturnProceeds DEF DBError
    <3>3. CASE UpdateStatus(Cron, "overdue") /\ Goto(Cron, "overdue.sms")
      <4>1. Proceeds(Cron)
        BY <3>1, <3>3, <1>s, <1>t, GotoProceeds
      <4>2. frame[Cron].sub \in Subs /\ Exists(frame[Cron].sub)
        BY <3>1, <1>t DEF CallsNamed
      <4>3. RowsKept
        BY <3>3, <4>2, <1>s, StatusKept DEF UpdateStatus, SubTypeOK, Statuses
      <4> QED
        BY <2>0, <3>3, <4>1, <4>3, <1>t, <1>k, <1>p DEF UpdateStatus
    <3> QED
      BY <2>4, <3>2, <3>3 DEF MarkNextStatus
  <2>5. CASE SendDisconnectionSMS
    BY <2>0, <2>5, <1>s, <1>t, <1>k, <1>p, <1>r, ReturnProceeds
       DEF SendDisconnectionSMS
  <2> QED
    BY <1>3, <2>1, <2>2, <2>3, <2>4, <2>5 DEF OverdueCheck
<1>4. CASE Day
  BY <1>4, <1>k, <1>p, <1>r DEF Day, Tick, payVars
<1>5. CASE Restart
  <2>1. \A x \in Threads : GoesOn(x)
    BY <1>5 DEF Restart, Idle, GoesOn
  <2> QED
    BY <1>5, <2>1, <1>p, <1>r DEF Restart, payVars, Keeps
<1>6. CASE UNCHANGED vars
  BY <1>6, <1>k, <1>p, <1>r DEF vars, subVars, payVars
<1> QED
  BY <1>1, <1>2, <1>3, <1>4, <1>5, <1>6 DEF Next

-----------------------------------------------------------------------------
(* The inductive invariant of types and names                              *)

Named == TypeOK /\ CallsNamed /\ PaymentsNamed /\ ScanNamed

(* Subscriptions do not disappear.                                         *)
LEMMA RowsStay ==
  ASSUME Named, [Next]_vars
  PROVE  \A s \in Subs : Exists(s) => Exists(s)'
<1>1. Keeps \/ OpensOne \/ \E h \in Threads : Records(h) \/ Credits(h)
  BY StepKinds DEF Named
<1>2. CASE Keeps
  BY <1>2 DEF Keeps, RowsKept, Exists
<1>3. CASE OpensOne
  BY <1>3 DEF OpensOne, Opens, Exists
<1>4. ASSUME NEW h \in Threads, Records(h) \/ Credits(h)
      PROVE  \A s \in Subs : Exists(s) => Exists(s)'
  <2>1. CASE Records(h)
    BY <2>1 DEF Records, Exists
  <2>2. CASE Credits(h)
    <3>1. rows' = [rows EXCEPT ![frame[h].sub].due = AdvanceDueDate(frame[h].sub)]
      BY <2>2 DEF Credits
    <3>2. \A s \in Subs : rows'[s].status = rows[s].status
      BY <3>1 DEF Named, TypeOK, Row
    <3> QED BY <3>2 DEF Exists
  <2> QED BY <1>4, <2>1, <2>2
<1> QED
  BY <1>1, <1>2, <1>3, <1>4

(* The list is a part of the last list, or a fresh one.                    *)
LEMMA ScanStep ==
  ASSUME [Next]_vars
  PROVE  scan' \subseteq scan \/ (scan' = GetOverdue /\ UNCHANGED rows)
BY DEF Next, HTTPCall, EditCall, OverdueCheck, Day, Restart, CheckOverdue,
       MarkNext, MarkNextProfile, MarkNextStatus, SendDisconnectionSMS, vars,
       schedVars, subVars

(* Every step of the server preserves the invariant.                       *)
LEMMA NamedStep ==
  ASSUME Named, [Next]_vars
  PROVE  Named'
<1>1. TypeOK'
  BY TypeStep DEF Named
<1>2. \A s \in Subs : Exists(s) => Exists(s)'
  BY RowsStay
<1>3. /\ PendingKept
      /\ Keeps \/ OpensOne \/ \E h \in Threads : Records(h) \/ Credits(h)
  BY StepKinds DEF Named
<1>4. ScanNamed'
  <2>1. scan \subseteq Subs /\ scan' \subseteq Subs
    BY <1>1 DEF Named, TypeOK
  <2>2. CASE scan' \subseteq scan
    BY <1>2, <2>1, <2>2 DEF Named, ScanNamed
  <2>3. CASE scan' = GetOverdue /\ UNCHANGED rows
    BY <2>3 DEF ScanNamed, GetOverdue, Exists
  <2> QED
    BY <2>2, <2>3, ScanStep
<1>5. PaymentsNamed'
  BY <1>2, <1>3 DEF PendingKept, PaymentsNamed, Named
<1>6. CallsNamed'
  <2>1. CASE Keeps \/ OpensOne
    BY <1>2, <2>1 DEF Keeps, OpensOne, GoesOn, CallsNamed, Named, Exists
  <2>2. ASSUME NEW h \in Threads, Records(h)
        PROVE  CallsNamed'
    BY <1>2, <2>2 DEF Records, CallsNamed, Named
  <2>3. ASSUME NEW h \in Threads, Credits(h)
        PROVE  CallsNamed'
    BY <1>2, <2>3 DEF Credits, Proceeds, CallsNamed, Named, Exists
  <2> QED
    BY <1>3, <2>1, <2>2, <2>3
<1> QED
  BY <1>1, <1>4, <1>5, <1>6 DEF Named

(* The server starts with typed values, no calls, no payments and no list. *)
LEMMA NamedInit == Init => Named
<1> SUFFICES ASSUME Init
             PROVE  Named
  OBVIOUS
<1>1. TypeOK
  BY DEF Init, SubscriptionsInit, PaymentsInit, SchedulerInit, TypeOK, NoRow,
         Row, RouterEntry, Switch, Idle, Frame, PaymentRow, PaymentStatuses
<1>2. CallsNamed /\ PaymentsNamed /\ ScanNamed
  BY DEF Init, SubscriptionsInit, PaymentsInit, SchedulerInit, Idle,
         CallsNamed, PaymentsNamed, ScanNamed
<1> QED
  BY <1>1, <1>2 DEF Named

(* Calls, pending payments and the list of the overdue check name only     *)
(* subscriptions that exist.                                               *)
LEMMA AlwaysNamed == Spec => []Named
BY NamedInit, NamedStep, PTL DEF Spec

(***************************************************************************)
(* In every state of the server, whatever fails and however often it is    *)
(* restarted, tables, router, calls and scheduler hold values of their     *)
(* types; in particular no call works on a subscription that is not there. *)
(***************************************************************************)
THEOREM TypeCorrect == Spec => []TypeOK
<1>1. Named => TypeOK
  BY DEF Named
<1> QED
  BY <1>1, AlwaysNamed, PTL

-----------------------------------------------------------------------------
(* Due dates against approvals                                             *)

(* The calls that approved a payment of s and have yet to move its date    *)
Owed(s) == {h \in Threads : frame[h].pc = "approve.advance" /\ frame[h].sub = s}

(* A row has a due date from the moment it appears.                        *)
Dated == \A s \in Subs : Exists(s) <=> rows[s].due # 0

(* Counting the months still owed, no date is beyond what was approved.    *)
Covered ==
  \A s \in Subs :
    rows[s].due + Month * Cardinality(Owed(s)) <= first[s] + Month * approvals[s]

CreditInv == Named /\ Dated /\ Covered

(* There are finitely many goroutines to owe a month.                      *)
LEMMA OwedFinite ==
  ASSUME NEW s
  PROVE  IsFiniteSet(Owed(s)) /\ Cardinality(Owed(s)) \in Nat
<1>1. IsFiniteSet(Threads)
  <2>1. Threads = Handlers \cup {Cron}
    BY DEF Threads
  <2> QED
    BY <2>1, SubscriptionsAssumption, FS_AddElement
<1>2. Owed(s) \subseteq Threads
  BY DEF Owed
<1> QED
  BY <1>1, <1>2, FS_Subset, FS_CardinalityType

(* The same of the goroutines after a step.                                *)
LEMMA OwedFiniteNext ==
  ASSUME NEW s
  PROVE  IsFiniteSet(Owed(s)') /\ Cardinality(Owed(s)') \in Nat
<1>1. IsFiniteSet(Threads)
  <2>1. Threads = Handlers \cup {Cron}
    BY DEF Threads
  <2> QED
    BY <2>1, SubscriptionsAssumption, FS_AddElement
<1>2. Owed(s)' \subseteq Threads
  BY DEF Owed
<1> QED
  BY <1>1, <1>2, FS_Subset, FS_CardinalityType

(* Fewer months owed are fewer days, one more is one month.                *)
LEMMA MonthTimes ==
  ASSUME NEW a \in Nat, NEW b \in Nat, a <= b
  PROVE  /\ Month * a \in Nat /\ Month * b \in Nat
         /\ Month * a <= Month * b
         /\ Month * (b + 1) = Month * b + Month
BY SubscriptionsAssumption

(* Calls that go on owe no more than before.                               *)
LEMMA OwedShrinks ==
  ASSUME \A x \in Threads : GoesOn(x), NEW s
  PROVE  Month * Cardinality(Owed(s)') <= Month * Cardinality(Owed(s))
<1>1. Owed(s)' \subseteq Owed(s)
  BY DEF Owed, GoesOn
<1>2. Cardinality(Owed(s)') <= Cardinality(Owed(s))
  BY <1>1, OwedFinite, FS_Subset
<1> QED
  BY <1>2, OwedFinite, OwedFiniteNext, MonthTimes

(* Every step keeps the dates covered.                                     *)
LEMMA CoveredStep ==
  ASSUME CreditInv, [Next]_vars
  PROVE  Covered'
<1> USE SubscriptionsAssumption
<1> SUFFICES ASSUME NEW s \in Subs
             PROVE  rows'[s].due + Month * Cardinality(Owed(s)')
                      <= first'[s] + Month * approvals'[s]
  BY DEF Covered
<1> DEFINE before == Cardinality(Owed(s))
           after == Cardinality(Owed(s)')
<1>n. before \in Nat /\ after \in Nat
  BY OwedFinite, OwedFiniteNext
<1>t. /\ rows[s].due \in Nat /\ first[s] \in Nat /\ approvals[s] \in Nat
      /\ rows \in [Subs -> Row] /\ approvals \in [Subs -> Nat]
  BY DEF CreditInv, Named, TypeOK, Row
<1>c. rows[s].due + Month * before <= first[s] + Month * approvals[s]
  BY DEF CreditInv, Covered
<1>m. Month * before \in Nat /\ Month * after \in Nat /\ Month * approvals[s] \in Nat
  BY <1>n, <1>t, MonthTimes
<1>1. Keeps \/ OpensOne \/ \E h \in Threads : Records(h) \/ Credits(h)
  BY StepKinds DEF CreditInv, Named
<1>2. CASE Keeps
  <2>1. Month * after <= Month * before
    BY <1>2, OwedShrinks DEF Keeps
  <2>2. rows'[s].due = rows[s].due /\ UNCHANGED <<first, approvals>>
    BY <1>2 DEF Keeps, RowsKept
  <2> QED
    BY <1>c, <1>t, <1>m, <2>1, <2>2
<1>3. CASE OpensOne
  <2>1. Month * after <= Month * before
    BY <1>3, OwedShrinks DEF OpensOne
  <2>2. PICK o \in Subs : Opens(o)
    BY <1>3 DEF OpensOne
  <2>3. UNCHANGED approvals
    BY <1>3 DEF OpensOne
  <2>4. CASE s = o
    <3>1. Owed(s)' = {}
      BY <1>3, <2>2, <2>4
         DEF OpensOne, Opens, Owed, GoesOn, CreditInv, Named, CallsNamed
    <3>2. Month * after = 0
      BY <3>1, FS_EmptySet
    <3>3. rows'[s].due = first'[s] /\ first'[s] \in Nat
      BY <2>2, <2>4 DEF Opens
    <3> QED
      BY <1>t, <1>m, <2>3, <3>2, <3>3
  <2>5. CASE s # o
    <3>1. rows'[s] = rows[s]
      BY <2>2, <2>5 DEF Opens
    <3>2. first'[s] = first[s]
      BY <2>2, <2>5 DEF Opens, CreditInv, Named, TypeOK
    <3> QED
      BY <1>c, <1>t, <1>m, <2>1, <2>3, <3>1, <3>2
  <2> QED
    BY <2>4, <2>5
<1>4. ASSUME NEW h \in Threads, Records(h)
      PROVE  rows'[s].due + Month * after <= first'[s] + Month * approvals'[s]
  <2>1. UNCHANGED <<rows, first>>
    BY <1>4 DEF Records
  <2>2. CASE frame[h].sub = s
    <3>1. Owed(s)' \subseteq Owed(s) \cup {h}
      BY <1>4 DEF Records, Owed
    <3>2. IsFiniteSet(Owed(s) \cup {h}) /\ Cardinality(Owed(s) \cup {h}) <= before + 1
      <4>1. Cardinality(Owed(s) \cup {h}) \in {before, before + 1}
        BY OwedFinite, FS_AddElement
      <4> QED
        BY <4>1, <1>n, OwedFinite, FS_AddElement
    <3>3. Cardinality(Owed(s) \cup {h}) \in Nat
      BY <3>2, FS_CardinalityType
    <3>4. after <= Cardinality(Owed(s) \cup {h})
      BY <3>1, <3>2, FS_Subset
    <3>5. after <= before + 1
      BY <1>n, <3>2, <3>3, <3>4
    <3>6. Month * after <= Month * before + Month
      <4> HIDE DEF before, after
      <4>1. Month * after <= Month * (before + 1)
        BY <1>n, <3>5, MonthTimes
      <4>2. Month * (before + 1) = Month * before + Month
        BY <1>n, MonthTimes
      <4> QED
        BY <4>1, <4>2
    <3>7. approvals'[s] = approvals[s] + 1
      BY <1>4, <1>t, <2>2 DEF Records
    <3>8. Month * approvals'[s] = Month * approvals[s] + Month
      BY <1>t, <3>7, MonthTimes
    <3> HIDE DEF before, after
    <3> QED
      BY <1>c, <1>t, <1>m, <2>1, <3>6, <3>8
  <2>3. CASE frame[h].sub # s
    <3>1. Owed(s)' \subseteq Owed(s)
      BY <1>4, <2>3 DEF Records, Owed
    <3>2. after <= before
      BY <3>1, OwedFinite, FS_Subset
    <3>3. Month * after <= Month * before
      BY <1>n, <3>2, MonthTimes
    <3>4. approvals'[s] = approvals[s]
      BY <1>4, <1>t, <2>3 DEF Records
    <3> HIDE DEF before, after
    <3> QED
      BY <1>c, <1>t, <1>m, <2>1, <3>3, <3>4
  <2> QED
    BY <2>2, <2>3
<1>5. ASSUME NEW h \in Threads, Credits(h)
      PROVE  rows'[s].due + Month * after <= first'[s] + Month * approvals'[s]
  <2>1. UNCHANGED <<first, approvals>>
    BY <1>5 DEF Credits
  <2>2. Owed(s)' \subseteq Owed(s) \ {h}
    BY <1>5 DEF Credits, Proceeds, Owed
  <2>3. CASE frame[h].sub = s
    <3>1. h \in Owed(s)
      BY <1>5, <2>3 DEF Credits, Owed
    <3>2. /\ IsFiniteSet(Owed(s) \ {h})
          /\ Cardinality(Owed(s) \ {h}) = before - 1
      BY <3>1, OwedFinite, FS_RemoveElement
    <3>3. after <= before - 1
      BY <2>2, <3>2, FS_Subset
    <3>4. Month * after + Month <= Month * before
      <4> HIDE DEF before, after
      <4>1. Month * (after + 1) <= Month * before
        BY <1>n, <3>3, MonthTimes
      <4>2. Month * (after + 1) = Month * after + Month
        BY <1>n, MonthTimes
      <4> QED
        BY <4>1, <4>2
    <3>5. rows'[s].due = rows[s].due + Month
      BY <1>5, <1>t, <2>3 DEF Credits, AdvanceDueDate, Row
    <3> HIDE DEF before, after
    <3> QED
      BY <1>c, <1>t, <1>m, <2>1, <3>4, <3>5
  <2>4. CASE frame[h].sub # s
    <3>1. after <= before
      BY <2>2, OwedFinite, FS_Subset
    <3>2. Month * after <= Month * before
      BY <1>n, <3>1, MonthTimes
    <3>3. rows'[s].due = rows[s].due
      BY <1>5, <1>t, <2>4 DEF Credits
    <3> HIDE DEF before, after
    <3> QED
      BY <1>c, <1>t, <1>m, <2>1, <3>2, <3>3
  <2> QED
    BY <2>3, <2>4
<1> QED
  BY <1>1, <1>2, <1>3, <1>4, <1>5

(* Every step keeps rows and due dates together.                           *)
LEMMA DatedStep ==
  ASSUME CreditInv, [Next]_vars
  PROVE  Dated'
<1> USE SubscriptionsAssumption
<1>1. Keeps \/ OpensOne \/ \E h \in Threads : Records(h) \/ Credits(h)
  BY StepKinds DEF CreditInv, Named
<1>2. CASE Keeps
  BY <1>2 DEF Keeps, RowsKept, Exists, Dated, CreditInv
<1>3. CASE OpensOne
  BY <1>3 DEF OpensOne, Opens, Exists, Dated, CreditInv
<1>4. ASSUME NEW h \in Threads, Records(h)
      PROVE  Dated'
  BY <1>4 DEF Records, Exists, Dated, CreditInv
<1>5. ASSUME NEW h \in Threads, Credits(h)
      PROVE  Dated'
  <2>1. frame[h].sub \in Subs /\ Exists(frame[h].sub)
    BY <1>5 DEF Credits, CreditInv, Named, CallsNamed
  <2>2. \A s \in Subs : rows[s].due \in Nat
    BY DEF CreditInv, Named, TypeOK, Row
  <2>3. \A s \in Subs :
          /\ rows'[s].status = rows[s].status
          /\ rows'[s].due = IF s = frame[h].sub THEN rows[s].due + Month
                                                ELSE rows[s].due
    BY <1>5 DEF Credits, AdvanceDueDate, CreditInv, Named, TypeOK, Row
  <2> QED
    BY <2>1, <2>2, <2>3 DEF Dated, CreditInv, Exists
<1> QED
  BY <1>1, <1>2, <1>3, <1>4, <1>5

(* At first there is no row, no date and no call.                          *)
LEMMA CreditInit == Init => CreditInv
<1> SUFFICES ASSUME Init
             PROVE  CreditInv
  OBVIOUS
<1>1. Named
  BY NamedInit
<1>2. Dated
  BY DEF Init, SubscriptionsInit, NoRow, Dated, Exists
<1>3. ASSUME NEW s \in Subs
      PROVE  rows[s].due + Month * Cardinality(Owed(s))
               <= first[s] + Month * approvals[s]
  <2>1. Owed(s) = {}
    BY DEF Init, SubscriptionsInit, Idle, Owed
  <2>2. Cardinality(Owed(s)) = 0
    BY <2>1, FS_EmptySet
  <2>3. rows[s].due = 0 /\ first[s] = 0 /\ approvals[s] = 0
    BY DEF Init, SubscriptionsInit, PaymentsInit, NoRow
  <2> QED
    BY <2>2, <2>3, SubscriptionsAssumption
<1> QED
  BY <1>1, <1>2, <1>3 DEF CreditInv, Covered

(* Due dates, with the months still owed, are covered by approvals.        *)
LEMMA AlwaysCovered == Spec => []CreditInv
<1>1. CreditInv /\ [Next]_vars => CreditInv'
  BY NamedStep, DatedStep, CoveredStep DEF CreditInv
<1> QED
  BY <1>1, CreditInit, PTL DEF Spec

(***************************************************************************)
(* No interleaving of requests, no failed statement and no restart moves a *)
(* due date further than one month per UPDATE that approved a payment.     *)
(***************************************************************************)
THEOREM CreditNeverExceedsApprovals == Spec => []NeverOverCredited
<1>1. CreditInv => NeverOverCredited
  <2> SUFFICES ASSUME CreditInv, NEW s \in Subs
               PROVE  rows[s].due <= first[s] + Month * approvals[s]
    BY DEF NeverOverCredited
  <2>1. rows[s].due \in Nat /\ first[s] \in Nat /\ approvals[s] \in Nat
    BY DEF CreditInv, Named, TypeOK, Row
  <2>2. /\ Month * Cardinality(Owed(s)) \in Nat
        /\ Month * approvals[s] \in Nat
    BY <2>1, OwedFinite, MonthTimes
  <2>3. rows[s].due + Month * Cardinality(Owed(s))
          <= first[s] + Month * approvals[s]
    BY DEF CreditInv, Covered
  <2> QED
    BY <2>1, <2>2, <2>3
<1> QED
  BY <1>1, AlwaysCovered, PTL

-----------------------------------------------------------------------------
(* The ledger                                                              *)

(* A step of the server is one step of the ledger, or none.                *)
LEMMA LedgerStep ==
  ASSUME CreditInv, CreditInv', [Next]_vars
  PROVE  [Ledger!Next]_(Ledger!vars)
<1> DEFINE paidTo == [s \in Subs |-> rows[s].due]
<1>t. /\ rows \in [Subs -> Row] /\ first \in [Subs -> Nat]
      /\ approvals \in [Subs -> Nat] /\ rows' \in [Subs -> Row]
  BY DEF CreditInv, Named, TypeOK
<1>1. Keeps \/ OpensOne \/ \E h \in Threads : Records(h) \/ Credits(h)
  BY StepKinds DEF CreditInv, Named
<1>2. CASE Keeps
  BY <1>2 DEF Keeps, RowsKept, Ledger!vars
<1>3. CASE OpensOne
  <2>1. PICK s \in Subs : Opens(s)
    BY <1>3 DEF OpensOne
  <2>2. paidTo[s] = 0
    BY <2>1 DEF Opens, CreditInv, Dated
  <2>3. paidTo' = [paidTo EXCEPT ![s] = first'[s]]
    BY <2>1 DEF Opens
  <2>4. Ledger!Open(s)
    BY <1>3, <2>1, <2>2, <2>3 DEF OpensOne, Opens, Ledger!Open
  <2> QED
    BY <2>4 DEF Ledger!Next
<1>4. ASSUME NEW h \in Threads, Records(h)
      PROVE  Ledger!Next
  <2>0. frame[h].sub \in Subs /\ Exists(frame[h].sub)
    BY <1>4 DEF Records, CreditInv, Named, CallsNamed
  <2>1. PICK s \in Subs : s = frame[h].sub /\ rows[s].due # 0
    BY <2>0 DEF CreditInv, Dated
  <2>2. Ledger!Receive(s)
    BY <1>4, <2>1 DEF Records, Ledger!Receive
  <2> QED
    BY <2>1, <2>2 DEF Ledger!Next
<1>5. ASSUME NEW h \in Threads, Credits(h)
      PROVE  Ledger!Next
  <2>0. frame[h].sub \in Subs /\ Exists(frame[h].sub)
    BY <1>5 DEF Credits, CreditInv, Named, CallsNamed
  <2>1. PICK s \in Subs : s = frame[h].sub /\ rows[s].due # 0
    BY <2>0 DEF CreditInv, Dated
  <2>2. UNCHANGED <<first, approvals>>
    BY <1>5 DEF Credits
  <2>3. paidTo' = [paidTo EXCEPT ![s] = @ + Month]
    BY <1>5, <1>t, <2>1 DEF Credits, AdvanceDueDate, Row
  <2>4. paidTo[s] + Month <= first[s] + Month * approvals[s]
    <3>1. rows'[s].due <= first'[s] + Month * approvals'[s]
      <4>1. /\ rows'[s].due \in Nat /\ first'[s] \in Nat
            /\ approvals'[s] \in Nat
        BY <1>t, <2>1, <2>2 DEF Row
      <4>2. /\ Month * Cardinality(Owed(s)') \in Nat
            /\ Month * approvals'[s] \in Nat
        BY <4>1, OwedFiniteNext, MonthTimes
      <4>3. rows'[s].due + Month * Cardinality(Owed(s)')
              <= first'[s] + Month * approvals'[s]
        BY DEF CreditInv, Covered
      <4> QED
        BY <2>1, <4>1, <4>2, <4>3
    <3>2. rows'[s].due = rows[s].due + Month
      BY <1>5, <1>t, <2>1 DEF Credits, AdvanceDueDate, Row
    <3> QED
      BY <2>1, <2>2, <3>1, <3>2
  <2>5. Ledger!Credit(s)
    BY <2>1, <2>2, <2>3, <2>4 DEF Ledger!Credit
  <2> QED
    BY <2>1, <2>5 DEF Ledger!Next
<1> QED
  BY <1>1, <1>2, <1>3, <1>4, <1>5

(***************************************************************************)
(* The billing core implements the ledger: rows are opened once, dates     *)
(* move by whole months, and only on approvals that were recorded before.  *)
(***************************************************************************)
THEOREM BillingImplementsLedger == Spec => ImplementsLedger
<1>1. Init => Ledger!Init
  BY DEF Init, SubscriptionsInit, PaymentsInit, NoRow, Ledger!Init
<1>2. CreditInv /\ CreditInv' /\ [Next]_vars => [Ledger!Next]_(Ledger!vars)
  BY LedgerStep
<1> QED
  BY <1>1, <1>2, AlwaysCovered, PTL DEF Spec, ImplementsLedger, Ledger!Spec

-----------------------------------------------------------------------------
(* The overdue check, interleaved with every request, with edits and with  *)
(* restarts: a customer is told of a disconnection at most once.           *)

(***************************************************************************)
(* Wherever the check stands: an overdue subscription it is still going to *)
(* reach, or is just marking, has had no notice of this disconnection, nor *)
(* has the one whose notice is about to be sent, and the check never comes *)
(* back to the subscription it is busy with.                               *)
(***************************************************************************)
ToldAtMostOnce(s) ==
  /\ notices[s] <= 1
  /\ s \in scan /\ rows[s].status = "overdue" => notices[s] = 0
  /\ frame[Cron].sub = s =>
       /\ frame[Cron].pc \in OverduePcs /\ rows[s].status = "overdue"
            => notices[s] = 0
       /\ frame[Cron].pc = "overdue.sms" => notices[s] = 0
       /\ frame[Cron].pc # "idle" => s \notin scan

NoticeInv == Named /\ \A s \in Subs : ToldAtMostOnce(s)

(* Notices are forgotten when, and only when, a disconnection begins or    *)
(* ends.                                                                   *)
NoticesFollow ==
  \A s \in Subs :
    notices'[s] =
      IF (rows[s].status = "overdue") # (rows'[s].status = "overdue")
      THEN 0 ELSE notices[s]

(* The check's own position is not disturbed.                              *)
CheckKept ==
  /\ frame'[Cron] = frame[Cron]
  /\ scan' \subseteq scan
  /\ NoticesFollow

(* What the history variable records is the following just stated.         *)
LEMMA TrackFollows ==
  ASSUME TrackOverdue
  PROVE  NoticesFollow
BY DEF TrackOverdue, NoticesFollow

(* Where no status changes, no notice does.                                *)
LEMMA KeptFollows ==
  ASSUME UNCHANGED notices,
         \A s \in Subs : rows'[s].status = rows[s].status
  PROVE  NoticesFollow
BY DEF NoticesFollow

(* A payment request leaves statuses, list and check alone.                *)
LEMMA PaymentKeepsCheck ==
  ASSUME Named, NEW h \in Handlers, PaymentCall(h), UNCHANGED schedVars
  PROVE  CheckKept
<1>t. h \in Threads /\ Cron \in Threads /\ h # Cron
  BY SubscriptionsAssumption DEF Threads
<1>f. frame \in [Threads -> Frame] /\ rows \in [Subs -> Row]
  BY DEF Named, TypeOK
<1>1. /\ frame'[Cron] = frame[Cron]
      /\ \A s \in Subs : rows'[s].status = rows[s].status
  <2>1. ASSUME Return(h) \/ \E pc : Goto(h, pc)
        PROVE  frame'[Cron] = frame[Cron]
    BY <2>1, <1>t, <1>f DEF Return, Goto
  <2>2. ASSUME NEW s, NEW pc, ReadRow(h, s, pc)
        PROVE  frame'[Cron] = frame[Cron]
    BY <2>2, <1>t, <1>f DEF ReadRow
  <2>3. ASSUME NEW p \in Payments, NEW s \in Subs, CreatePayment(h, p, s)
        PROVE  UNCHANGED <<frame, rows>>
    BY <2>3 DEF CreatePayment, subVars
  <2>4. ASSUME NEW p \in Payments, Approve(h, p) \/ Reject(h, p)
        PROVE  frame'[Cron] = frame[Cron] /\ UNCHANGED rows
    BY <2>4, <1>t, <1>f DEF Approve, Reject, ReadPending
  <2>5. CASE ApproveWrite(h)
    BY <2>5, <2>1 DEF ApproveWrite
  <2>6. CASE ApproveAdvance(h)
    <3>1. frame'[Cron] = frame[Cron]
      BY <2>6, <2>1 DEF ApproveAdvance, DBError
    <3>2. \/ UNCHANGED rows
          \/ rows' = [rows EXCEPT ![frame[h].sub].due
                                    = AdvanceDueDate(frame[h].sub)]
      BY <2>6 DEF ApproveAdvance, DBError
    <3>3. \A s \in Subs : rows'[s].status = rows[s].status
      BY <3>2, <1>f DEF Row
    <3> QED
      BY <3>1, <3>3
  <2>7. CASE ApproveReread(h)
    BY <2>7, <2>1 DEF ApproveReread
  <2>8. CASE ApproveReconnect(h)
    BY <2>8, <2>1, <2>2
       DEF ApproveReconnect, ReconnectRead, GetMTExecutor, DBError
  <2>9. CASE RejectWrite(h)
    BY <2>9, <2>1 DEF RejectWrite
  <2> QED
    BY <2>3, <2>4, <2>5, <2>6, <2>7, <2>8, <2>9 DEF PaymentCall
<1> QED
  BY <1>1, KeptFollows DEF CheckKept, schedVars

(* So does every other request, but for the statuses the history follows.  *)
LEMMA RequestKeepsCheck ==
  ASSUME Named, NEW h \in Handlers, HTTPCall(h)
  PROVE  CheckKept
<1>1. CASE SubscriptionCall(h) /\ TrackOverdue /\ UNCHANGED scan
  <2>1. Cron \in Threads \ {h}
    BY SubscriptionsAssumption DEF Threads
  <2>2. Proceeds(h)
    BY <1>1, SubscriptionCallKinds DEF Named, TypeOK, SubTypeOK
  <2> QED
    BY <1>1, <2>1, <2>2, TrackFollows DEF Proceeds, CheckKept
<1>2. CASE PaymentCall(h) /\ UNCHANGED schedVars
  BY <1>2, PaymentKeepsCheck
<1> QED
  BY <1>1, <1>2 DEF HTTPCall

(* A step that leaves the check alone tells nobody anything.               *)
LEMMA CheckKeptStep ==
  ASSUME NoticeInv, CheckKept
  PROVE  \A s \in Subs : ToldAtMostOnce(s)'
<1> SUFFICES ASSUME NEW s \in Subs
             PROVE  ToldAtMostOnce(s)'
  OBVIOUS
<1>1. ToldAtMostOnce(s) /\ notices[s] \in Nat
  BY DEF NoticeInv, Named, TypeOK
<1>2. CASE notices'[s] = 0
  BY <1>1, <1>2 DEF ToldAtMostOnce, CheckKept
<1>3. CASE /\ notices'[s] = notices[s]
           /\ (rows[s].status = "overdue") <=> (rows'[s].status = "overdue")
  BY <1>1, <1>3 DEF ToldAtMostOnce, CheckKept
<1> QED
  BY <1>2, <1>3 DEF CheckKept, NoticesFollow

(* Each step of the check itself                                           *)
LEMMA CheckStep ==
  ASSUME NoticeInv, OverdueCheck
  PROVE  \A s \in Subs : ToldAtMostOnce(s)'
<1> SUFFICES ASSUME NEW s \in Subs
             PROVE  ToldAtMostOnce(s)'
  OBVIOUS
<1>t. Cron \in Threads
  BY DEF Threads
<1>f. /\ frame \in [Threads -> Frame] /\ rows \in [Subs -> Row]
      /\ notices \in [Subs -> Nat]
  BY DEF NoticeInv, Named, TypeOK
<1>i. ToldAtMostOnce(s)
  BY DEF NoticeInv
<1>r. Return(Cron) => frame'[Cron].pc = "idle"
  BY <1>t, <1>f DEF Return, Idle
<1>g. ASSUME NEW pc, Goto(Cron, pc)
      PROVE  frame'[Cron].pc = pc /\ frame'[Cron].sub = frame[Cron].sub
  <2>1. frame'[Cron] = [frame[Cron] EXCEPT !.pc = pc]
    BY <1>g, <1>t, <1>f DEF Goto
  <2> QED
    BY <2>1, <1>t, <1>f DEF Frame
<1>1. CASE CheckOverdue
  BY <1>1, <1>i DEF CheckOverdue, subVars, GetOverdue, At, ToldAtMostOnce,
                    OverduePcs
<1>2. ASSUME NEW x \in Subs, MarkNext(x)
      PROVE  ToldAtMostOnce(s)'
  <2>1. /\ x \in scan /\ scan' = scan \ {x} /\ UNCHANGED <<notices, rows>>
        /\ frame[Cron].pc = "idle"
    BY <1>2 DEF MarkNext, MarkOverdue, subVars, At
  <2>2. CASE UNCHANGED frame
    BY <1>i, <2>1, <2>2 DEF ToldAtMostOnce, OverduePcs
  <2>3. ASSUME NEW pc \in OverduePcs, ReadRow(Cron, x, pc)
        PROVE  ToldAtMostOnce(s)'
    <3>1. frame'[Cron].pc = pc /\ frame'[Cron].sub = x
      BY <2>3, <1>t, <1>f DEF ReadRow, Frame
    <3> QED
      BY <1>i, <2>1, <3>1, <2>3 DEF ToldAtMostOnce, OverduePcs
  <2>4. \/ UNCHANGED frame
        \/ \E pc \in OverduePcs : ReadRow(Cron, x, pc)
    BY <1>2 DEF MarkNext, MarkOverdue, GetMTExecutor, subVars, OverduePcs
  <2> QED
    BY <2>2, <2>3, <2>4
<1>3. CASE MarkNextProfile
  <2>1. /\ frame[Cron].pc = "overdue.profile" /\ Goto(Cron, "overdue.status")
        /\ UNCHANGED <<scan, notices, rows>>
    BY <1>3 DEF MarkNextProfile, MarkOverdueProfile, SetPPPoEProfile, Command,
                Skip, schedVars, At
  <2>2. frame'[Cron].pc = "overdue.status" /\ frame'[Cron].sub = frame[Cron].sub
    BY <1>g, <2>1
  <2> QED
    BY <1>i, <2>1, <2>2 DEF ToldAtMostOnce, OverduePcs
<1>4. CASE MarkNextStatus
  <2>1. UNCHANGED scan /\ NoticesFollow /\ frame[Cron].pc = "overdue.status"
    BY <1>4, TrackFollows DEF MarkNextStatus, At
  <2>2. CASE DBError(Cron)
    <3>1. frame'[Cron].pc = "idle" /\ UNCHANGED rows
      BY <1>r, <2>2 DEF DBError
    <3>2. notices'[s] = notices[s]
      BY <2>1, <3>1 DEF NoticesFollow
    <3> QED
      BY <1>i, <2>1, <3>1, <3>2 DEF ToldAtMostOnce, OverduePcs
  <2>3. CASE UpdateStatus(Cron, "overdue") /\ Goto(Cron, "overdue.sms")
    <3>1. frame'[Cron].pc = "overdue.sms" /\ frame'[Cron].sub = frame[Cron].sub
      BY <1>g, <2>3
    <3>2. rows' = [rows EXCEPT ![frame[Cron].sub].status = "overdue"]
      BY <2>3 DEF UpdateStatus
    <3>3. CASE frame[Cron].sub = s
      <4>1. rows'[s].status = "overdue"
        BY <3>2, <3>3, <1>f DEF Row
      <4>2. notices'[s] = 0
        BY <1>i, <2>1, <3>3, <4>1 DEF NoticesFollow, ToldAtMostOnce, OverduePcs
      <4> QED
        BY <1>i, <2>1, <3>1, <3>3, <4>2 DEF ToldAtMostOnce, OverduePcs
    <3>4. CASE frame[Cron].sub # s
      <4>1. rows'[s] = rows[s]
        BY <3>2, <3>4, <1>f
      <4>2. notices'[s] = notices[s]
        BY <2>1, <4>1 DEF NoticesFollow
      <4> QED
        BY <1>i, <2>1, <3>1, <3>4, <4>1, <4>2 DEF ToldAtMostOnce, OverduePcs
    <3> QED
      BY <3>3, <3>4
  <2> QED
    BY <1>4, <2>2, <2>3 DEF MarkNextStatus
<1>5. CASE SendDisconnectionSMS
  <2>1. /\ frame[Cron].pc = "overdue.sms" /\ frame'[Cron].pc = "idle"
        /\ UNCHANGED <<scan, rows>>
        /\ notices' \in {notices, [notices EXCEPT ![frame[Cron].sub] = @ + 1]}
    BY <1>5, <1>r DEF SendDisconnectionSMS, At
  <2>2. CASE frame[Cron].sub = s
    <3>1. notices[s] = 0 /\ s \notin scan
      BY <1>i, <2>1, <2>2 DEF ToldAtMostOnce
    <3>2. notices'[s] \in {0, 1}
      BY <2>1, <2>2, <3>1, <1>f
    <3> QED
      BY <2>1, <3>1, <3>2 DEF ToldAtMostOnce, OverduePcs
  <2>3. CASE frame[Cron].sub # s
    <3>1. notices'[s] = notices[s]
      BY <2>1, <2>3, <1>f
    <3> QED
      BY <1>i, <2>1, <3>1 DEF ToldAtMostOnce, OverduePcs
  <2> QED
    BY <2>2, <2>3
<1> QED
  BY <1>1, <1>2, <1>3, <1>4, <1>5 DEF OverdueCheck

(* Every step of the server preserves the invariant.                       *)
LEMMA NoticeStep ==
  ASSUME NoticeInv, [Next]_vars
  PROVE  NoticeInv'
<1>n. Named'
  BY NamedStep DEF NoticeInv
<1>1. ASSUME NEW h \in Handlers, HTTPCall(h)
      PROVE  CheckKept
  BY <1>1, RequestKeepsCheck DEF NoticeInv
<1>2. ASSUME EditCall
      PROVE  CheckKept
  BY <1>2, TrackFollows
     DEF EditCall, SubscriptionUpdate, Update, CheckKept
<1>3. ASSUME Day \/ UNCHANGED vars
      PROVE  CheckKept
  BY <1>3, KeptFollows
     DEF Day, Tick, vars, subVars, schedVars, CheckKept
<1>4. CASE Restart
  <2>1. Cron \in Threads
    BY DEF Threads
  <2>2. frame'[Cron].pc = "idle" /\ scan' = {} /\ UNCHANGED <<rows, notices>>
    BY <1>4, <2>1 DEF Restart, Idle
  <2>3. \A s \in Subs : ToldAtMostOnce(s)'
    BY <2>2 DEF NoticeInv, ToldAtMostOnce, OverduePcs
  <2> QED
    BY <1>n, <2>3 DEF NoticeInv
<1> QED
  BY <1>n, <1>1, <1>2, <1>3, <1>4, CheckKeptStep, CheckStep DEF Next, NoticeInv

(* Nobody has been told anything when the server starts.                   *)
LEMMA NoticeInit == Init => NoticeInv
BY NamedInit DEF Init, SchedulerInit, NoticeInv, ToldAtMostOnce,
   SubscriptionsInit, Idle, NoRow, Threads

(***************************************************************************)
(* However requests, edits, days, failures and restarts fall between the   *)
(* steps of the hourly check, a customer gets at most one notice for one   *)
(* period of being overdue.                                                *)
(***************************************************************************)
THEOREM AtMostOneNotice == Spec => []OneNoticePerDisconnection
<1>1. NoticeInv => OneNoticePerDisconnection
  BY DEF NoticeInv, ToldAtMostOnce, OneNoticePerDisconnection
<1> QED
  BY <1>1, NoticeInit, NoticeStep, PTL DEF Spec

-----------------------------------------------------------------------------
(***************************************************************************)
(* While the database answers and the server stays up, every approval      *)
(* reaches the due date, however many are under way at once.               *)
(***************************************************************************)

(* Counting the months still owed, each date is what was approved.         *)
Exact ==
  \A s \in Subs :
    rows[s].due + Month * Cardinality(Owed(s)) = first[s] + Month * approvals[s]

ExactInv == CreditInv /\ Exact

(* A subscription request has no business with an approval's next step.    *)
LEMMA RequestOwesNothing ==
  ASSUME NEW h \in Handlers, SubscriptionCall(h)
  PROVE  frame[h].pc # "approve.advance"
BY DEF SubscriptionCall, Create, CreateReadPlan, AddPPPoESecret, CreateQueue,
       UpdateMikroTikQueueID, Disconnect, DisconnectPPPoE, DisconnectQueue,
       DisconnectStatus, Reconnect, ReconnectPPPoE, ReconnectProfile,
       ReconnectQueue, ReconnectStatus, At

(* Nor has the overdue check.                                              *)
LEMMA CheckOwesNothing ==
  ASSUME Named, OverdueCheck
  PROVE  /\ \A x \in Threads :
              frame[x].pc = "approve.advance" => frame'[x] = frame[x]
         /\ UNCHANGED approvals
<1>t. Cron \in Threads /\ frame \in [Threads -> Frame]
  BY DEF Threads, Named, TypeOK
<1>1. frame[Cron].pc # "approve.advance" \/ UNCHANGED frame
  BY DEF OverdueCheck, CheckOverdue, MarkNext, MarkNextProfile,
         MarkOverdueProfile, MarkNextStatus, SendDisconnectionSMS, subVars, At
<1>2. ASSUME Return(Cron) \/ \E pc : Goto(Cron, pc)
      PROVE  \A x \in Threads \ {Cron} : frame'[x] = frame[x]
  BY <1>2, <1>t DEF Return, Goto
<1>3. ASSUME NEW s, NEW pc, ReadRow(Cron, s, pc)
      PROVE  \A x \in Threads \ {Cron} : frame'[x] = frame[x]
  BY <1>3, <1>t DEF ReadRow
<1>4. \A x \in Threads \ {Cron} : frame'[x] = frame[x]
  <2>1. CASE CheckOverdue
    BY <2>1 DEF CheckOverdue, subVars
  <2>2. ASSUME NEW s \in Subs, MarkNext(s)
        PROVE  \A x \in Threads \ {Cron} : frame'[x] = frame[x]
    BY <2>2, <1>3 DEF MarkNext, MarkOverdue, GetMTExecutor, subVars
  <2>3. CASE MarkNextProfile
    BY <2>3, <1>2 DEF MarkNextProfile, MarkOverdueProfile, SetPPPoEProfile,
                      Command, Skip
  <2>4. CASE MarkNextStatus
    BY <2>4, <1>2 DEF MarkNextStatus, DBError
  <2>5. CASE SendDisconnectionSMS
    BY <2>5, <1>2 DEF SendDisconnectionSMS
  <2> QED
    BY <2>1, <2>2, <2>3, <2>4, <2>5 DEF OverdueCheck
<1> QED
  BY <1>1, <1>4 DEF OverdueCheck, payVars

(* An approval recorded by a payment request is followed up, and what it   *)
(* owes is forgotten only by paying it.                                    *)
LEMMA PaymentKeepsPromise ==
  ASSUME Named, DBFails = FALSE, NEW h \in Handlers, PaymentCall(h)
  PROVE  /\ \A x \in Threads \ {h} : frame'[x] = frame[x]
         /\ frame[h].pc = "approve.advance" => Credits(h)
         /\ UNCHANGED approvals
              \/ /\ frame[h].pc = "approve.write"
                 /\ frame'[h].pc = "approve.advance"
                 /\ frame'[h].sub = frame[h].sub
<1>t. h \in Threads /\ frame \in [Threads -> Frame] /\ SubTypeOK
  BY DEF Threads, Named, TypeOK, SubTypeOK
<1>r. ASSUME Return(h) \/ \E pc : Goto(h, pc)
      PROVE  \A x \in Threads \ {h} : frame'[x] = frame[x]
  BY <1>r, <1>t DEF Return, Goto
<1> DEFINE Goal == /\ \A x \in Threads \ {h} : frame'[x] = frame[x]
                   /\ frame[h].pc = "approve.advance" => Credits(h)
                   /\ UNCHANGED approvals
                        \/ /\ frame[h].pc = "approve.write"
                           /\ frame'[h].pc = "approve.advance"
                           /\ frame'[h].sub = frame[h].sub
<1>1. ASSUME NEW p \in Payments, NEW s \in Subs, CreatePayment(h, p, s)
      PROVE  Goal
  BY <1>1 DEF CreatePayment, subVars, At
<1>2. ASSUME NEW p \in Payments, Approve(h, p) \/ Reject(h, p)
      PROVE  Goal
  BY <1>2, <1>t DEF Approve, Reject, ReadPending, payVars, At
<1>3. CASE ApproveWrite(h)
  <2>1. frame[h].pc = "approve.write" /\ Goto(h, "approve.advance")
    BY <1>3 DEF ApproveWrite, At
  <2>2. frame'[h] = [frame[h] EXCEPT !.pc = "approve.advance"]
    BY <2>1, <1>t DEF Goto
  <2>3. frame'[h].pc = "approve.advance" /\ frame'[h].sub = frame[h].sub
    BY <2>2, <1>t DEF Frame
  <2> QED
    BY <2>1, <2>3, <1>r
<1>4. CASE ApproveAdvance(h)
  <2>1. /\ frame[h].pc = "approve.advance" /\ Goto(h, "approve.reread")
        /\ rows' = [rows EXCEPT ![frame[h].sub].due
                                  = AdvanceDueDate(frame[h].sub)]
        /\ UNCHANGED <<first, approvals>>
    BY <1>4 DEF ApproveAdvance, DBError, payVars, At
  <2>2. Proceeds(h)
    BY <2>1, <1>t, GotoProceeds
  <2> QED
    BY <2>1, <2>2, <1>r DEF Credits
<1>5. CASE ApproveReread(h)
  BY <1>5, <1>r DEF ApproveReread, payVars, At
<1>6. CASE ApproveReconnect(h)
  <2>1. /\ frame[h].pc = "approve.reconnect" /\ UNCHANGED approvals
        /\ \E pc : ReadRow(h, frame[h].sub, pc)
    BY <1>6 DEF ApproveReconnect, ReconnectRead, GetMTExecutor, DBError,
                payVars, At
  <2> QED
    BY <2>1, <1>t DEF ReadRow
<1>7. CASE RejectWrite(h)
  BY <1>7, <1>r DEF RejectWrite, At
<1> QED
  BY <1>1, <1>2, <1>3, <1>4, <1>5, <1>6, <1>7 DEF PaymentCall

(* The same of every step of the server                                    *)
LEMMA PromiseKept ==
  ASSUME Named, DBFails = FALSE, MaxCrashes = 0, [Next]_vars
  PROVE  /\ \A x \in Threads :
              frame[x].pc = "approve.advance" =>
                frame'[x] = frame[x] \/ Credits(x)
         /\ \/ UNCHANGED approvals
            \/ \E g \in Threads : /\ frame[g].pc = "approve.write"
                                  /\ frame'[g].pc = "approve.advance"
                                  /\ frame'[g].sub = frame[g].sub
<1>t. Handlers \subseteq Threads /\ SubTypeOK
  BY DEF Threads, Named, TypeOK, SubTypeOK
<1>1. ASSUME NEW h \in Handlers, SubscriptionCall(h), UNCHANGED approvals
      PROVE  \A x \in Threads :
               frame[x].pc = "approve.advance" => frame'[x] = frame[x]
  <2>1. Proceeds(h) /\ frame[h].pc # "approve.advance"
    BY <1>1, <1>t, SubscriptionCallKinds, RequestOwesNothing DEF Named
  <2> QED
    BY <2>1 DEF Proceeds
<1>2. ASSUME EditCall \/ Day \/ UNCHANGED vars
      PROVE  UNCHANGED <<frame, approvals>>
  BY <1>2 DEF EditCall, SubscriptionUpdate, Update, Day, Tick, vars, subVars,
              payVars
<1>3. ~Restart
  BY DEF Restart, Named, TypeOK
<1>4. ASSUME NEW h \in Handlers, HTTPCall(h)
      PROVE  /\ \A x \in Threads :
                  frame[x].pc = "approve.advance" =>
                    frame'[x] = frame[x] \/ Credits(x)
             /\ \/ UNCHANGED approvals
                \/ \E g \in Threads : /\ frame[g].pc = "approve.write"
                                      /\ frame'[g].pc = "approve.advance"
                                      /\ frame'[g].sub = frame[g].sub
  <2>1. CASE SubscriptionCall(h) /\ UNCHANGED approvals
    BY <1>1, <2>1
  <2>2. CASE PaymentCall(h)
    BY <1>t, <2>2, PaymentKeepsPromise
  <2> QED
    BY <1>4, <2>1, <2>2 DEF HTTPCall, payVars
<1> QED
  BY <1>2, <1>3, <1>4, CheckOwesNothing DEF Next

(* Multiplication by a month                                               *)
LEMMA MonthMore ==
  ASSUME NEW a \in Nat
  PROVE  /\ Month * a \in Nat
         /\ Month * (a + 1) = Month * a + Month
BY SubscriptionsAssumption

(* Every step keeps the dates exact.                                       *)
LEMMA ExactStep ==
  ASSUME ExactInv, DBFails = FALSE, MaxCrashes = 0, [Next]_vars
  PROVE  Exact'
<1> SUFFICES ASSUME NEW s \in Subs
             PROVE  rows'[s].due + Month * Cardinality(Owed(s)')
                      = first'[s] + Month * approvals'[s]
  BY DEF Exact
<1> DEFINE before == Cardinality(Owed(s))
           after == Cardinality(Owed(s)')
           Goal == rows'[s].due + Month * after = first'[s] + Month * approvals'[s]
<1>n. before \in Nat /\ after \in Nat
  BY OwedFinite, OwedFiniteNext
<1>t. /\ rows[s].due \in Nat /\ first[s] \in Nat /\ approvals[s] \in Nat
      /\ rows \in [Subs -> Row] /\ approvals \in [Subs -> Nat]
      /\ first \in [Subs -> Nat] /\ Month \in Nat \ {0}
  BY SubscriptionsAssumption DEF ExactInv, CreditInv, Named, TypeOK, Row
<1>c. rows[s].due + Month * before = first[s] + Month * approvals[s]
  BY DEF ExactInv, Exact
<1>m. /\ Month * before \in Nat /\ Month * after \in Nat
      /\ Month * approvals[s] \in Nat
  BY <1>n, <1>t, MonthMore
<1>k. Keeps \/ OpensOne \/ \E h \in Threads : Records(h) \/ Credits(h)
  BY StepKinds DEF ExactInv, CreditInv, Named
<1>p. /\ \A x \in Threads :
           frame[x].pc = "approve.advance" => frame'[x] = frame[x] \/ Credits(x)
      /\ \/ UNCHANGED approvals
         \/ \E g \in Threads : /\ frame[g].pc = "approve.write"
                               /\ frame'[g].pc = "approve.advance"
                               /\ frame'[g].sub = frame[g].sub
  BY PromiseKept DEF ExactInv, CreditInv
<1>d. ASSUME NEW x \in Threads, Credits(x)
      PROVE  /\ frame[x].sub \in Subs /\ Exists(frame[x].sub)
             /\ rows'[frame[x].sub].due = rows[frame[x].sub].due + Month
             /\ \A o \in Subs : rows'[o].status = rows[o].status
             /\ \A o \in Subs \ {frame[x].sub} : rows'[o] = rows[o]
  <2>1. frame[x].sub \in Subs /\ Exists(frame[x].sub)
    BY <1>d DEF Credits, ExactInv, CreditInv, Named, CallsNamed
  <2> QED
    BY <1>d, <2>1, <1>t DEF Credits, AdvanceDueDate, Row
<1>1. CASE Keeps
  <2>1. \A x \in Threads : ~Credits(x)
    <3>1. \A o \in Subs : rows[o].due \in Nat
      BY <1>t DEF Row
    <3> QED
      BY <1>1, <1>d, <1>t, <3>1 DEF Keeps, RowsKept
  <2>2. Owed(s)' = Owed(s)
    BY <1>1, <1>p, <2>1 DEF Keeps, GoesOn, Owed
  <2> QED
    BY <1>1, <1>c, <2>2 DEF Keeps, RowsKept
<1>2. CASE OpensOne
  <2>1. PICK o \in Subs : Opens(o)
    BY <1>2 DEF OpensOne
  <2>2. \A x \in Threads : ~Credits(x)
    BY <1>d, <2>1 DEF Opens, Exists
  <2>3. Owed(s)' = Owed(s)
    BY <1>2, <1>p, <2>2 DEF OpensOne, GoesOn, Owed
  <2>4. UNCHANGED approvals
    BY <1>2 DEF OpensOne
  <2>5. CASE s = o
    <3>1. Owed(s) = {}
      BY <2>1, <2>5 DEF Opens, Owed, ExactInv, CreditInv, Named, CallsNamed, Exists
    <3>2. rows'[s].due = first'[s]
      BY <2>1, <2>5 DEF Opens
    <3>3. rows[s].due = 0
      BY <2>1, <2>5 DEF Opens, ExactInv, CreditInv, Dated
    <3>4. Month * before = 0
      <4>1. before = 0
        BY <3>1, FS_EmptySet
      <4> HIDE DEF before
      <4> QED
        BY <1>t, <4>1
    <3>5. Month * approvals[s] = 0
      BY <1>c, <1>t, <1>m, <3>3, <3>4
    <3> QED
      BY <1>t, <2>3, <2>4, <3>2, <3>4, <3>5
  <2>6. CASE s # o
    BY <1>c, <1>t, <2>1, <2>3, <2>4, <2>6 DEF Opens
  <2> QED
    BY <2>5, <2>6
<1>3. ASSUME NEW h \in Threads, Records(h)
      PROVE  Goal
  <2>1. UNCHANGED <<rows, first>> /\ frame[h].pc = "approve.write"
    BY <1>3 DEF Records
  <2>2. \A x \in Threads : ~Credits(x)
    <3>1. \A o \in Subs : rows[o].due \in Nat
      BY <1>t DEF Row
    <3> QED
      BY <1>d, <1>t, <2>1, <3>1
  <2>3. approvals'[frame[h].sub] = approvals[frame[h].sub] + 1 /\ frame[h].sub \in Subs
    BY <1>3, <1>t, <2>1
       DEF Records, ExactInv, CreditInv, Named, CallsNamed
  <2>4. frame'[h].pc = "approve.advance" /\ frame'[h].sub = frame[h].sub
    <3>1. approvals' # approvals
      BY <1>t, <2>3
    <3> QED
      BY <1>3, <1>p, <3>1 DEF Records
  <2>5. CASE frame[h].sub = s
    <3>1. Owed(s)' = Owed(s) \cup {h} /\ h \notin Owed(s)
      BY <1>3, <2>1, <2>4, <2>5 DEF Records, Owed
    <3>2. after = before + 1
      BY <3>1, OwedFinite, FS_AddElement
    <3>3. approvals'[s] = approvals[s] + 1
      BY <2>3, <2>5
    <3> HIDE DEF before, after
    <3>4. /\ Month * after = Month * before + Month
          /\ Month * approvals'[s] = Month * approvals[s] + Month
      BY <1>n, <1>t, <3>2, <3>3, MonthMore
    <3>5. rows[s].due + Month * after = first[s] + Month * approvals'[s]
      BY <1>c, <1>t, <1>m, <3>4
    <3> QED
      BY <2>1, <3>5
  <2>6. CASE frame[h].sub # s
    <3>1. Owed(s)' = Owed(s)
      BY <1>3, <2>1, <2>4, <2>6 DEF Records, Owed
    <3>2. approvals'[s] = approvals[s]
      BY <1>3, <1>t, <2>6 DEF Records
    <3> QED
      BY <1>c, <2>1, <3>1, <3>2
  <2> QED
    BY <2>5, <2>6
<1>4. ASSUME NEW h \in Threads, Credits(h)
      PROVE  Goal
  <2>1. UNCHANGED <<first, approvals>>
    BY <1>4 DEF Credits
  <2>2. CASE frame[h].sub = s
    <3>1. Owed(s)' = Owed(s) \ {h} /\ h \in Owed(s)
      BY <1>4, <2>2 DEF Credits, Proceeds, Owed
    <3>2. after = before - 1
      BY <3>1, OwedFinite, FS_RemoveElement
    <3>3. rows'[s].due = rows[s].due + Month
      BY <1>4, <1>d, <2>2
    <3> HIDE DEF before, after
    <3>4. before = after + 1
      BY <1>n, <3>2
    <3>5. Month * before = Month * after + Month
      BY <1>n, <3>4, MonthMore
    <3> QED
      BY <1>c, <1>t, <1>m, <2>1, <3>3, <3>5
  <2>3. CASE frame[h].sub # s
    <3>1. Owed(s)' = Owed(s)
      BY <1>4, <2>3 DEF Credits, Proceeds, Owed
    <3>2. rows'[s] = rows[s]
      BY <1>4, <1>d, <2>3
    <3> QED
      BY <1>c, <2>1, <3>1, <3>2
  <2> QED
    BY <2>2, <2>3
<1> QED
  BY <1>k, <1>1, <1>2, <1>3, <1>4

(* Every step of a server that does not fail preserves the invariant.      *)
LEMMA ExactInvStep ==
  ASSUME ExactInv, DBFails = FALSE, MaxCrashes = 0, [Next]_vars
  PROVE  ExactInv'
<1>1. CreditInv'
  BY NamedStep, CoveredStep, DatedStep DEF ExactInv, CreditInv
<1> QED
  BY <1>1, ExactStep DEF ExactInv

(* Nothing is owed when the server starts.                                 *)
LEMMA ExactInit == Init => ExactInv
<1> SUFFICES ASSUME Init, NEW s \in Subs
             PROVE  rows[s].due + Month * Cardinality(Owed(s))
                      = first[s] + Month * approvals[s]
  BY CreditInit DEF ExactInv, Exact
<1>1. Owed(s) = {}
  BY DEF Init, SubscriptionsInit, Idle, Owed
<1>2. Cardinality(Owed(s)) = 0
  BY <1>1, FS_EmptySet
<1>3. rows[s].due = 0 /\ first[s] = 0 /\ approvals[s] = 0
  BY DEF Init, SubscriptionsInit, PaymentsInit, NoRow
<1> QED
  BY <1>2, <1>3, SubscriptionsAssumption

(* Where no call is in progress nothing is owed.                           *)
LEMMA QuietOwesNothing ==
  ASSUME ExactInv
  PROVE  EveryApprovalCredited
<1> SUFFICES ASSUME Quiet, NEW s \in Subs
             PROVE  rows[s].due = first[s] + Month * approvals[s]
  BY DEF EveryApprovalCredited
<1>1. Owed(s) = {}
  BY DEF Quiet, At, Owed
<1>2. Month * Cardinality(Owed(s)) = 0
  BY <1>1, FS_EmptySet, SubscriptionsAssumption
<1>3. rows[s].due \in Nat
  BY DEF ExactInv, CreditInv, Named, TypeOK, Row
<1> QED
  BY <1>2, <1>3 DEF ExactInv, Exact

(***************************************************************************)
(* With a database that answers and a server that stays up, once no call   *)
(* is in progress every approval has moved its subscription's due date by  *)
(* one month: approvals that overlap do not swallow each other's month,    *)
(* because the date is advanced inside one UPDATE.  Router failures do not *)
(* matter.                                                                 *)
(***************************************************************************)
THEOREM ApprovalsReachDueDates ==
  ASSUME DBFails = FALSE, MaxCrashes = 0
  PROVE  Spec => []EveryApprovalCredited
<1>1. Init => ExactInv
  BY ExactInit
<1>2. ExactInv /\ [Next]_vars => ExactInv'
  BY ExactInvStep
<1>3. ExactInv => EveryApprovalCredited
  BY QuietOwesNothing
<1> QED
  BY <1>1, <1>2, <1>3, PTL DEF Spec

-----------------------------------------------------------------------------
(***************************************************************************)
(* The router against the rows: what a call has done so far on the router  *)
(* is what its program point says, as long as nothing else worked on its   *)
(* subscription and nothing failed.                                        *)
(***************************************************************************)

-----------------------------------------------------------------------------
(* The inductive invariant                                                 *)

SecretSet(s, to) == s \in PPPoESubs => router[s].secret = to

ProfileSet(s, profile) == s \in PPPoESubs => router[s].profile = profile

QueueSet(s, to) == rows[s].queue => router[s].queue = to

(* What h, alone at work on s, has done and knows at its program point     *)
Reached(h, s) ==
  LET pc == frame[h].pc
      profile == planProfile(frame[h].plan)
  IN  /\ pc \in CreatePcs => /\ rows[s].status = "active"
                             /\ frame[h].plan = rows[s].plan
                             /\ ~rows[s].queue
      /\ pc \in {"create.queue", "create.save"} =>
           SecretSet(s, "enabled") /\ ProfileSet(s, profile)
      /\ pc = "create.save" => router[s].queue = "enabled"
      /\ pc \in DisconnectPcs \cup ReconnectPcs =>
           /\ frame[h].plan = rows[s].plan
           /\ frame[h].queue = rows[s].queue
      /\ pc \in {"disconnect.queue", "disconnect.status"} =>
           SecretSet(s, "disabled")
      /\ pc = "disconnect.status" => QueueSet(s, "disabled")
      /\ pc \in ReconnectPcs \ {"reconnect.pppoe"} => SecretSet(s, "enabled")
      /\ pc \in {"reconnect.queue", "reconnect.status"} => ProfileSet(s, profile)
      /\ pc = "reconnect.status" => QueueSet(s, "enabled")
      /\ pc = "overdue.status" => ProfileSet(s, Unpaid)

(* Router and row of s agree, or one call is on the way to that.           *)
InStep(s) ==
  ~tainted[s] =>
    /\ Working(s) = {} => Matches(s)
    /\ \A h \in Working(s) : Working(s) = {h} /\ Reached(h, s)

RouterInv == Named /\ \A s \in Subs : InStep(s)

-----------------------------------------------------------------------------
(* Frames                                                                  *)

(* The other goroutines stay where they are.                               *)
Alone(h) == \A x \in Threads \ {h} : frame'[x] = frame[x]

(* h goes to another point of its call.                                    *)
LEMMA GotoFrame ==
  ASSUME frame \in [Threads -> Frame], NEW h \in Threads, NEW pc, Goto(h, pc)
  PROVE  /\ Alone(h)
         /\ frame'[h].pc = pc /\ frame'[h].sub = frame[h].sub
         /\ frame'[h].plan = frame[h].plan /\ frame'[h].queue = frame[h].queue
<1>1. frame'[h] = [frame[h] EXCEPT !.pc = pc] /\ Alone(h)
  BY DEF Goto, Alone
<1> QED
  BY <1>1 DEF Frame

(* h ends its call.                                                        *)
LEMMA ReturnFrame ==
  ASSUME frame \in [Threads -> Frame], NEW h \in Threads, Return(h)
  PROVE  Alone(h) /\ frame'[h].pc = "idle"
BY DEF Return, Idle, Alone

(* h reads a row.                                                          *)
LEMMA ReadRowFrame ==
  ASSUME frame \in [Threads -> Frame], NEW h \in Threads, NEW s, NEW pc,
         ReadRow(h, s, pc)
  PROVE  /\ Alone(h)
         /\ frame'[h].pc = pc /\ frame'[h].sub = s
         /\ frame'[h].plan = rows[s].plan /\ frame'[h].queue = rows[s].queue
<1>1. Alone(h)
  BY DEF ReadRow, Alone
<1>2. frame'[h] = [frame[h] EXCEPT !.pc = pc, !.sub = s, !.plan = rows[s].plan,
                                   !.queue = rows[s].queue]
  BY DEF ReadRow
<1> QED
  BY <1>1, <1>2 DEF Frame

(* The points of the program at which a call is not at work on a router    *)
LEMMA RestPcs ==
  /\ "idle" \notin ServicePcs
  /\ \A pc \in PaymentPcs \cup SchedulerPcs : pc \notin ServicePcs
BY DEF ServicePcs, CreatePcs, DisconnectPcs, ReconnectPcs, OverduePcs,
       PaymentPcs, ApprovePcs, SchedulerPcs

-----------------------------------------------------------------------------
(* Four ways in which a step keeps the invariant                           *)

(* h works on s and on nothing else.                                       *)
Only(h, s) ==
  /\ Alone(h)
  /\ \A x \in Subs \ {s} : /\ rows'[x] = rows[x] /\ router'[x] = router[x]
                           /\ tainted'[x] = tainted[x]
  /\ frame[h].pc \in ServicePcs => frame[h].sub = s
  /\ frame'[h].pc \in ServicePcs => frame'[h].sub = s

(* A subscription on which nothing happens stays in step.                  *)
LEMMA UntouchedInStep ==
  ASSUME RouterInv, NEW x \in Subs, ~tainted'[x] => ~tainted[x],
         ~tainted'[x] => /\ rows'[x].status = rows[x].status
                         /\ rows'[x].plan = rows[x].plan
                         /\ rows'[x].queue = rows[x].queue
                         /\ router'[x] = router[x],
         \A g \in Threads :
           \/ frame'[g] = frame[g]
           \/ /\ frame[g].pc \in ServicePcs => frame[g].sub # x
              /\ frame'[g].pc \in ServicePcs => frame'[g].sub # x
  PROVE  InStep(x)'
<1>1. Working(x)' = Working(x) /\ \A g \in Working(x) : frame'[g] = frame[g]
  BY DEF Working
<1> SUFFICES ASSUME ~tainted'[x]
             PROVE  /\ Working(x)' = {} => Matches(x)'
                    /\ \A g \in Working(x)' : Working(x)' = {g} /\ Reached(g, x)'
  BY DEF InStep
<1>2. /\ Working(x) = {} => Matches(x)
      /\ \A g \in Working(x) : Working(x) = {g} /\ Reached(g, x)
  BY DEF RouterInv, InStep
<1>3. Matches(x) => Matches(x)'
  BY DEF Matches, planProfile
<1>4. ASSUME NEW g \in Working(x), Reached(g, x)
      PROVE  Reached(g, x)'
  BY <1>1, <1>4 DEF Reached, SecretSet, ProfileSet, QueueSet, planProfile
<1> QED
  BY <1>1, <1>2, <1>3, <1>4

(* A step of a call on s keeps every other subscription in step.           *)
LEMMA OthersInStep ==
  ASSUME RouterInv, NEW h \in Threads, NEW s, Only(h, s), NEW x \in Subs, x # s
  PROVE  InStep(x)'
<1>1. \A g \in Threads :
        \/ frame'[g] = frame[g]
        \/ /\ frame[g].pc \in ServicePcs => frame[g].sub # x
           /\ frame'[g].pc \in ServicePcs => frame'[g].sub # x
  BY DEF Only, Alone
<1> QED
  BY <1>1, UntouchedInStep DEF Only

(* A call on s begins.                                                     *)
LEMMA BeginInStep ==
  ASSUME RouterInv, NEW h \in Threads, NEW s \in Subs, Only(h, s),
         frame[h].pc \notin ServicePcs,
         frame'[h].pc \in ServicePcs /\ frame'[h].sub = s,
         ~tainted'[s] => Working(s) = {} /\ Reached(h, s)'
  PROVE  \A x \in Subs : InStep(x)'
<1>1. Working(s)' = Working(s) \cup {h}
  BY DEF Working, Only, Alone
<1>2. InStep(s)'
  BY <1>1 DEF InStep
<1> QED
  BY <1>2, OthersInStep

(* A call on s goes on.                                                    *)
LEMMA GoOnInStep ==
  ASSUME RouterInv, NEW h \in Threads, NEW s \in Subs, Only(h, s),
         frame[h].pc \in ServicePcs /\ frame[h].sub = s,
         frame'[h].pc \in ServicePcs /\ frame'[h].sub = s,
         ~tainted'[s] => ~tainted[s] /\ (Reached(h, s) => Reached(h, s)')
  PROVE  \A x \in Subs : InStep(x)'
<1>1. Working(s)' = Working(s) /\ h \in Working(s)
  BY DEF Working, Only, Alone
<1>2. InStep(s)'
  BY <1>1 DEF InStep, RouterInv
<1> QED
  BY <1>2, OthersInStep

(* A call on s ends.                                                       *)
LEMMA EndInStep ==
  ASSUME RouterInv, NEW h \in Threads, NEW s \in Subs, Only(h, s),
         frame[h].pc \in ServicePcs /\ frame[h].sub = s,
         frame'[h].pc \notin ServicePcs,
         ~tainted'[s] => ~tainted[s] /\ (Reached(h, s) => Matches(s)')
  PROVE  \A x \in Subs : InStep(x)'
<1>1. Working(s)' = Working(s) \ {h} /\ h \in Working(s)
  BY DEF Working, Only, Alone
<1>2. InStep(s)'
  BY <1>1 DEF InStep, RouterInv
<1> QED
  BY <1>2, OthersInStep

(* Nothing happens on any router, and no status, plan or queue id changes  *)
(* unnoticed.                                                              *)
Elsewhere ==
  /\ \A x \in Subs : ~tainted'[x] => /\ ~tainted[x]
                                     /\ rows'[x].status = rows[x].status
                                     /\ rows'[x].plan = rows[x].plan
                                     /\ rows'[x].queue = rows[x].queue
                                     /\ router'[x] = router[x]
  /\ \A g \in Threads :
       \/ frame'[g] = frame[g]
       \/ frame[g].pc \notin ServicePcs /\ frame'[g].pc \notin ServicePcs

(* Such a step keeps every subscription in step.                           *)
LEMMA ElsewhereInStep ==
  ASSUME RouterInv, Elsewhere
  PROVE  \A x \in Subs : InStep(x)'
BY UntouchedInStep DEF Elsewhere

-----------------------------------------------------------------------------
(* Router commands                                                         *)

(* h goes to next, its copy of the row untouched, and no row changes.      *)
Drives(h, s, next) ==
  /\ Only(h, s)
  /\ frame'[h].pc = next /\ frame'[h].sub = s
  /\ frame'[h].plan = frame[h].plan /\ frame'[h].queue = frame[h].queue
  /\ UNCHANGED rows
  /\ ~tainted'[s] => ~tainted[s]

(* A command that fails leaves its mark.                                   *)
LEMMA CommandDrives ==
  ASSUME Named, NEW h \in Threads, NEW s \in Subs, frame[h].sub = s,
         NEW possible, NEW entry, NEW next, Command(h, s, possible, entry, next)
  PROVE  /\ Drives(h, s, next)
         /\ ~tainted'[s] => router'[s] = entry
<1>t. /\ frame \in [Threads -> Frame] /\ router \in [Subs -> RouterEntry]
      /\ tainted \in [Subs -> BOOLEAN]
  BY DEF Named, TypeOK
<1>1. /\ Alone(h) /\ frame'[h].pc = next /\ frame'[h].sub = s
      /\ frame'[h].plan = frame[h].plan /\ frame'[h].queue = frame[h].queue
  BY <1>t, GotoFrame DEF Command
<1>2. /\ UNCHANGED rows
      /\ \A x \in Subs \ {s} : router'[x] = router[x] /\ tainted'[x] = tainted[x]
      /\ ~tainted'[s] => ~tainted[s] /\ router'[s] = entry
  BY <1>t DEF Command, Taint
<1> QED
  BY <1>1, <1>2 DEF Drives, Only

(* Without a command the call goes on all the same.                        *)
LEMMA SkipDrives ==
  ASSUME Named, NEW h \in Threads, NEW s \in Subs, frame[h].sub = s,
         NEW next, Skip(h, next)
  PROVE  Drives(h, s, next) /\ UNCHANGED router
<1>t. frame \in [Threads -> Frame]
  BY DEF Named, TypeOK
<1>1. /\ Alone(h) /\ frame'[h].pc = next /\ frame'[h].sub = s
      /\ frame'[h].plan = frame[h].plan /\ frame'[h].queue = frame[h].queue
  BY <1>t, GotoFrame DEF Skip
<1> QED
  BY <1>1 DEF Skip, Drives, Only

(* The secret of a PPPoE subscription is switched, or the step fails.      *)
LEMMA SecretDrives ==
  ASSUME Named, NEW h \in Threads, NEW s \in Subs, frame[h].sub = s,
         NEW to, NEW next, SwitchSecret(h, to, next)
  PROVE  /\ Drives(h, s, next)
         /\ ~tainted'[s] =>
              IF s \in PPPoESubs THEN router'[s] = [router[s] EXCEPT !.secret = to]
                                 ELSE router'[s] = router[s]
<1>1. CASE s \in PPPoESubs
  BY <1>1, CommandDrives DEF SwitchSecret
<1>2. CASE s \notin PPPoESubs
  BY <1>2, SkipDrives DEF SwitchSecret
<1> QED
  BY <1>1, <1>2

(* The profile of a PPPoE subscription is set, or the step fails.          *)
LEMMA ProfileDrives ==
  ASSUME Named, NEW h \in Threads, NEW s \in Subs, frame[h].sub = s,
         NEW profile, NEW next, SetPPPoEProfile(h, profile, next)
  PROVE  /\ Drives(h, s, next)
         /\ ~tainted'[s] =>
              IF s \in PPPoESubs
              THEN router'[s] = [router[s] EXCEPT !.profile = profile]
              ELSE router'[s] = router[s]
<1>1. CASE s \in PPPoESubs
  BY <1>1, CommandDrives DEF SetPPPoEProfile
<1>2. CASE s \notin PPPoESubs
  BY <1>2, SkipDrives DEF SetPPPoEProfile
<1> QED
  BY <1>1, <1>2

(* The queue is switched if the row had an id, or the step fails.          *)
LEMMA QueueDrives ==
  ASSUME Named, NEW h \in Threads, NEW s \in Subs, frame[h].sub = s,
         NEW to, NEW next, SwitchQueue(h, to, next)
  PROVE  /\ Drives(h, s, next)
         /\ ~tainted'[s] =>
              IF frame[h].queue THEN router'[s] = [router[s] EXCEPT !.queue = to]
                                ELSE router'[s] = router[s]
<1>1. CASE frame[h].queue
  BY <1>1, CommandDrives DEF SwitchQueue
<1>2. CASE ~frame[h].queue
  BY <1>2, SkipDrives DEF SwitchQueue
<1> QED
  BY <1>1, <1>2

(* Every call is about a subscription there is.                            *)
LEMMA CallOn ==
  ASSUME Named, NEW h \in Threads, frame[h].pc # "idle"
  PROVE  frame[h].sub \in Subs /\ Exists(frame[h].sub)
BY DEF Named, CallsNamed

(* A failing statement of a call at work on a router leaves its mark.      *)
LEMMA DBErrorInStep ==
  ASSUME RouterInv, NEW h \in Threads, frame[h].pc \in ServicePcs, DBError(h)
  PROVE  \A x \in Subs : InStep(x)'
<1> DEFINE s == frame[h].sub
<1>t. /\ frame \in [Threads -> Frame] /\ tainted \in [Subs -> BOOLEAN]
      /\ s \in Subs
  BY CallOn, RestPcs DEF RouterInv, Named, TypeOK
<1>1. Alone(h) /\ frame'[h].pc = "idle"
  BY <1>t, ReturnFrame DEF DBError
<1>2. tainted'[s] /\ \A x \in Subs \ {s} : tainted'[x] = tainted[x]
  BY <1>t DEF DBError, Taint
<1>3. Only(h, s)
  BY <1>1, <1>2, RestPcs DEF DBError, Only
<1> QED
  BY <1>t, <1>1, <1>2, <1>3, EndInStep, RestPcs

(* The first step of Disconnect, Reconnect and MarkOverdue.                *)
LEMMA ExecutorInStep ==
  ASSUME RouterInv, NEW h \in Threads, NEW s \in Subs,
         frame[h].pc \notin ServicePcs,
         NEW pc \in {"disconnect.pppoe", "reconnect.pppoe", "overdue.profile"},
         NEW statusPc \in ServicePcs, NEW settles \in BOOLEAN,
         GetMTExecutor(h, s, pc, statusPc, settles),
         UNCHANGED <<now, rows, router, first>>
  PROVE  \A x \in Subs : InStep(x)'
<1>t. frame \in [Threads -> Frame] /\ tainted \in [Subs -> BOOLEAN]
  BY DEF RouterInv, Named, TypeOK
<1>p. pc \in ServicePcs
  BY DEF ServicePcs, DisconnectPcs, ReconnectPcs, OverduePcs
<1>1. PICK at \in {pc, statusPc} : ReadRow(h, s, at)
  BY DEF GetMTExecutor
<1>2. /\ Alone(h) /\ frame'[h].pc = at /\ frame'[h].sub = s
      /\ frame'[h].plan = rows[s].plan /\ frame'[h].queue = rows[s].queue
  BY <1>1, <1>t, ReadRowFrame
<1>3. \A x \in Subs \ {s} : tainted'[x] = tainted[x]
  BY <1>t DEF GetMTExecutor, Taint, TaintAnew
<1>4. Only(h, s)
  BY <1>2, <1>3 DEF Only
<1>5. ~tainted'[s] => Working(s) = {} /\ ReadRow(h, s, pc)
  BY <1>t DEF GetMTExecutor, Taint, TaintAnew
<1>6. ASSUME ~tainted'[s]
      PROVE  Reached(h, s)'
  <2>1. frame'[h].pc = pc
    BY <1>5, <1>6, <1>t, ReadRowFrame
  <2> QED
    BY <1>2, <2>1 DEF Reached, CreatePcs, DisconnectPcs, ReconnectPcs
<1> QED
  BY <1>2, <1>4, <1>5, <1>6, <1>p, BeginInStep

-----------------------------------------------------------------------------
(* The calls                                                               *)

(* The INSERT of Create                                                    *)
LEMMA CreateInStep ==
  ASSUME RouterInv, NEW h \in Handlers, NEW s \in Subs, NEW plan \in Plans,
         NEW grace \in Graces, NEW day \in 1..Month,
         Create(h, s, plan, grace, day)
  PROVE  \A x \in Subs : InStep(x)'
<1>t. /\ h \in Threads /\ Named
      /\ frame \in [Threads -> Frame] /\ tainted \in [Subs -> BOOLEAN]
      /\ rows \in [Subs -> Row] /\ router \in [Subs -> RouterEntry]
  BY DEF RouterInv, Named, TypeOK, Threads
<1>p. \A pc \in CreatePcs : pc \in ServicePcs
  BY DEF ServicePcs
<1>1. Working(s) = {}
  BY RestPcs DEF Create, RouterInv, Named, CallsNamed, Working
<1>2. /\ \A x \in Subs \ {s} : /\ rows'[x] = rows[x] /\ router'[x] = router[x]
                               /\ tainted'[x] = tainted[x]
      /\ rows'[s].status = "active" /\ rows'[s].plan = plan /\ ~rows'[s].queue
      /\ frame[h].pc = "idle"
  BY <1>t DEF Create, NewRow, Taint, At
<1>3. CASE UNCHANGED frame
  <2>1. tainted'[s]
    BY <1>3, <1>t DEF Create, Taint, Frame, At
  <2>2. \A g \in Threads : frame'[g] = frame[g]
    BY <1>3
  <2> QED
    BY <1>2, <1>3, <2>1, <2>2, ElsewhereInStep DEF Elsewhere
<1>4. CASE frame' = [frame EXCEPT ![h].pc = "create.plan", ![h].sub = s,
                                  ![h].plan = plan]
  <2>1. Alone(h)
    BY <1>4, <1>t DEF Alone
  <2>2. frame'[h] = [frame[h] EXCEPT !.pc = "create.plan", !.sub = s,
                                     !.plan = plan]
    BY <1>4, <1>t
  <2>3. /\ frame'[h].pc = "create.plan" /\ frame'[h].sub = s
        /\ frame'[h].plan = plan
    BY <2>2, <1>t DEF Frame
  <2>4. Only(h, s)
    BY <1>2, <2>1, <2>3, RestPcs DEF Only
  <2>5. Reached(h, s)'
    BY <1>2, <2>3 DEF Reached, DisconnectPcs, ReconnectPcs
  <2>6. frame'[h].pc \in ServicePcs
    BY <1>p, <2>3 DEF CreatePcs
  <2> QED
    BY <1>t, <1>1, <1>2, <2>3, <2>4, <2>5, <2>6, RestPcs, BeginInStep
<1> QED
  BY <1>3, <1>4 DEF Create

(* The steps of Create after it, up to the saved queue id                  *)
LEMMA CreateStepsInStep ==
  ASSUME RouterInv, NEW h \in Handlers, NEW s \in Subs, frame[h].sub = s,
         \/ CreateReadPlan(h) \/ AddPPPoESecret(h)
         \/ CreateQueue(h) \/ UpdateMikroTikQueueID(h)
  PROVE  \A x \in Subs : InStep(x)'
<1>t. /\ h \in Threads /\ Named
      /\ frame \in [Threads -> Frame] /\ tainted \in [Subs -> BOOLEAN]
      /\ rows \in [Subs -> Row] /\ router \in [Subs -> RouterEntry]
  BY DEF RouterInv, Named, TypeOK, Threads
<1>p. \A pc \in CreatePcs : pc \in ServicePcs
  BY DEF ServicePcs
<1>2. CASE CreateReadPlan(h)
  <2>1. frame[h].pc = "create.plan" /\ frame[h].pc \in ServicePcs
    BY <1>2, <1>p DEF CreateReadPlan, At, CreatePcs
  <2>2. UNCHANGED <<rows, router>>
    BY <1>2 DEF CreateReadPlan
  <2>3. CASE Goto(h, "create.secret") /\ UNCHANGED tainted
    <3>1. /\ Alone(h) /\ frame'[h].pc = "create.secret" /\ frame'[h].sub = s
          /\ frame'[h].plan = frame[h].plan
      BY <2>3, <1>t, GotoFrame
    <3>2. Only(h, s) /\ frame'[h].pc \in ServicePcs
      BY <2>2, <2>3, <3>1, <1>p DEF Only, CreatePcs
    <3>3. Reached(h, s) => Reached(h, s)'
      BY <2>1, <2>2, <3>1
         DEF Reached, CreatePcs, DisconnectPcs, ReconnectPcs
    <3> QED
      BY <1>t, <2>1, <2>3, <3>1, <3>2, <3>3, GoOnInStep
  <2>4. CASE Return(h) /\ Taint(s, TRUE)
    <3>1. Alone(h) /\ frame'[h].pc \notin ServicePcs
      BY <2>4, <1>t, ReturnFrame, RestPcs
    <3>2. tainted'[s] /\ \A x \in Subs \ {s} : tainted'[x] = tainted[x]
      BY <2>1, <2>4, <1>t DEF Taint
    <3>3. Only(h, s)
      BY <2>2, <3>1, <3>2 DEF Only
    <3> QED
      BY <1>t, <2>1, <3>1, <3>2, <3>3, EndInStep
  <2> QED
    BY <1>2, <2>3, <2>4 DEF CreateReadPlan
<1>3. CASE AddPPPoESecret(h)
  <2> DEFINE entry == [router[s] EXCEPT !.secret = "enabled",
                                  !.profile = planProfile(frame[h].plan)]
  <2>1. frame[h].pc = "create.secret" /\ frame[h].pc \in ServicePcs
    BY <1>3, <1>p DEF AddPPPoESecret, At, CreatePcs
  <2>2. Drives(h, s, "create.queue")
    BY <1>3, <1>t, <2>1, CommandDrives, SkipDrives DEF AddPPPoESecret
  <2>3. ASSUME ~tainted'[s], s \in PPPoESubs
        PROVE  router'[s] = entry
    <3>1. Command(h, s, router[s].secret = "absent", entry, "create.queue")
      BY <1>3, <2>3 DEF AddPPPoESecret
    <3> HIDE DEF entry
    <3> QED
      BY <1>t, <2>3, <3>1 DEF Command, Taint
  <2>4. ASSUME ~tainted'[s], Reached(h, s)
        PROVE  Reached(h, s)'
    <3>1. s \in PPPoESubs =>
            router'[s].secret = "enabled"
              /\ router'[s].profile = planProfile(frame[h].plan)
      BY <2>1, <2>3, <2>4, <1>t DEF RouterEntry
    <3>2. /\ frame'[h].pc = "create.queue" /\ frame'[h].plan = frame[h].plan
          /\ UNCHANGED rows
      BY <2>2 DEF Drives
    <3> QED
      BY <2>1, <2>4, <3>1, <3>2
         DEF Reached, SecretSet, ProfileSet, planProfile, CreatePcs,
             DisconnectPcs, ReconnectPcs
  <2>5. frame'[h].pc \in ServicePcs
    BY <2>2, <1>p DEF Drives, CreatePcs
  <2> QED
    BY <1>t, <2>1, <2>2, <2>4, <2>5, GoOnInStep DEF Drives
<1>4. CASE CreateQueue(h)
  <2>1. frame[h].pc = "create.queue" /\ frame[h].pc \in ServicePcs
    BY <1>4, <1>p DEF CreateQueue, At, CreatePcs
  <2>2. /\ UNCHANGED rows
        /\ \A x \in Subs \ {s} : router'[x] = router[x] /\ tainted'[x] = tainted[x]
        /\ ~tainted'[s] => ~tainted[s]
        /\ router'[s].secret = router[s].secret
        /\ router'[s].profile = router[s].profile
    <3>1. UNCHANGED router \/ router' = [router EXCEPT ![s].queue = "enabled"]
      BY <1>4 DEF CreateQueue
    <3>2. /\ router'[s].secret = router[s].secret
          /\ router'[s].profile = router[s].profile
          /\ \A x \in Subs \ {s} : router'[x] = router[x]
      BY <2>1, <3>1, <1>t DEF RouterEntry
    <3>3. /\ \A x \in Subs \ {s} : tainted'[x] = tainted[x]
          /\ ~tainted'[s] => ~tainted[s]
      BY <1>4, <1>t, <2>1 DEF CreateQueue, Taint
    <3> QED
      BY <1>4, <3>2, <3>3 DEF CreateQueue
  <2>3. CASE Return(h)
    <3>1. Alone(h) /\ frame'[h].pc \notin ServicePcs
      BY <2>3, <1>t, ReturnFrame, RestPcs
    <3>2. Only(h, s)
      BY <2>2, <3>1 DEF Only
    <3>3. Reached(h, s) => Matches(s)'
      BY <2>1, <2>2
         DEF Reached, SecretSet, ProfileSet, planProfile, CreatePcs, Matches
    <3> QED
      BY <1>t, <2>1, <2>2, <3>1, <3>2, <3>3, EndInStep
  <2>4. CASE /\ Goto(h, "create.save")
             /\ router' = [router EXCEPT ![s].queue = "enabled"]
    <3>1. /\ Alone(h) /\ frame'[h].pc = "create.save" /\ frame'[h].sub = s
          /\ frame'[h].plan = frame[h].plan
      BY <2>4, <1>t, GotoFrame
    <3>2. Only(h, s) /\ frame'[h].pc \in ServicePcs
      BY <2>2, <3>1, <1>p DEF Only, CreatePcs
    <3>3. router'[s].queue = "enabled"
      BY <2>1, <2>4, <1>t DEF RouterEntry
    <3>4. Reached(h, s) => Reached(h, s)'
      BY <2>1, <2>2, <3>1, <3>3
         DEF Reached, SecretSet, ProfileSet, planProfile, CreatePcs,
             DisconnectPcs, ReconnectPcs
    <3> QED
      BY <1>t, <2>1, <2>2, <3>1, <3>2, <3>4, GoOnInStep
  <2> QED
    BY <1>4, <2>3, <2>4 DEF CreateQueue
<1>5. CASE UpdateMikroTikQueueID(h)
  <2>1. frame[h].pc = "create.save" /\ frame[h].pc \in ServicePcs
    BY <1>5, <1>p DEF UpdateMikroTikQueueID, At, CreatePcs
  <2>2. CASE DBError(h)
    BY <1>t, <2>1, <2>2, DBErrorInStep
  <2>3. CASE /\ rows' = [rows EXCEPT ![s].queue = TRUE] /\ Return(h)
             /\ UNCHANGED <<router, tainted>>
    <3>1. Alone(h) /\ frame'[h].pc \notin ServicePcs
      BY <2>3, <1>t, ReturnFrame, RestPcs
    <3>2. /\ rows'[s].status = rows[s].status /\ rows'[s].plan = rows[s].plan
          /\ \A x \in Subs \ {s} : rows'[x] = rows[x]
      BY <2>1, <2>3, <1>t DEF Row
    <3>3. Only(h, s)
      BY <2>3, <3>1, <3>2 DEF Only
    <3>4. Reached(h, s) => Matches(s)'
      BY <2>1, <2>3, <3>2
         DEF Reached, SecretSet, ProfileSet, planProfile, CreatePcs, Matches
    <3> QED
      BY <1>t, <2>1, <2>3, <3>1, <3>3, <3>4, EndInStep
  <2> QED
    BY <1>5, <2>2, <2>3 DEF UpdateMikroTikQueueID
<1> QED
  BY <1>2, <1>3, <1>4, <1>5

(* Disconnect                                                              *)
LEMMA DisconnectInStep ==
  ASSUME RouterInv, NEW h \in Threads, NEW s \in Subs, frame[h].sub = s,
         \/ DisconnectPPPoE(h) \/ DisconnectQueue(h) \/ DisconnectStatus(h)
  PROVE  \A x \in Subs : InStep(x)'
<1>t. /\ Named /\ frame \in [Threads -> Frame]
      /\ rows \in [Subs -> Row] /\ router \in [Subs -> RouterEntry]
  BY DEF RouterInv, Named, TypeOK
<1>p. \A pc \in DisconnectPcs : pc \in ServicePcs
  BY DEF ServicePcs
<1>1. CASE DisconnectPPPoE(h)
  <2>1. /\ frame[h].pc = "disconnect.pppoe" /\ frame[h].pc \in ServicePcs
        /\ "disconnect.queue" \in ServicePcs
        /\ SwitchSecret(h, "disabled", "disconnect.queue")
    BY <1>1, <1>p DEF DisconnectPPPoE, At, DisconnectPcs
  <2>2. /\ Drives(h, s, "disconnect.queue")
        /\ ~tainted'[s] /\ s \in PPPoESubs =>
             router'[s] = [router[s] EXCEPT !.secret = "disabled"]
    BY <1>t, <2>1, SecretDrives
  <2>3. ~tainted'[s] /\ s \in PPPoESubs => router'[s].secret = "disabled"
    BY <2>2, <1>t DEF RouterEntry
  <2>4. ASSUME ~tainted'[s], Reached(h, s)
        PROVE  Reached(h, s)'
    BY <2>1, <2>2, <2>3, <2>4
       DEF Drives, Reached, SecretSet, CreatePcs, DisconnectPcs, ReconnectPcs
  <2> QED
    BY <2>1, <2>2, <2>4, GoOnInStep DEF Drives
<1>2. CASE DisconnectQueue(h)
  <2>1. /\ frame[h].pc = "disconnect.queue" /\ frame[h].pc \in ServicePcs
        /\ "disconnect.status" \in ServicePcs
        /\ SwitchQueue(h, "disabled", "disconnect.status")
    BY <1>2, <1>p DEF DisconnectQueue, At, DisconnectPcs
  <2>2. /\ Drives(h, s, "disconnect.status")
        /\ ~tainted'[s] =>
             IF frame[h].queue
             THEN router'[s] = [router[s] EXCEPT !.queue = "disabled"]
             ELSE router'[s] = router[s]
    BY <1>t, <2>1, QueueDrives
  <2>3. ~tainted'[s] => /\ frame[h].queue => router'[s].queue = "disabled"
                        /\ router'[s].secret = router[s].secret
    BY <2>2, <1>t DEF RouterEntry
  <2>4. ASSUME ~tainted'[s], Reached(h, s)
        PROVE  Reached(h, s)'
    BY <2>1, <2>2, <2>3, <2>4
       DEF Drives, Reached, SecretSet, QueueSet, CreatePcs, DisconnectPcs,
           ReconnectPcs
  <2> QED
    BY <2>1, <2>2, <2>4, GoOnInStep DEF Drives
<1>3. CASE DisconnectStatus(h)
  <2>1. frame[h].pc = "disconnect.status" /\ frame[h].pc \in ServicePcs
    BY <1>3, <1>p DEF DisconnectStatus, At, DisconnectPcs
  <2>2. CASE DBError(h)
    BY <2>1, <2>2, DBErrorInStep
  <2>3. CASE UpdateStatus(h, "suspended") /\ Return(h)
    <3>1. Alone(h) /\ frame'[h].pc \notin ServicePcs
      BY <2>3, <1>t, ReturnFrame, RestPcs
    <3>2. /\ rows'[s].status = "suspended" /\ rows'[s].queue = rows[s].queue
          /\ \A x \in Subs \ {s} : rows'[x] = rows[x]
      BY <2>3, <1>t DEF UpdateStatus, Row
    <3>3. UNCHANGED <<router, tainted>>
      BY <2>3 DEF UpdateStatus
    <3>4. Only(h, s)
      BY <3>1, <3>2, <3>3 DEF Only
    <3>5. Reached(h, s) => Matches(s)'
      BY <2>1, <3>2, <3>3
         DEF Reached, SecretSet, QueueSet, Matches, DisconnectPcs
    <3> QED
      BY <2>1, <3>1, <3>3, <3>4, <3>5, EndInStep
  <2> QED
    BY <1>3, <2>2, <2>3 DEF DisconnectStatus
<1> QED
  BY <1>1, <1>2, <1>3

(* Reconnect                                                               *)
LEMMA ReconnectInStep ==
  ASSUME RouterInv, NEW h \in Threads, NEW s \in Subs, frame[h].sub = s,
         \/ ReconnectPPPoE(h) \/ ReconnectProfile(h)
         \/ ReconnectQueue(h) \/ ReconnectStatus(h)
  PROVE  \A x \in Subs : InStep(x)'
<1>t. /\ Named /\ frame \in [Threads -> Frame] /\ tainted \in [Subs -> BOOLEAN]
      /\ rows \in [Subs -> Row] /\ router \in [Subs -> RouterEntry]
  BY DEF RouterInv, Named, TypeOK
<1>p. \A pc \in ReconnectPcs : pc \in ServicePcs
  BY DEF ServicePcs
<1>1. CASE ReconnectPPPoE(h)
  <2>1. /\ frame[h].pc = "reconnect.pppoe" /\ frame[h].pc \in ServicePcs
        /\ "reconnect.profile" \in ServicePcs
        /\ SwitchSecret(h, "enabled", "reconnect.profile")
    BY <1>1, <1>p DEF ReconnectPPPoE, At, ReconnectPcs
  <2>2. /\ Drives(h, s, "reconnect.profile")
        /\ ~tainted'[s] /\ s \in PPPoESubs =>
             router'[s] = [router[s] EXCEPT !.secret = "enabled"]
    BY <1>t, <2>1, SecretDrives
  <2>3. ~tainted'[s] /\ s \in PPPoESubs => router'[s].secret = "enabled"
    BY <2>2, <1>t DEF RouterEntry
  <2>4. ASSUME ~tainted'[s], Reached(h, s)
        PROVE  Reached(h, s)'
    BY <2>1, <2>2, <2>3, <2>4
       DEF Drives, Reached, SecretSet, CreatePcs, DisconnectPcs, ReconnectPcs
  <2> QED
    BY <2>1, <2>2, <2>4, GoOnInStep DEF Drives
<1>2. CASE ReconnectProfile(h)
  <2>1. /\ frame[h].pc = "reconnect.profile" /\ frame[h].pc \in ServicePcs
        /\ "reconnect.queue" \in ServicePcs
    BY <1>2, <1>p DEF ReconnectProfile, At, ReconnectPcs
  <2>2. CASE SetPPPoEProfile(h, planProfile(frame[h].plan), "reconnect.queue")
    <3>1. /\ Drives(h, s, "reconnect.queue")
          /\ ~tainted'[s] =>
               IF s \in PPPoESubs
               THEN router'[s] = [router[s] EXCEPT
                                    !.profile = planProfile(frame[h].plan)]
               ELSE router'[s] = router[s]
      BY <1>t, <2>2, ProfileDrives
    <3>2. ~tainted'[s] /\ s \in PPPoESubs =>
            /\ router'[s].profile = planProfile(frame[h].plan)
            /\ router'[s].secret = router[s].secret
      BY <3>1, <1>t DEF RouterEntry
    <3>3. ASSUME ~tainted'[s], Reached(h, s)
          PROVE  Reached(h, s)'
      BY <2>1, <3>1, <3>2, <3>3
         DEF Drives, Reached, SecretSet, ProfileSet, planProfile, CreatePcs,
             DisconnectPcs, ReconnectPcs
    <3> QED
      BY <2>1, <3>1, <3>3, GoOnInStep DEF Drives
  <2>3. CASE /\ Goto(h, "reconnect.queue") /\ Taint(s, TRUE)
             /\ UNCHANGED <<rows, router>>
    <3>1. Alone(h) /\ frame'[h].pc = "reconnect.queue" /\ frame'[h].sub = s
      BY <2>3, <1>t, GotoFrame
    <3>2. tainted'[s] /\ \A x \in Subs \ {s} : tainted'[x] = tainted[x]
      BY <2>3, <1>t DEF Taint
    <3>3. Only(h, s)
      BY <2>3, <3>1, <3>2 DEF Only
    <3> QED
      BY <2>1, <3>1, <3>2, <3>3, GoOnInStep
  <2> QED
    BY <1>2, <2>2, <2>3 DEF ReconnectProfile
<1>3. CASE ReconnectQueue(h)
  <2>1. /\ frame[h].pc = "reconnect.queue" /\ frame[h].pc \in ServicePcs
        /\ "reconnect.status" \in ServicePcs
        /\ SwitchQueue(h, "enabled", "reconnect.status")
    BY <1>3, <1>p DEF ReconnectQueue, At, ReconnectPcs
  <2>2. /\ Drives(h, s, "reconnect.status")
        /\ ~tainted'[s] =>
             IF frame[h].queue
             THEN router'[s] = [router[s] EXCEPT !.queue = "enabled"]
             ELSE router'[s] = router[s]
    BY <1>t, <2>1, QueueDrives
  <2>3. ~tainted'[s] => /\ frame[h].queue => router'[s].queue = "enabled"
                        /\ router'[s].secret = router[s].secret
                        /\ router'[s].profile = router[s].profile
    BY <2>2, <1>t DEF RouterEntry
  <2>4. ASSUME ~tainted'[s], Reached(h, s)
        PROVE  Reached(h, s)'
    BY <2>1, <2>2, <2>3, <2>4
       DEF Drives, Reached, SecretSet, ProfileSet, QueueSet, planProfile,
           CreatePcs, DisconnectPcs, ReconnectPcs
  <2> QED
    BY <2>1, <2>2, <2>4, GoOnInStep DEF Drives
<1>4. CASE ReconnectStatus(h)
  <2>1. frame[h].pc = "reconnect.status" /\ frame[h].pc \in ServicePcs
    BY <1>4, <1>p DEF ReconnectStatus, At, ReconnectPcs
  <2>2. CASE DBError(h)
    BY <2>1, <2>2, DBErrorInStep
  <2>3. CASE UpdateStatus(h, "active") /\ Return(h)
    <3>1. Alone(h) /\ frame'[h].pc \notin ServicePcs
      BY <2>3, <1>t, ReturnFrame, RestPcs
    <3>2. /\ rows'[s].status = "active" /\ rows'[s].queue = rows[s].queue
          /\ rows'[s].plan = rows[s].plan
          /\ \A x \in Subs \ {s} : rows'[x] = rows[x]
      BY <2>3, <1>t DEF UpdateStatus, Row
    <3>3. UNCHANGED <<router, tainted>>
      BY <2>3 DEF UpdateStatus
    <3>4. Only(h, s)
      BY <3>1, <3>2, <3>3 DEF Only
    <3>5. Reached(h, s) => Matches(s)'
      BY <2>1, <3>2, <3>3
         DEF Reached, SecretSet, ProfileSet, QueueSet, Matches, planProfile,
             ReconnectPcs
    <3> QED
      BY <2>1, <3>1, <3>3, <3>4, <3>5, EndInStep
  <2> QED
    BY <1>4, <2>2, <2>3 DEF ReconnectStatus
<1> QED
  BY <1>1, <1>2, <1>3, <1>4

(* The overdue check                                                       *)
LEMMA CheckInStep ==
  ASSUME RouterInv, OverdueCheck
  PROVE  \A x \in Subs : InStep(x)'
<1>t. /\ Named /\ frame \in [Threads -> Frame] /\ tainted \in [Subs -> BOOLEAN]
      /\ rows \in [Subs -> Row] /\ router \in [Subs -> RouterEntry]
      /\ Cron \in Threads
  BY DEF RouterInv, Named, TypeOK, Threads
<1>p. \A pc \in OverduePcs : pc \in ServicePcs
  BY DEF ServicePcs
<1>k. UNCHANGED subVars => Elsewhere
  BY DEF subVars, Elsewhere
<1>1. CASE CheckOverdue
  BY <1>1, <1>k, ElsewhereInStep DEF CheckOverdue
<1>2. ASSUME NEW s \in Subs, MarkNext(s)
      PROVE  \A x \in Subs : InStep(x)'
  <2>1. CASE UNCHANGED subVars
    BY <2>1, <1>k, ElsewhereInStep
  <2>2. CASE MarkOverdue(Cron, s)
    <3>1. /\ GetMTExecutor(Cron, s, "overdue.profile", "overdue.status", FALSE)
          /\ UNCHANGED <<now, rows, router, first>>
      BY <2>2 DEF MarkOverdue
    <3>2. frame[Cron].pc \notin ServicePcs /\ "overdue.status" \in ServicePcs
      BY <1>2, <1>p, RestPcs DEF MarkNext, At, OverduePcs
    <3> QED
      BY <1>t, <3>1, <3>2, ExecutorInStep
  <2> QED
    BY <1>2, <2>1, <2>2 DEF MarkNext
<1>3. CASE MarkNextProfile
  <2>1. /\ frame[Cron].pc = "overdue.profile" /\ frame[Cron].pc \in ServicePcs
        /\ "overdue.status" \in ServicePcs
        /\ SetPPPoEProfile(Cron, Unpaid, "overdue.status")
    BY <1>3, <1>p DEF MarkNextProfile, MarkOverdueProfile, At, OverduePcs
  <2>2. PICK s \in Subs : frame[Cron].sub = s
    BY <1>t, <2>1, CallOn
  <2>3. /\ Drives(Cron, s, "overdue.status")
        /\ ~tainted'[s] /\ s \in PPPoESubs =>
             router'[s] = [router[s] EXCEPT !.profile = Unpaid]
    BY <1>t, <2>1, <2>2, ProfileDrives
  <2>4. ~tainted'[s] /\ s \in PPPoESubs => router'[s].profile = Unpaid
    BY <2>3, <1>t DEF RouterEntry
  <2>5. ~tainted'[s] => Reached(Cron, s)'
    BY <2>3, <2>4
       DEF Drives, Reached, ProfileSet, CreatePcs, DisconnectPcs, ReconnectPcs
  <2> QED
    BY <1>t, <2>1, <2>2, <2>3, <2>5, GoOnInStep DEF Drives
<1>4. CASE MarkNextStatus
  <2>1. frame[Cron].pc = "overdue.status" /\ frame[Cron].pc \in ServicePcs
    BY <1>4, <1>p DEF MarkNextStatus, At, OverduePcs
  <2>2. PICK s \in Subs : frame[Cron].sub = s
    BY <1>t, <2>1, CallOn
  <2>3. CASE DBError(Cron)
    BY <1>t, <2>1, <2>3, DBErrorInStep
  <2>4. CASE UpdateStatus(Cron, "overdue") /\ Goto(Cron, "overdue.sms")
    <3>1. Alone(Cron) /\ frame'[Cron].pc = "overdue.sms"
      BY <2>4, <1>t, GotoFrame
    <3>2. frame'[Cron].pc \notin ServicePcs
      BY <3>1, RestPcs DEF SchedulerPcs
    <3>3. /\ rows'[s].status = "overdue"
          /\ \A x \in Subs \ {s} : rows'[x] = rows[x]
      BY <2>2, <2>4, <1>t DEF UpdateStatus, Row
    <3>4. UNCHANGED <<router, tainted>>
      BY <2>4 DEF UpdateStatus
    <3>5. Only(Cron, s)
      BY <2>2, <3>1, <3>2, <3>3, <3>4 DEF Only
    <3>6. Reached(Cron, s) => Matches(s)'
      BY <2>1, <3>3, <3>4 DEF Reached, ProfileSet, Matches
    <3> QED
      BY <1>t, <2>1, <2>2, <3>2, <3>4, <3>5, <3>6, EndInStep
  <2> QED
    BY <1>4, <2>3, <2>4 DEF MarkNextStatus
<1>5. CASE SendDisconnectionSMS
  <2>1. /\ Return(Cron) /\ frame[Cron].pc = "overdue.sms"
        /\ UNCHANGED <<rows, router, tainted>>
    BY <1>5 DEF SendDisconnectionSMS, At
  <2>2. Alone(Cron) /\ frame'[Cron].pc = "idle"
    BY <1>t, <2>1, ReturnFrame
  <2>3. frame[Cron].pc \notin ServicePcs /\ frame'[Cron].pc \notin ServicePcs
    BY <2>1, <2>2, RestPcs DEF SchedulerPcs
  <2> QED
    BY <2>1, <2>2, <2>3, ElsewhereInStep DEF Alone, Elsewhere
<1> QED
  BY <1>1, <1>2, <1>3, <1>4, <1>5 DEF OverdueCheck

(* Payment requests; the only one at work on a router is an approval that  *)
(* has just read the suspended subscription it reconnects.                 *)
LEMMA PaymentInStep ==
  ASSUME RouterInv, NEW h \in Handlers, PaymentCall(h)
  PROVE  \A x \in Subs : InStep(x)'
<1>t. /\ Named /\ frame \in [Threads -> Frame] /\ tainted \in [Subs -> BOOLEAN]
      /\ rows \in [Subs -> Row] /\ h \in Threads
  BY DEF RouterInv, Named, TypeOK, Threads
<1>r. ASSUME NEW pc \in PaymentPcs, frame[h].pc \in PaymentPcs \cup {"idle"},
             Goto(h, pc) \/ Return(h), UNCHANGED <<router, tainted>>,
             \A x \in Subs : /\ rows'[x].status = rows[x].status
                             /\ rows'[x].plan = rows[x].plan
                             /\ rows'[x].queue = rows[x].queue
      PROVE  \A x \in Subs : InStep(x)'
  <2>1. Alone(h) /\ frame'[h].pc \in {pc, "idle"}
    BY <1>r, <1>t, GotoFrame, ReturnFrame
  <2>2. frame[h].pc \notin ServicePcs /\ frame'[h].pc \notin ServicePcs
    BY <1>r, <2>1, RestPcs
  <2> QED
    BY <1>r, <2>1, <2>2, ElsewhereInStep DEF Alone, Elsewhere
<1>e. ASSUME frame[h].pc \in PaymentPcs, DBError(h)
      PROVE  \A x \in Subs : InStep(x)'
  <2>1. frame[h].pc \notin ServicePcs
    BY <1>e, RestPcs
  <2>2. Return(h) /\ UNCHANGED <<rows, router, tainted>>
    BY <1>e, <2>1, <1>t DEF DBError, Taint
  <2>3. "approve.write" \in PaymentPcs
    BY DEF PaymentPcs, ApprovePcs
  <2> QED
    BY <1>e, <1>r, <2>2, <2>3
<1>1. ASSUME NEW p \in Payments, NEW s \in Subs, CreatePayment(h, p, s)
      PROVE  \A x \in Subs : InStep(x)'
  BY <1>1, ElsewhereInStep DEF CreatePayment, subVars, Elsewhere
<1>2. ASSUME NEW p \in Payments, Approve(h, p) \/ Reject(h, p)
      PROVE  \A x \in Subs : InStep(x)'
  <2>1. PICK pc \in {"approve.write", "reject.write"} : ReadPending(h, p, pc)
    BY <1>2 DEF Approve, Reject
  <2>2. /\ UNCHANGED <<rows, router, tainted>> /\ frame[h].pc = "idle"
        /\ frame' = [frame EXCEPT ![h] = [frame[h] EXCEPT !.pc = pc, !.pay = p,
                                            !.sub = pay[p].sub]]
    BY <2>1 DEF ReadPending, At
  <2>3. Alone(h) /\ frame'[h].pc = pc
    BY <2>2, <1>t DEF Alone, Frame
  <2>4. frame[h].pc \notin ServicePcs /\ frame'[h].pc \notin ServicePcs
    BY <2>2, <2>3, RestPcs DEF PaymentPcs, ApprovePcs
  <2> QED
    BY <2>2, <2>3, <2>4, ElsewhereInStep DEF Alone, Elsewhere
<1>3. CASE ApproveWrite(h)
  BY <1>3, <1>r DEF ApproveWrite, At, PaymentPcs, ApprovePcs
<1>4. CASE ApproveAdvance(h)
  <2>1. frame[h].pc \in PaymentPcs /\ "approve.reread" \in PaymentPcs
    BY <1>4 DEF ApproveAdvance, At, PaymentPcs, ApprovePcs
  <2>2. CASE DBError(h)
    BY <1>e, <2>1, <2>2
  <2>3. CASE ~DBError(h)
    <3>1. /\ Goto(h, "approve.reread") /\ UNCHANGED <<router, tainted>>
          /\ rows' = [rows EXCEPT ![frame[h].sub].due
                                    = AdvanceDueDate(frame[h].sub)]
      BY <1>4, <2>3 DEF ApproveAdvance
    <3>2. \A x \in Subs : /\ rows'[x].status = rows[x].status
                          /\ rows'[x].plan = rows[x].plan
                          /\ rows'[x].queue = rows[x].queue
      BY <3>1, <1>t DEF Row
    <3> QED
      BY <1>r, <2>1, <3>1, <3>2
  <2> QED
    BY <2>2, <2>3
<1>5. CASE ApproveReread(h)
  BY <1>5, <1>r DEF ApproveReread, At, PaymentPcs, ApprovePcs
<1>6. CASE ApproveReconnect(h)
  <2>1. frame[h].pc = "approve.reconnect" /\ frame[h].pc \in PaymentPcs
    BY <1>6 DEF ApproveReconnect, At, PaymentPcs, ApprovePcs
  <2>2. CASE DBError(h)
    BY <1>e, <2>1, <2>2
  <2>3. CASE ReconnectRead(h, frame[h].sub)
    <3>1. PICK s \in Subs : frame[h].sub = s
      BY <1>t, <2>1, CallOn
    <3>2. /\ GetMTExecutor(h, s, "reconnect.pppoe", "reconnect.status", TRUE)
          /\ UNCHANGED <<now, rows, router, first>>
      BY <2>3, <3>1 DEF ReconnectRead
    <3>3. frame[h].pc \notin ServicePcs /\ "reconnect.status" \in ServicePcs
      BY <2>1, RestPcs DEF ServicePcs, ReconnectPcs
    <3> QED
      BY <1>t, <3>2, <3>3, ExecutorInStep
  <2> QED
    BY <1>6, <2>2, <2>3 DEF ApproveReconnect
<1>7. CASE RejectWrite(h)
  BY <1>7, <1>r DEF RejectWrite, At, PaymentPcs, ApprovePcs
<1> QED
  BY <1>1, <1>2, <1>3, <1>4, <1>5, <1>6, <1>7 DEF PaymentCall

-----------------------------------------------------------------------------
(* The router follows the status                                           *)

(* Every step of the server preserves the invariant.                       *)
LEMMA RouterStep ==
  ASSUME RouterInv, [Next]_vars
  PROVE  RouterInv'
<1>n. Named'
  BY NamedStep DEF RouterInv
<1>t. Named /\ frame \in [Threads -> Frame] /\ rows \in [Subs -> Row]
        /\ tainted \in [Subs -> BOOLEAN]
  BY DEF RouterInv, Named, TypeOK
<1>1. ASSUME NEW h \in Handlers, SubscriptionCall(h)
      PROVE  \A x \in Subs : InStep(x)'
  <2>t. h \in Threads
    BY DEF Threads
  <2>1. ASSUME NEW s \in Subs, Disconnect(h, s)
        PROVE  \A x \in Subs : InStep(x)'
    <3>1. /\ GetMTExecutor(h, s, "disconnect.pppoe", "disconnect.status", TRUE)
          /\ UNCHANGED <<now, rows, router, first>>
          /\ frame[h].pc \notin ServicePcs /\ "disconnect.status" \in ServicePcs
      BY <2>1, RestPcs DEF Disconnect, At, ServicePcs, DisconnectPcs
    <3> QED
      BY <2>t, <3>1, ExecutorInStep
  <2>2. ASSUME NEW s \in Subs, Reconnect(h, s)
        PROVE  \A x \in Subs : InStep(x)'
    <3>1. /\ GetMTExecutor(h, s, "reconnect.pppoe", "reconnect.status", TRUE)
          /\ UNCHANGED <<now, rows, router, first>>
          /\ frame[h].pc \notin ServicePcs /\ "reconnect.status" \in ServicePcs
      BY <2>2, RestPcs
         DEF Reconnect, ReconnectRead, At, ServicePcs, ReconnectPcs
    <3> QED
      BY <2>t, <3>1, ExecutorInStep
  <2>3. ASSUME frame[h].pc # "idle"
        PROVE  \A x \in Subs : InStep(x)'
    <3>1. PICK s \in Subs : frame[h].sub = s
      BY <1>t, <2>t, <2>3, CallOn
    <3>2. ~(\E x \in Subs, plan \in Plans, grace \in Graces, day \in 1..Month :
              Create(h, x, plan, grace, day))
      BY <2>3 DEF Create, At
    <3>3. ~(\E x \in Subs : Disconnect(h, x) \/ Reconnect(h, x))
      BY <2>3 DEF Disconnect, Reconnect, At
    <3> QED
      BY <1>1, <2>t, <3>1, <3>2, <3>3, CreateStepsInStep, DisconnectInStep,
         ReconnectInStep DEF SubscriptionCall
  <2>4. ASSUME frame[h].pc = "idle"
        PROVE  \/ \E s \in Subs, plan \in Plans, grace \in Graces,
                     day \in 1..Month : Create(h, s, plan, grace, day)
               \/ \E s \in Subs : Disconnect(h, s) \/ Reconnect(h, s)
    BY <1>1, <2>4
       DEF SubscriptionCall, CreateReadPlan, AddPPPoESecret, CreateQueue,
           UpdateMikroTikQueueID, DisconnectPPPoE, DisconnectQueue,
           DisconnectStatus, ReconnectPPPoE, ReconnectProfile, ReconnectQueue,
           ReconnectStatus, At
  <2> QED
    BY <2>1, <2>2, <2>3, <2>4, CreateInStep
<1>2. ASSUME EditCall
      PROVE  \A x \in Subs : InStep(x)'
  <2>1. PICK s \in Subs, status \in Statuses, plan \in Plans, grace \in Graces :
          Update(s, status, plan, grace)
    BY <1>2 DEF EditCall, SubscriptionUpdate
  <2>2. /\ rows'[s].status = status /\ rows'[s].plan = plan
        /\ rows'[s].queue = rows[s].queue
        /\ \A x \in Subs \ {s} : rows'[x] = rows[x]
    BY <2>1, <1>t DEF Update, Row
  <2>3. /\ \A x \in Subs : tainted[x] => tainted'[x]
        /\ status # rows[s].status \/ plan # rows[s].plan => tainted'[s]
    BY <2>1, <1>t DEF Update, Taint
  <2>4. UNCHANGED <<router, frame>>
    BY <2>1 DEF Update
  <2> QED
    BY <2>2, <2>3, <2>4, ElsewhereInStep DEF Elsewhere
<1>3. ASSUME Day \/ UNCHANGED vars
      PROVE  \A x \in Subs : InStep(x)'
  BY <1>3, ElsewhereInStep DEF Day, Tick, vars, subVars, Elsewhere
<1>4. CASE Restart
  <2>1. \A h \in Threads : frame'[h].pc \notin ServicePcs
    BY <1>4, RestPcs DEF Restart, Idle
  <2>2. UNCHANGED <<rows, router>>
    BY <1>4 DEF Restart
  <2>3. \A x \in Subs : ~tainted'[x] => ~tainted[x] /\ Working(x) = {}
    BY <1>4 DEF Restart
  <2>4. \A x \in Subs : Working(x)' = {}
    BY <2>1 DEF Working
  <2>5. \A x \in Subs : Matches(x) => Matches(x)'
    BY <2>2 DEF Matches, planProfile
  <2>6. \A x \in Subs : InStep(x)'
    BY <2>3, <2>4, <2>5 DEF RouterInv, InStep
  <2> QED
    BY <1>n, <2>6 DEF RouterInv
<1>5. \A x \in Subs : InStep(x)'
  <2>1. CASE Restart
    BY <1>4, <2>1 DEF RouterInv
  <2> QED
    BY <1>1, <1>2, <1>3, <2>1, PaymentInStep, CheckInStep DEF Next, HTTPCall
<1> QED
  BY <1>n, <1>5 DEF RouterInv

(* Router and rows are empty when the server starts.                       *)
LEMMA RouterInit == Init => RouterInv
<1> SUFFICES ASSUME Init
             PROVE  RouterInv
  OBVIOUS
<1>1. \A s \in Subs : Working(s) = {} /\ rows[s].status = "none"
  BY RestPcs DEF Init, SubscriptionsInit, Idle, NoRow, Working
<1>2. \A s \in Subs : Matches(s)
  BY <1>1 DEF Matches
<1> QED
  BY <1>1, <1>2, NamedInit DEF RouterInv, InStep

(***************************************************************************)
(* Whatever requests, checks, edits, failures and restarts interleave,     *)
(* once no call is at work on a subscription the router gives it what its  *)
(* status says, unless an overlap, a failure or an edit since the last     *)
(* clean call could have parted them.                                      *)
(***************************************************************************)
THEOREM RouterKeepsUp == Spec => []RouterFollowsStatus
<1>1. RouterInv => RouterFollowsStatus
  BY DEF RouterInv, InStep, RouterFollowsStatus
<1> QED
  BY <1>1, RouterInit, RouterStep, PTL DEF Spec

-----------------------------------------------------------------------------
(* Queue ids                                                               *)

(* Whoever is about to save a queue id got it from a router with a queue.  *)
SavesReal ==
  \A h \in Threads :
    frame[h].pc = "create.save" => router[frame[h].sub].queue # "absent"

QueueInv == Named /\ QueueIdIsReal /\ SavesReal

(* No queue goes away, and an id is saved only by a call that is at that   *)
(* point.                                                                  *)
QueuesKept ==
  /\ \A s \in Subs : router[s].queue # "absent" => router'[s].queue # "absent"
  /\ \A s \in Subs :
       rows'[s].queue => \/ rows[s].queue
                         \/ \E h \in Threads : /\ frame[h].pc = "create.save"
                                               /\ frame[h].sub = s

(* Nobody arrives at that point.                                           *)
NoNewSave ==
  \A h \in Threads : frame'[h] = frame[h] \/ frame'[h].pc # "create.save"

(* A step that does neither keeps every queue id real.                     *)
LEMMA KeptQueueInv ==
  ASSUME QueueInv, QueuesKept, NoNewSave
  PROVE  QueueIdIsReal' /\ SavesReal'
<1>1. \A h \in Threads : frame[h].pc = "create.save" => frame[h].sub \in Subs
  BY DEF QueueInv, Named, CallsNamed
<1>2. SavesReal'
  BY <1>1 DEF QueueInv, SavesReal, QueuesKept, NoNewSave
<1>3. QueueIdIsReal'
  BY DEF QueueInv, QueueIdIsReal, SavesReal, QueuesKept
<1> QED
  BY <1>2, <1>3

(* A command creates no queue unless it says so, and removes none.         *)
LEMMA CommandQueue ==
  ASSUME Named, NEW h \in Threads, NEW s \in Subs, NEW possible, NEW entry,
         entry.queue # "absent" \/ entry.queue = router[s].queue,
         NEW next, next # "create.save", Command(h, s, possible, entry, next)
  PROVE  QueuesKept /\ NoNewSave
<1>t. frame \in [Threads -> Frame] /\ router \in [Subs -> RouterEntry]
  BY DEF Named, TypeOK
<1>1. NoNewSave
  BY <1>t, GotoFrame DEF Command, NoNewSave, Alone
<1>2. QueuesKept
  BY <1>t DEF Command, QueuesKept
<1> QED
  BY <1>1, <1>2

(* Nor does going on without a command.                                    *)
LEMMA SkipQueue ==
  ASSUME Named, NEW h \in Threads, NEW next, next # "create.save", Skip(h, next)
  PROVE  QueuesKept /\ NoNewSave
<1>t. frame \in [Threads -> Frame]
  BY DEF Named, TypeOK
<1> QED
  BY <1>t, GotoFrame DEF Skip, QueuesKept, NoNewSave, Alone

(* Switching secret, profile or queue                                      *)
LEMMA SwitchQueues ==
  ASSUME Named, NEW h \in Threads, frame[h].pc # "idle", NEW to,
         NEW next, next # "create.save",
         \/ SwitchSecret(h, to, next)
         \/ SetPPPoEProfile(h, to, next)
         \/ to # "absent" /\ SwitchQueue(h, to, next)
  PROVE  QueuesKept /\ NoNewSave
<1>1. PICK s \in Subs : frame[h].sub = s
  BY CallOn
<1>2. router[s] \in RouterEntry
  BY DEF Named, TypeOK
<1>3. CASE SwitchSecret(h, to, next)
  <2>1. [router[s] EXCEPT !.secret = to].queue = router[s].queue
    BY <1>2 DEF RouterEntry
  <2> QED
    BY <1>1, <1>3, <2>1, CommandQueue, SkipQueue DEF SwitchSecret
<1>4. CASE SetPPPoEProfile(h, to, next)
  <2>1. [router[s] EXCEPT !.profile = to].queue = router[s].queue
    BY <1>2 DEF RouterEntry
  <2> QED
    BY <1>1, <1>4, <2>1, CommandQueue, SkipQueue DEF SetPPPoEProfile
<1>5. CASE to # "absent" /\ SwitchQueue(h, to, next)
  <2>1. [router[s] EXCEPT !.queue = to].queue = to
    BY <1>2 DEF RouterEntry
  <2> QED
    BY <1>1, <1>5, <2>1, CommandQueue, SkipQueue DEF SwitchQueue
<1> QED
  BY <1>3, <1>4, <1>5

(* A step that changes neither routers nor queue ids, and ends or goes on  *)
(* elsewhere.                                                              *)
LEMMA PlainQueues ==
  ASSUME Named, NEW h \in Threads, UNCHANGED router,
         \A s \in Subs : rows'[s].queue = rows[s].queue,
         \/ Return(h)
         \/ \E pc : pc # "create.save" /\ Goto(h, pc)
         \/ \E s, pc : pc # "create.save" /\ ReadRow(h, s, pc)
         \/ UNCHANGED frame
  PROVE  QueuesKept /\ NoNewSave
<1>t. frame \in [Threads -> Frame]
  BY DEF Named, TypeOK
<1> QED
  BY <1>t, GotoFrame, ReturnFrame, ReadRowFrame DEF QueuesKept, NoNewSave, Alone

(* Every step of a subscription request                                    *)
LEMMA SubscriptionQueues ==
  ASSUME QueueInv, NEW h \in Handlers, SubscriptionCall(h)
  PROVE  QueueIdIsReal' /\ SavesReal'
<1>t. /\ h \in Threads /\ Named
      /\ frame \in [Threads -> Frame] /\ rows \in [Subs -> Row]
      /\ router \in [Subs -> RouterEntry]
  BY DEF QueueInv, Named, TypeOK, Threads
<1>k. ASSUME QueuesKept /\ NoNewSave
      PROVE  QueueIdIsReal' /\ SavesReal'
  BY <1>k, KeptQueueInv
<1>e. ASSUME DBError(h)
      PROVE  QueueIdIsReal' /\ SavesReal'
  BY <1>e, <1>t, <1>k, PlainQueues DEF DBError
<1>1. ASSUME NEW s \in Subs, NEW plan \in Plans, NEW grace \in Graces,
             NEW day \in 1..Month, Create(h, s, plan, grace, day)
      PROVE  QueueIdIsReal' /\ SavesReal'
  <2>1. QueuesKept
    BY <1>1, <1>t DEF Create, NewRow, QueuesKept
  <2>2. NoNewSave
    <3>1. CASE UNCHANGED frame
      BY <3>1 DEF NoNewSave
    <3>2. CASE frame' = [frame EXCEPT ![h] = [frame[h] EXCEPT
                           !.pc = "create.plan", !.sub = s, !.plan = plan]]
      <4>1. Alone(h) /\ frame'[h] = [frame[h] EXCEPT !.pc = "create.plan",
                                                     !.sub = s, !.plan = plan]
        BY <3>2, <1>t DEF Alone
      <4>2. frame'[h].pc = "create.plan"
        BY <4>1, <1>t DEF Frame
      <4> QED
        BY <4>1, <4>2 DEF Alone, NoNewSave
    <3> QED
      BY <1>1, <3>1, <3>2 DEF Create
  <2> QED
    BY <1>k, <2>1, <2>2
<1>2. CASE CreateReadPlan(h)
  <2>1. QueuesKept /\ NoNewSave
    BY <1>2, <1>t, PlainQueues DEF CreateReadPlan
  <2> QED
    BY <1>k, <2>1
<1>3. CASE AddPPPoESecret(h)
  <2>1. PICK s \in Subs : frame[h].sub = s
    BY <1>3, <1>t, CallOn DEF AddPPPoESecret, At
  <2> DEFINE entry == [router[s] EXCEPT !.secret = "enabled",
                                  !.profile = planProfile(frame[h].plan)]
  <2>2. entry.queue = router[s].queue
    BY <1>t DEF RouterEntry
  <2>3. \/ Skip(h, "create.queue")
        \/ Command(h, s, router[s].secret = "absent", entry, "create.queue")
    BY <1>3, <2>1 DEF AddPPPoESecret
  <2>4. CASE Skip(h, "create.queue")
    BY <2>4, <1>t, <1>k, SkipQueue
  <2>5. CASE Command(h, s, router[s].secret = "absent", entry, "create.queue")
    <3>1. /\ Goto(h, "create.queue") /\ UNCHANGED rows
          /\ UNCHANGED router \/ router' = [router EXCEPT ![s] = entry]
      BY <2>5 DEF Command
    <3> HIDE DEF entry
    <3>2. QueuesKept
      BY <2>2, <3>1, <1>t DEF QueuesKept
    <3>3. NoNewSave
      BY <3>1, <1>t, GotoFrame DEF NoNewSave, Alone
    <3> QED
      BY <1>k, <3>2, <3>3
  <2> QED
    BY <2>3, <2>4, <2>5
<1>4. CASE CreateQueue(h)
  <2>1. PICK s \in Subs : frame[h].sub = s
    BY <1>4, <1>t, CallOn DEF CreateQueue, At
  <2>2. /\ UNCHANGED rows
        /\ UNCHANGED router \/ router' = [router EXCEPT ![s].queue = "enabled"]
    BY <1>4, <2>1 DEF CreateQueue
  <2>3. QueuesKept
    BY <2>2, <1>t DEF QueuesKept, RouterEntry
  <2>4. CASE Return(h)
    BY <2>3, <2>4, <1>t, <1>k, ReturnFrame DEF NoNewSave, Alone
  <2>5. CASE /\ Goto(h, "create.save")
             /\ router' = [router EXCEPT ![s].queue = "enabled"]
    <3>1. Alone(h) /\ frame'[h].sub = s
      BY <2>1, <2>5, <1>t, GotoFrame
    <3>2. router'[s].queue = "enabled"
      BY <2>5, <1>t DEF RouterEntry
    <3>3. SavesReal'
      BY <2>3, <3>1, <3>2
         DEF SavesReal, QueueInv, Alone, QueuesKept, Named, CallsNamed
    <3>4. QueueIdIsReal'
      BY <2>2, <2>3 DEF QueueInv, QueueIdIsReal, QueuesKept
    <3> QED
      BY <3>3, <3>4
  <2> QED
    BY <1>4, <2>1, <2>4, <2>5 DEF CreateQueue
<1>5. CASE UpdateMikroTikQueueID(h)
  <2>1. CASE DBError(h)
    BY <1>e, <2>1
  <2>2. CASE ~DBError(h)
    <3>1. /\ rows' = [rows EXCEPT ![frame[h].sub].queue = TRUE]
          /\ Return(h) /\ UNCHANGED router /\ frame[h].pc = "create.save"
      BY <1>5, <2>2 DEF UpdateMikroTikQueueID, At
    <3>2. QueuesKept
      BY <3>1, <1>t DEF QueuesKept
    <3>3. NoNewSave
      BY <3>1, <1>t, ReturnFrame DEF NoNewSave, Alone
    <3> QED
      BY <1>k, <3>2, <3>3
  <2> QED
    BY <2>1, <2>2
<1>6. ASSUME NEW s \in Subs, Disconnect(h, s) \/ Reconnect(h, s)
      PROVE  QueueIdIsReal' /\ SavesReal'
  <2>1. QueuesKept /\ NoNewSave
    BY <1>6, <1>t, PlainQueues
       DEF Disconnect, Reconnect, ReconnectRead, GetMTExecutor
  <2> QED
    BY <1>k, <2>1
<1>7. CASE DisconnectPPPoE(h) \/ ReconnectPPPoE(h)
  BY <1>7, <1>t, <1>k, SwitchQueues DEF DisconnectPPPoE, ReconnectPPPoE, At
<1>8. CASE DisconnectQueue(h) \/ ReconnectQueue(h)
  BY <1>8, <1>t, <1>k, SwitchQueues DEF DisconnectQueue, ReconnectQueue, At
<1>9. CASE ReconnectProfile(h)
  <2>1. frame[h].pc = "reconnect.profile"
    BY <1>9 DEF ReconnectProfile, At
  <2>2. CASE Goto(h, "reconnect.queue") /\ UNCHANGED <<rows, router>>
    BY <2>2, <1>t, <1>k, PlainQueues
  <2>3. CASE SetPPPoEProfile(h, planProfile(frame[h].plan), "reconnect.queue")
    BY <2>1, <2>3, <1>t, <1>k, SwitchQueues
  <2> QED
    BY <1>9, <2>2, <2>3 DEF ReconnectProfile
<1>10. CASE DisconnectStatus(h) \/ ReconnectStatus(h)
  <2>1. CASE DBError(h)
    BY <1>e, <2>1
  <2>2. CASE ~DBError(h)
    <3>1. Return(h) /\ \E status : UpdateStatus(h, status)
      BY <1>10, <2>2 DEF DisconnectStatus, ReconnectStatus
    <3>2. UNCHANGED router /\ \A s \in Subs : rows'[s].queue = rows[s].queue
      BY <3>1, <1>t DEF UpdateStatus, Row
    <3> QED
      BY <3>1, <3>2, <1>t, <1>k, PlainQueues
  <2> QED
    BY <2>1, <2>2
<1> QED
  BY <1>1, <1>2, <1>3, <1>4, <1>5, <1>6, <1>7, <1>8, <1>9, <1>10
     DEF SubscriptionCall

(* Every other step                                                        *)
LEMMA OtherQueues ==
  ASSUME QueueInv,
         \/ \E h \in Handlers : PaymentCall(h)
         \/ EditCall \/ OverdueCheck \/ Day \/ Restart \/ UNCHANGED vars
  PROVE  QueuesKept /\ NoNewSave
<1>t. /\ Handlers \subseteq Threads /\ Cron \in Threads /\ Named
      /\ frame \in [Threads -> Frame] /\ rows \in [Subs -> Row]
  BY DEF QueueInv, Named, TypeOK, Threads
<1>1. ASSUME NEW h \in Handlers, PaymentCall(h)
      PROVE  QueuesKept /\ NoNewSave
  <2>1. ASSUME NEW p \in Payments, NEW s \in Subs, CreatePayment(h, p, s)
        PROVE  QueuesKept /\ NoNewSave
    BY <2>1 DEF CreatePayment, subVars, QueuesKept, NoNewSave
  <2>2. ASSUME NEW p \in Payments, Approve(h, p) \/ Reject(h, p)
        PROVE  QueuesKept /\ NoNewSave
    <3>1. PICK pc \in {"approve.write", "reject.write"} : ReadPending(h, p, pc)
      BY <2>2 DEF Approve, Reject
    <3>2. /\ UNCHANGED <<rows, router>> /\ Alone(h)
          /\ frame'[h] = [frame[h] EXCEPT !.pc = pc, !.pay = p, !.sub = pay[p].sub]
      BY <3>1, <1>t DEF ReadPending, Alone
    <3>3. frame'[h].pc = pc
      BY <3>2, <1>t DEF Frame
    <3> QED
      BY <3>2, <3>3 DEF QueuesKept, NoNewSave, Alone
  <2>3. CASE ApproveAdvance(h)
    <3>1. /\ UNCHANGED router
          /\ Return(h) \/ Goto(h, "approve.reread")
          /\ \/ UNCHANGED rows
             \/ rows' = [rows EXCEPT ![frame[h].sub].due
                                       = AdvanceDueDate(frame[h].sub)]
      BY <2>3 DEF ApproveAdvance, DBError
    <3>2. \A s \in Subs : rows'[s].queue = rows[s].queue
      BY <3>1, <1>t DEF Row
    <3> QED
      BY <3>1, <3>2, <1>t, PlainQueues
  <2>4. CASE ApproveWrite(h) \/ ApproveReread(h) \/ RejectWrite(h)
    BY <2>4, <1>t, PlainQueues DEF ApproveWrite, ApproveReread, RejectWrite
  <2>5. CASE ApproveReconnect(h)
    BY <2>5, <1>t, PlainQueues
       DEF ApproveReconnect, ReconnectRead, GetMTExecutor, DBError
  <2> QED
    BY <1>1, <2>1, <2>2, <2>3, <2>4, <2>5 DEF PaymentCall
<1>2. CASE EditCall
  <2>1. PICK s \in Subs, status \in Statuses, plan \in Plans, grace \in Graces :
          Update(s, status, plan, grace)
    BY <1>2 DEF EditCall, SubscriptionUpdate
  <2>2. UNCHANGED <<router, frame>> /\ \A x \in Subs : rows'[x].queue = rows[x].queue
    BY <2>1, <1>t DEF Update, Row
  <2> QED
    BY <2>2 DEF QueuesKept, NoNewSave
<1>3. CASE OverdueCheck
  <2>1. CASE CheckOverdue
    BY <2>1 DEF CheckOverdue, subVars, QueuesKept, NoNewSave
  <2>2. ASSUME NEW s \in Subs, MarkNext(s)
        PROVE  QueuesKept /\ NoNewSave
    BY <2>2, <1>t, PlainQueues DEF MarkNext, MarkOverdue, GetMTExecutor, subVars
  <2>3. CASE MarkNextProfile
    BY <2>3, <1>t, SwitchQueues DEF MarkNextProfile, MarkOverdueProfile, At
  <2>4. CASE MarkNextStatus
    <3>1. CASE DBError(Cron)
      BY <3>1, <1>t, PlainQueues DEF DBError
    <3>2. CASE UpdateStatus(Cron, "overdue") /\ Goto(Cron, "overdue.sms")
      <4>1. UNCHANGED router /\ \A s \in Subs : rows'[s].queue = rows[s].queue
        BY <3>2, <1>t DEF UpdateStatus, Row
      <4> QED
        BY <3>2, <4>1, <1>t, PlainQueues
    <3> QED
      BY <2>4, <3>1, <3>2 DEF MarkNextStatus
  <2>5. CASE SendDisconnectionSMS
    BY <2>5, <1>t, PlainQueues DEF SendDisconnectionSMS
  <2> QED
    BY <1>3, <2>1, <2>2, <2>3, <2>4, <2>5 DEF OverdueCheck
<1>4. CASE Day \/ UNCHANGED vars
  BY <1>4 DEF Day, Tick, vars, subVars, QueuesKept, NoNewSave
<1>5. CASE Restart
  BY <1>5 DEF Restart, Idle, QueuesKept, NoNewSave
<1> QED
  BY <1>1, <1>2, <1>3, <1>4, <1>5

(* Every step of the server preserves the invariant.                       *)
LEMMA QueueStep ==
  ASSUME QueueInv, [Next]_vars
  PROVE  QueueInv'
<1>1. Named'
  BY NamedStep DEF QueueInv
<1>2. QueueIdIsReal' /\ SavesReal'
  <2>1. ASSUME NEW h \in Handlers, SubscriptionCall(h)
        PROVE  QueueIdIsReal' /\ SavesReal'
    BY <2>1, SubscriptionQueues
  <2>2. ASSUME \/ \E h \in Handlers : PaymentCall(h)
               \/ EditCall \/ OverdueCheck \/ Day \/ Restart \/ UNCHANGED vars
        PROVE  QueueIdIsReal' /\ SavesReal'
    BY <2>2, OtherQueues, KeptQueueInv
  <2> QED
    BY <2>1, <2>2 DEF Next, HTTPCall
<1> QED
  BY <1>1, <1>2 DEF QueueInv

(* There are no queues when the server starts.                             *)
LEMMA QueueInit == Init => QueueInv
BY NamedInit DEF Init, SubscriptionsInit, Idle, NoRow, QueueInv, QueueIdIsReal,
   SavesReal

(***************************************************************************)
(* A queue id in a row is always that of a queue on the router, also when  *)
(* the server dies between the router's answer and the id's UPDATE, or the *)
(* answer is lost.                                                         *)
(***************************************************************************)
THEOREM QueueIdsAreReal == Spec => []QueueIdIsReal
<1>1. QueueInv => QueueIdIsReal
  BY DEF QueueInv
<1> QED
  BY <1>1, QueueInit, QueueStep, PTL DEF Spec

=============================================================================
