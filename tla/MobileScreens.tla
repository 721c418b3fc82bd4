--------------------------- MODULE MobileScreens ---------------------------
(***************************************************************************)
(* The screens of the mobile application, under src/mobile/app: lists that *)
(* are pulled down to be read again (home, clients, payments, plan), the   *)
(* technician's client and payment, the customer's form for a payment, and *)
(* the profile. All read with hooks/useApi.ts. A row is the state of a     *)
(* subscription or payment. What follows the end of the session is in      *)
(* MobileSession. A screen that is left ends: it ignores later answers.    *)
(***************************************************************************)
EXTENDS Page

Screens == {"list", "client", "payment", "newPayment", "profile"}
Clients == {"active", "suspended"}
Payments == {"pending", "approved", "rejected"}

(* useApi: what is asked for replaces what is shown; an error keeps it.     *)
refetch == Fetch(st.q)
useApi(i) == Fetched(i)

Loaded == Idle("loading")
Alerted == st.dlg # None

(* The control is never shown as refreshing: a list can be pulled again     *)
(* while it loads.                                                          *)
onRefresh == page = "list" /\ Do(st, refetch)

-----------------------------------------------------------------------------
(* A native alert asks before a write and reports its end; nothing else     *)
(* works while it is there.                                                 *)

Ask(kind) == ~Alerted /\ Dialog(kind, st.subject)
Cancel(kinds) == Alerted /\ st.dlg.kind \in kinds /\ Close
Confirm(kind, flag, to) ==
    /\ DialogIs(kind)
    /\ Do([st EXCEPT !.dlg = None, !.stale = TRUE], <<Write(kind, {flag}, st.q, st.subject, to)>>)

(* The alert of the answer; the screen may show another one by then.        *)
Report(i) ==
    LET kind == IF net[i].status = "ok" THEN "done" ELSE "error"
    IN  Answer(i, [st EXCEPT !.dlg = [kind |-> kind, item |-> st.subject]], <<>>)

CanAct(value) ==
    Loaded /\ st.subject \in Rows /\ Shown(st.subject) = value /\ Idle("processing")

(* clients/[id].tsx: its buttons are there for the state that was read; the *)
(* client is read again when the report is dismissed.                       *)
OnClient == page = "client"
handleDisconnect == OnClient /\ CanAct("active") /\ Ask("disconnect")
handleReconnect == OnClient /\ CanAct("suspended") /\ Ask("reconnect")
doDisconnect == OnClient /\ Confirm("disconnect", "processing", "suspended")
doReconnect == OnClient /\ Confirm("reconnect", "processing", "active")
dismissClient ==
    /\ OnClient
    /\ \/ DialogIs("done") /\ Do([st EXCEPT !.dlg = None], refetch)
       \/ Cancel({"error", "disconnect", "reconnect"})

(* payments/[id].tsx: a rejection needs notes; after a decision the only    *)
(* way is back, out of the screen.                                          *)
OnPayment == page = "payment"
handleApprove == OnPayment /\ CanAct("pending") /\ Ask("approve")
handleReject == OnPayment /\ CanAct("pending") /\ st.notes /\ Ask("reject")
setNotes == /\ OnPayment /\ CanAct("pending") /\ ~Alerted
            /\ Do([st EXCEPT !.notes = ~@], <<>>)
doApprove == OnPayment /\ Confirm("approve", "processing", "approved")
doReject == OnPayment /\ Confirm("reject", "processing", "rejected")
dismissPayment == OnPayment /\ Cancel({"error", "approve", "reject"})

(* payments/submit.tsx: needs a method and a subscription, the first one    *)
(* the customer has.                                                        *)
OnSubmit == page = "newPayment"
setMethod == OnSubmit /\ ~Alerted /\ ~st.notes /\ Do([st EXCEPT !.notes = TRUE], <<>>)
handleSubmit ==
    /\ OnSubmit /\ ~Alerted /\ Idle("processing") /\ st.notes /\ Rows # {}
    /\ Do([st EXCEPT !.stale = TRUE], <<Write("submit", {"processing"}, st.q, st.subject, "pending")>>)
dismissSubmit == OnSubmit /\ Cancel({"error"})

Reported(i) ==
    /\ net[i].status # "sent" /\ net[i].op \notin Reads
    /\ page \in {"client", "payment", "newPayment"}
    /\ Report(i)

-----------------------------------------------------------------------------
(* profile.tsx: the profile, the password and, for customers, the position; *)
(* the user is read again after a change, and the modal closes after that.  *)
OnProfile == page = "profile"
open(kind) == OnProfile /\ ~Alerted /\ Dialog(kind, None)
closeModal == OnProfile /\ Close
save(kind) ==
    /\ OnProfile /\ DialogIs(kind) /\ Idle(kind)
    /\ Do([st EXCEPT !.stale = TRUE], <<Write(kind, {kind}, st.q, st.subject, None)>>)
handleUpdateLocation ==
    /\ OnProfile /\ ~Alerted /\ Idle("location")
    /\ Do([st EXCEPT !.stale = TRUE], <<Write("location", {"location"}, st.q, st.subject, None)>>)

(* The modal that is open by then closes. *)
ClosedAs(kind, s) == IF DialogIs(kind) THEN [s EXCEPT !.dlg = None] ELSE s
ProfileSaved(i) ==
    /\ OnProfile /\ net[i].op \notin Reads
    /\ \/ /\ Ok(i, "profile") \/ Ok(i, "location")
          /\ Answer(i, st, <<[Read("list", net[i].flags, st.q) EXCEPT !.item = net[i].op]>>)
       \/ Ok(i, "password") /\ Answer(i, ClosedAs("password", st), <<>>)
       \/ net[i].status = "failed" /\ Answer(i, st, <<>>)

(* An error of refreshUser is swallowed: the modal closes all the same.     *)
refreshUser(i) ==
    /\ OnProfile
    /\ \/ Ok(i, "list") /\ Answer(i, ClosedAs(net[i].item, Show(st, i)), <<>>)
       \/ Failed(i, "list") /\ Answer(i, ClosedAs(net[i].item, st), <<>>)

-----------------------------------------------------------------------------
Screen(p, i, value) ==
    Mount(p, With(Blank([all |-> TRUE]), [subject |-> i, notes |-> FALSE]),
          [j \in Item |-> value])

Init ==
    \E i \in Item :
        \/ \E v \in Clients : Screen("client", i, v) \/ Screen("profile", i, v)
        \/ \E p \in {"payment", "newPayment", "list"} : Screen(p, i, "pending")

Next ==
    \/ onRefresh
    \/ handleDisconnect \/ handleReconnect \/ doDisconnect \/ doReconnect \/ dismissClient
    \/ handleApprove \/ handleReject \/ setNotes \/ doApprove \/ doReject \/ dismissPayment
    \/ setMethod \/ handleSubmit \/ dismissSubmit
    \/ \E k \in {"profile", "password"} : open(k) \/ save(k)
    \/ closeModal \/ handleUpdateLocation
    \/ \E i \in Calls : \/ Reported(i) \/ ProfileSaved(i) \/ refreshUser(i)
                        \/ page # "profile" /\ useApi(i)
    \/ OtherUser(IF page \in {"client", "profile"} THEN Clients ELSE Payments)

=============================================================================
