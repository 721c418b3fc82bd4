------------------------- MODULE SubscriptionsPage -------------------------
(***************************************************************************)
(* pages/admin/Subscriptions.tsx: the list of subscriptions, the form that *)
(* creates or changes one, the dialog that disconnects one and the button  *)
(* that reconnects one. The rows are the subscriptions' states. While the  *)
(* list loads a skeleton stands for the whole page.                        *)
(***************************************************************************)
EXTENDS Page

Values == {"active", "suspended"}
Filters == {"all", "active"}

Loaded == Idle("loading")
Uncovered == Loaded /\ st.dlg = None

TypeSearch(t) == Uncovered /\ Type(t)
Debounce == Settle
handleFilterChange(f) == Uncovered /\ Filter(f)
Paginate(p) == Uncovered /\ Turn(p)

openAdd == Uncovered /\ Dialog("form", None)
openEdit(i) == Uncovered /\ i \in Listed /\ Dialog("form", i)

(* Offered in the rows of active and overdue subscriptions. *)
confirmDisconnect(i) ==
    Uncovered /\ i \in Listed /\ Shown(i) = "active" /\ Dialog("disconnect", i)

(* Deviation: the disconnect dialog can be left during its call.            *)
CloseDialogAnyTime == Loaded /\ Idle("submitting") /\ Close

(* Cancel, or a click beside the dialog; neither works during the call. *)
CloseDialog == Loaded /\ Idle("submitting") /\ Idle("disconnecting") /\ Close

(* The form is valid: a customer, a plan, a billing day in 1..28, both or   *)
(* none of the PPPoE fields. An invalid one only shows its errors.          *)
handleSubmit ==
    /\ Loaded /\ DialogIs("form") /\ Idle("submitting")
    /\ Do(st, <<Write("save", {"submitting"}, st.q, st.dlg.item, None)>>)

handleDisconnectConfirmed ==
    /\ Loaded /\ DialogIs("disconnect") /\ Idle("disconnecting")
    /\ Do(st, <<Write("disconnect", {"disconnecting"}, st.q, st.dlg.item, "suspended")>>)

(* One state field remembers the row whose reconnect is under way; only     *)
(* that row's button is disabled.                                           *)
handleReconnect(i) ==
    /\ Uncovered /\ i \in Listed /\ Shown(i) = "suspended" /\ st.reconnectingId # i
    /\ Do([st EXCEPT !.reconnectingId = i], <<Write("reconnect", {}, st.q, i, "active")>>)

(* After a write that was accepted its dialog closes and the list, the      *)
(* customers, the plans and the counts are fetched together by the closure  *)
(* of the click; the write's flag is set until then.                        *)
Saved(i) ==
    \/ /\ Ok(i, "save") \/ Ok(i, "disconnect")
       /\ Answer(i, [st EXCEPT !.dlg = None],
                 <<Read("list", {"loading"} \cup net[i].flags, net[i].q)>>)
    \/ /\ Failed(i, "save") \/ Failed(i, "disconnect")
       /\ Answer(i, st, <<>>)

(* The list that follows a reconnect ends it (its finally). *)
Reconnected(i) ==
    \/ /\ Ok(i, "reconnect")
       /\ Answer(i, st, <<[Read("list", {"loading"}, net[i].q) EXCEPT !.item = net[i].item]>>)
    \/ /\ Failed(i, "reconnect")
       /\ Answer(i, [st EXCEPT !.reconnectingId = None], <<>>)

fetchData(i) ==
    LET s == IF net[i].item = None THEN st ELSE [st EXCEPT !.reconnectingId = None]
    IN  \/ Ok(i, "list") /\ Answer(i, Show(s, i), <<>>)
        \/ Failed(i, "list") /\ Answer(i, s, <<>>)

Init ==
    \E f \in Filters, i \in Item :
        Mount("subscriptions", With(ListPage(f), [reconnectingId |-> None]),
              [j \in Item |-> IF j = i THEN "suspended" ELSE "active"])

Next ==
    \/ \E t \in Texts : TypeSearch(t)
    \/ Debounce \/ CloseDialog \/ openAdd \/ handleSubmit \/ handleDisconnectConfirmed
    \/ \E f \in Filters : handleFilterChange(f)
    \/ \E p \in 1..LastPage : Paginate(p)
    \/ \E i \in Item : openEdit(i) \/ confirmDisconnect(i) \/ handleReconnect(i)
    \/ \E i \in Calls : Saved(i) \/ Reconnected(i) \/ fetchData(i)
    \/ OtherUser(Values)

=============================================================================
