---------------------------- MODULE MessagesPage ----------------------------
(***************************************************************************)
(* pages/admin/Messages.tsx: SMS to one customer, to a group or from a     *)
(* template, the quick actions beside them, the history and the templates. *)
(* A row says whether the history has a message to the customer. The list  *)
(* is the history's; it is fetched when its tab is entered, and is stale   *)
(* before. Customers and templates, fetched on mount, only fill the forms. *)
(***************************************************************************)
EXTENDS Page

Values == {"none", "sent"}

(* The skeleton stands for the page on the first load; the modals cover it. *)
Uncovered == Idle("loading") /\ st.dlg = None
On(tab) == Uncovered /\ st.tab = tab

fetchHistory(p) == <<Read("list", {"historyLoading"}, [page |-> p])>>

(* The effect of entering the history's tab goes to its first page. *)
setTab(t) ==
    /\ Uncovered /\ t # st.tab
    /\ IF t = "history"
       THEN Do([st EXCEPT !.tab = t, !.q.page = 1], fetchHistory(1))
       ELSE Do([st EXCEPT !.tab = t], <<>>)

(* A spinner replaces the table and its pages while they load. *)
Paginate(p) ==
    /\ On("history") /\ Idle("historyLoading")
    /\ p \in {st.q.page - 1, st.q.page + 1} /\ p \in 1..LastPage
    /\ Do([st EXCEPT !.q.page = p], fetchHistory(p))

(* The form stays usable while a message is sent. *)
setSendMode(m) == On("send") /\ m # st.mode /\ Do([st EXCEPT !.mode = m, !.message = ""], <<>>)
setMessage(t) ==
    /\ On("send") /\ st.mode # "template" /\ t # st.message
    /\ Do([st EXCEPT !.message = t], <<>>)
setSelectedRecipient(i) ==
    /\ On("send") /\ st.mode = "individual"
    /\ (st.recipient = None) # (i = None)
    /\ Do([st EXCEPT !.recipient = i], <<>>)

(* Deviation: the send buttons are not disabled while a message is sent.    *)
CanSendAgain(mode) == On("send") /\ st.mode = mode

CanSend(mode) == On("send") /\ st.mode = mode /\ Idle("sending")

handleSendIndividual ==
    /\ CanSend("individual") /\ st.recipient # None /\ st.message # ""
    /\ Do([st EXCEPT !.stale = TRUE],
          <<Write("send", {"sending"}, st.q, st.recipient, "sent")>>)

(* The modal's closure holds the message and the group that were there when *)
(* it was opened.                                                           *)
setConfirmModal(mode) ==
    /\ CanSend(mode)
    /\ mode = "group" => st.message # ""
    /\ Do([st EXCEPT !.dlg = [kind |-> mode, item |-> None]], <<>>)

handleConfirm ==
    /\ DialogIs("group") \/ DialogIs("template")
    /\ Idle("sending")
    /\ Do([st EXCEPT !.stale = TRUE], <<Write(st.dlg.kind, {"sending"}, st.q, None, "sent")>>)

(* What was sent is cleared from the form, and what was typed meanwhile     *)
(* with it. The modal of a group closes, also after an error.               *)
Unconfirmed(s) == [s EXCEPT !.dlg = IF DialogIs("edit") THEN @ ELSE None]
MessageSent(i) ==
    \/ Ok(i, "send") /\ Answer(i, [st EXCEPT !.message = "", !.recipient = None], <<>>)
    \/ Failed(i, "send") /\ Answer(i, st, <<>>)
    \/ Ok(i, "group") /\ Answer(i, Unconfirmed([st EXCEPT !.message = ""]), <<>>)
    \/ /\ Failed(i, "group") \/ Answered(i, "template")
       /\ Answer(i, Unconfirmed(st), <<>>)

(* A click beside a modal closes it, also during its call. *)
CloseModal == Close

(* One field remembers the quick action that runs and disables all three    *)
(* buttons; the open list of whom to welcome is not disabled.               *)
QuickButton == On("send") /\ st.quickLoading = None
setShowWelcomeDropdown == QuickButton /\ Do([st EXCEPT !.dropdown = ~@], <<>>)
handleQuickAction(action, i) ==
    /\ IF action = "send-welcome" THEN On("send") /\ st.dropdown ELSE QuickButton
    /\ Do([st EXCEPT !.quickLoading = action, !.stale = TRUE,
                     !.dropdown = IF action = "send-welcome" THEN FALSE ELSE @],
          <<IF action = "send-welcome" THEN Write(action, {}, st.q, i, "sent")
                                       ELSE Write(action, {}, st.q, None, None)>>)
QuickDone(i) ==
    /\ Answered(i, "send-reminders") \/ Answered(i, "send-welcome")
    /\ Answer(i, [st EXCEPT !.quickLoading = None], <<>>)

setEditingTemplate(i) == On("templates") /\ Dialog("edit", i)
handleSave ==
    /\ DialogIs("edit") /\ Idle("saving")
    /\ Do(st, <<Write("save", {"saving"}, st.q, st.dlg.item, None)>>)

(* The template's modal that is open now closes. *)
Saved(i) ==
    \/ /\ Ok(i, "save")
       /\ Answer(i, IF DialogIs("edit") THEN [st EXCEPT !.dlg = None] ELSE st,
                 <<Read("templates", {}, st.q)>>)
    \/ Failed(i, "save") /\ Answer(i, st, <<>>)

Loaded(i) ==
    /\ Answered(i, "customers") \/ Answered(i, "templates")
    /\ Answer(i, st, <<>>)

Init ==
    /\ page = "messages"
    /\ st = With(Blank([page |-> 1]),
              [stale |-> TRUE, busy |-> {"loading"}, tab |-> "send", mode |-> "individual",
               recipient |-> None, message |-> "", quickLoading |-> None, dropdown |-> FALSE])
    /\ net = <<Read("customers", {"loading"}, [page |-> 1])>>
    /\ db = [i \in Item |-> "none"]

Next ==
    \/ \E t \in {"send", "history", "templates"} : setTab(t)
    \/ \E p \in 1..LastPage : Paginate(p)
    \/ \E m \in {"individual", "group", "template"} : setSendMode(m) \/ (m # "individual" /\ setConfirmModal(m))
    \/ \E t \in Texts : setMessage(t)
    \/ \E i \in Item \cup {None} : setSelectedRecipient(i)
    \/ handleSendIndividual \/ handleConfirm \/ CloseModal \/ handleSave
    \/ setShowWelcomeDropdown \/ handleQuickAction("send-reminders", None)
    \/ \E i \in Item : handleQuickAction("send-welcome", i) \/ setEditingTemplate(i)
    \/ \E i \in Calls : MessageSent(i) \/ QuickDone(i) \/ Saved(i) \/ Loaded(i) \/ Fetched(i)
    \/ OtherUser({"sent"})

(* The modal a finished send closes is the one it was confirmed in.         *)
ModalOfTheSend ==
    \A c \in Range(net) : c.op \in {"group", "template"} /\ st.dlg # None =>
        st.dlg.kind \in {c.op, "edit"}

=============================================================================
