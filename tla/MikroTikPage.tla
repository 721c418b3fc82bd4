---------------------------- MODULE MikroTikPage ----------------------------
(***************************************************************************)
(* pages/admin/MikroTik.tsx: the router's status, its connections and its  *)
(* PPPoE secrets, read on mount, every 30 s and on demand; the dialogs     *)
(* that test and save the router's address, add a secret and delete one.   *)
(* A row says whether the secret is there. Connections, the search, the    *)
(* countdown, the setup guide and the result of a test only display.       *)
(***************************************************************************)
EXTENDS Page

Values == {"there", "gone"}

(* The skeleton is there until a status was read; a modal covers the page.  *)
Shows == Idle("loading") \/ st.status # None
Uncovered == Shows /\ st.dlg = None
Secrets == {i \in Rows : Shown(i) = "there"}

loadPPPoESecrets(flags) == <<Read("list", flags, st.q)>>
fetchData(flags) == <<Read("status", flags, st.q)>>

(* The interval goes on whatever is still under way. *)
AutoRefresh == Send(st, fetchData({}))
handleManualRefresh == Uncovered /\ Idle("loading") /\ Do(st, fetchData({"loading"}))

(* Every fetchData ends the loading, also that of another one. *)
Ended(s) == [s EXCEPT !.busy = @ \ {"loading"}]

(* Status and connections; the secrets are read next if the router answers. *)
StatusRead(i) ==
    \/ /\ Ok(i, "status")
       /\ \/ Answer(i, [st EXCEPT !.status = "up"], loadPPPoESecrets(net[i].flags))
          \/ Answer(i, Ended([st EXCEPT !.status = "down"]), <<>>)
    \/ Failed(i, "status") /\ Answer(i, Ended(st), <<>>)

SecretsRead(i) ==
    LET s == IF net[i].flags \cap {"addingSecret", "deletingSecret"} = {} THEN Ended(st) ELSE st
    IN  \/ Ok(i, "list") /\ Answer(i, Show(s, i), <<>>)
        \/ Failed(i, "list") /\ Answer(i, s, <<>>)

handleSendReminders ==
    Uncovered /\ Idle("sendingReminders") /\ Do(st, <<Write("reminders", {"sendingReminders"}, st.q, None, None)>>)

setShowModal(kind) == Uncovered /\ Dialog(kind, None)
setDeleteTarget(i) == Uncovered /\ i \in Secrets /\ Dialog("delete", i)

(* Escape, Cancel, or a click beside; the deletion cannot be left.          *)
CloseModal == Shows /\ (DialogIs("delete") => Idle("deletingSecret")) /\ Close

Submit(kind, flag, to) ==
    /\ Shows /\ DialogIs(kind) /\ Idle(flag)
    /\ Do(st, <<Write(kind, {flag}, st.q, st.dlg.item, to)>>)
handleTestConnection == Submit("test", "testingConn", None)
handleSaveConfig == Submit("config", "savingConfig", None)
handleAddSecret == Submit("add", "addingSecret", None)
handleDeleteSecret == Submit("delete", "deletingSecret", "gone")

(* The dialog closes, whether it is still that of the call or, except for a *)
(* deletion, was opened anew.                                               *)
Closed(kind) == IF DialogIs(kind) THEN [st EXCEPT !.dlg = None] ELSE st

Submitted(i) ==
    \/ Ok(i, "config") /\ Answer(i, Closed("config"), fetchData(net[i].flags))
    \/ Ok(i, "add") /\ Answer(i, Closed("add"), loadPPPoESecrets(net[i].flags))
    \/ Ok(i, "delete") /\ Answer(i, Closed("delete"), loadPPPoESecrets(net[i].flags))
    \/ /\ \/ Answered(i, "test") \/ Answered(i, "reminders")
          \/ Failed(i, "config") \/ Failed(i, "add") \/ Failed(i, "delete")
       /\ Answer(i, st, <<>>)

Init ==
    \E i \in Item :
        /\ page = "mikrotik"
        /\ st = With(Blank([all |-> TRUE]), [busy |-> {"loading"}, stale |-> TRUE, status |-> None])
        /\ net = <<Read("status", {"loading"}, [all |-> TRUE])>>
        /\ db = [j \in Item |-> IF j = i THEN "gone" ELSE "there"]

Next ==
    \/ AutoRefresh \/ handleManualRefresh \/ handleSendReminders
    \/ \E k \in {"test", "config", "add"} : setShowModal(k)
    \/ \E i \in Item : setDeleteTarget(i)
    \/ CloseModal \/ handleTestConnection \/ handleSaveConfig
    \/ handleAddSecret \/ handleDeleteSecret
    \/ \E i \in Calls : StatusRead(i) \/ SecretsRead(i) \/ Submitted(i)
    \/ OtherUser(Values)

=============================================================================
