------------------------------ MODULE Clients ------------------------------
(***************************************************************************)
(* The pages of the web application and the screens of the mobile          *)
(* application over one back end. Mounted components share no state, so    *)
(* one of them, any, is mounted for the whole of a behaviour; leaving a    *)
(* page drops its state and the answers that are still to come.            *)
(***************************************************************************)
EXTENDS Page

Payments      == INSTANCE PaymentsPage
Subscriptions == INSTANCE SubscriptionsPage
Customers     == INSTANCE CustomersPage
Plans         == INSTANCE PlansPage
Staff         == INSTANCE StaffPage
Messages      == INSTANCE MessagesPage
MikroTik      == INSTANCE MikroTikPage
Settings      == INSTANCE SettingsPage
Dashboard     == INSTANCE DashboardPage
Logs          == INSTANCE LogsPage
Layout        == INSTANCE LayoutPage
SubmitPayment == INSTANCE SubmitPaymentPage
Mobile        == INSTANCE MobileScreens

Components ==
    {"payments", "subscriptions", "customers", "plans", "staff", "messages", "mikrotik",
     "settings", "dashboard", "logs", "layout", "submit"} \cup Mobile!Screens

(* Every component has its bound, nobody types the mask of a secret, and    *)
(* nothing is neither a number, a plan's state or count, a setting nor a    *)
(* list of settings.                                                        *)
ASSUME ClientsAssumption ==
    /\ Components \subseteq DOMAIN MaxActs
    /\ Settings!MASKED \notin Texts /\ None \notin Nat
    /\ None \notin Plans!Values \cup [of : Item, some : BOOLEAN]
    /\ None \notin {"old", Settings!MASKED} \cup [Item -> Texts \cup {"old", Settings!MASKED}]

Init ==
    \/ Payments!Init \/ Subscriptions!Init \/ Customers!Init \/ Plans!Init
    \/ Staff!Init \/ Messages!Init \/ MikroTik!Init \/ Settings!Init
    \/ Dashboard!Init \/ Logs!Init \/ Layout!Init \/ SubmitPayment!Init
    \/ Mobile!Init

Next ==
    \/ \E i \in Calls : Serve(i)
    \/ page = "payments"      /\ Payments!Next
    \/ page = "subscriptions" /\ Subscriptions!Next
    \/ page = "customers"     /\ Customers!Next
    \/ page = "plans"         /\ Plans!Next
    \/ page = "staff"         /\ Staff!Next
    \/ page = "messages"      /\ Messages!Next
    \/ page = "mikrotik"      /\ MikroTik!Next
    \/ page = "settings"      /\ Settings!Next
    \/ page = "dashboard"     /\ Dashboard!Next
    \/ page = "logs"          /\ Logs!Next
    \/ page = "layout"        /\ Layout!Next
    \/ page = "submit"        /\ SubmitPayment!Next
    \/ page \in Mobile!Screens /\ Mobile!Next

Spec == Init /\ [][Next]_vars

-----------------------------------------------------------------------------
(* Properties *)

ValuesOf(p) ==
    CASE p = "payments"      -> Payments!Values
      [] p = "subscriptions" -> Subscriptions!Values
      [] p = "customers"     -> Customers!Values
      [] p = "plans"         -> Plans!Values
      [] p = "staff"         -> Staff!Values
      [] p = "messages"      -> Messages!Values
      [] p = "mikrotik"      -> MikroTik!Values
      [] p = "settings"      -> Texts \cup {"old", Settings!MASKED}
      [] p = "dashboard"     -> Dashboard!Values
      [] p = "logs"          -> Logs!Values
      [] p = "layout"        -> Layout!Values
      [] p = "submit"        -> 0..MaxActs["submit"]
      [] OTHER               -> Mobile!Clients \cup Mobile!Payments

(* The types of what all components share. *)
TypeOK ==
    /\ page \in DOMAIN MaxActs
    /\ db \in [Item -> ValuesOf(page)]
    /\ st.acts \in 0..MaxActs[page] /\ st.stale \in BOOLEAN
    /\ st.list.rows = None \/ st.list.rows \in [Item -> ValuesOf(page)]
    /\ Len(net) <= MaxCalls
    /\ \A i \in Calls : net[i].status \in {"sent", "ok", "failed"}

(* Payments.tsx 251-276, Subscriptions.tsx 103-143 and the fetches of the   *)
(* other pages: when no answer and no timer is awaited, the list on the     *)
(* screen is what the back end has for the filter, the search and the page  *)
(* that are chosen, unless another user changed something since, a request  *)
(* failed, or fetches overlapped.  What is searched for is what the box     *)
(* says, 300 ms after the last keystroke (ActivityLogs.tsx 99-106: unless   *)
(* Clear was pressed within these 300 ms).                                  *)
Fresh ==
    /\ net = <<>> /\ ~st.timer /\ ~st.stale => st.list = [q |-> st.q, rows |-> db]
    /\ page = "logs" => Logs!SearchIsTheBox
    /\ page \in {"payments", "subscriptions", "customers", "staff"} =>
         st.timer \/ st.q.search = st.typed

(* The disabled buttons of dialogs and forms (`submitting', `action',       *)
(* `deletingSecret', `processing', ...): what they guard is not sent a      *)
(* second time, by another handler, or after the dialog was closed and      *)
(* opened again, before it is answered and the list that follows is there.  *)
OneWrite ==
    \A i, j \in Calls :
        i # j /\ net[i].op \notin Reads /\ net[j].op \notin Reads =>
            net[i].flags \cap net[j].flags = {}

(* The finally blocks: a spinner turns and a button is disabled only while  *)
(* a request is under way whose answer ends that, failed ones included.     *)
NoStuck == st.busy \subseteq Flags(net)

(* Subscriptions.tsx 652-713, MikroTik.tsx 1363-1404: the dialog in which a *)
(* write was confirmed is still the one that is open when its answer closes *)
(* a dialog; the number of subscribers a plan's dialog shows is that plan's *)
(* (Plans.tsx), and a message's dialog is that of the send under way        *)
(* (Messages.tsx).                                                          *)
OwnDialog ==
    /\ \A c \in Range(net) :
         \/ page = "subscriptions" /\ c.op \in {"save", "disconnect"}
         \/ page = "mikrotik" /\ c.op = "delete"
         => st.dlg # None /\ st.dlg.item = c.item
    /\ page = "plans" => Plans!CountIsOfTarget
    /\ page = "messages" => Messages!ModalOfTheSend

(* Settings.tsx 205-232: a tab that counts as saved shows what is stored,   *)
(* and a mask is never stored.                                              *)
SavedIsStored == page = "settings" => Settings!SavedIsStored

(* NotificationCenter.tsx 185-232: what one of the two bells shows as read  *)
(* is read in the storage, so the other agrees at its next poll.            *)
ReadIsStored == page = "layout" => Layout!ReadIsStored

(* SubmitPayment.tsx 63-165: one form makes one payment, and one more per   *)
(* failed answer, of the plan's price unless another amount was typed.      *)
OnePaymentPerForm ==
    page = "submit" => SubmitPayment!OnePaymentPerForm /\ SubmitPayment!AmountIsThePrice

=============================================================================
