----------------------------- MODULE LayoutPage -----------------------------
(***************************************************************************)
(* components/AdminLayout.tsx and components/NotificationCenter.tsx: the   *)
(* frame around the pages of the administration, with the badge that       *)
(* counts pending payments, and the notifications. The notifications are   *)
(* mounted twice, in the header for small and in the one for large         *)
(* screens; each polls for itself, and both keep what was read in the      *)
(* browser's storage. A row says whether there is something to notify. The *)
(* name and the brand in the frame only display what is fetched once.      *)
(***************************************************************************)
EXTENDS Page, FiniteSets

Values == {"pending", "none"}
Centers == {"mobile", "desktop"}
Pending(rows) == {i \in Item : rows[i] = "pending"}

(* The set in the storage is read when the fetch starts.                    *)
getReadIds == st.readIds
fetchNotifications(c) ==
    <<[Read("notifications", {}, getReadIds) EXCEPT !.item = c]>>
Poll(c) == Send(st, fetchNotifications(c))

buildNotifications(rows, readIds) ==
    [i \in Item |-> IF i \notin Pending(rows) THEN "none"
                    ELSE IF i \in readIds THEN "read" ELSE "unread"]

Polled(i) ==
    \/ /\ Ok(i, "notifications")
       /\ Answer(i, [st EXCEPT !.shown[net[i].item] =
                         buildNotifications(net[i].rows, net[i].q)], <<>>)
    \/ Failed(i, "notifications") /\ Answer(i, st, <<>>)

ShownIn(c) == {i \in Item : st.shown[c][i] # "none"}
unread(c) == {i \in Item : st.shown[c][i] = "unread"}
(* Deviation: the set in the storage is replaced, not added to.             *)
MarkOnlyRead(c, items) ==
    Do([st EXCEPT !.readIds = items,
                  !.shown[c] = [i \in Item |-> IF i \in items THEN "read" ELSE @[i]]], <<>>)

MarkRead(c, items) ==
    Do([st EXCEPT !.readIds = getReadIds \cup items,
                  !.shown[c] = [i \in Item |-> IF i \in items THEN "read" ELSE @[i]]], <<>>)

markAllRead(c) == unread(c) # {} /\ MarkRead(c, ShownIn(c))

(* It also closes the list and opens the page of the notification.          *)
handleItemClick(c, i) == i \in ShownIn(c) /\ MarkRead(c, {i})

(* The badge, every minute. *)
fetchPending == Send(st, <<Read("pending", {}, None)>>)
PendingFetched(i) ==
    \/ /\ Ok(i, "pending")
       /\ Answer(i, [st EXCEPT !.badge = Cardinality(Pending(net[i].rows))], <<>>)
    \/ Failed(i, "pending") /\ Answer(i, st, <<>>)

Init ==
    /\ page = "layout"
    /\ st = With(Blank(None), [stale |-> TRUE, readIds |-> {}, badge |-> 0,
                             shown |-> [c \in Centers |-> [i \in Item |-> "none"]]])
    /\ net = <<>>
    /\ db = [i \in Item |-> "pending"]

Next ==
    \/ \E c \in Centers : Poll(c) \/ markAllRead(c)
    \/ \E c \in Centers, i \in Item : handleItemClick(c, i)
    \/ fetchPending
    \/ \E i \in Calls : Polled(i) \/ PendingFetched(i)
    \/ OtherUser(Values)

(* What one of the two lists shows as read is read in the storage, so the   *)
(* other list agrees at its next poll.                                      *)
ReadIsStored ==
    \A c \in Centers, i \in Item : st.shown[c][i] = "read" => i \in st.readIds

=============================================================================
