--------------------------- MODULE DashboardPage ---------------------------
(***************************************************************************)
(* pages/admin/Dashboard.tsx: the figures, the pending payments, the chart *)
(* and the activity, read together on mount, every 5 minutes and on        *)
(* demand, and the bar of quick actions. A row says whether a payment is   *)
(* pending. Only the figures decide whether the page fails: a part that    *)
(* cannot be read looks empty.                                             *)
(***************************************************************************)
EXTENDS Page

Values == {"pending", "decided"}
Empty == [i \in Item |-> "decided"]

fetchData(flag) == <<Read("list", {flag}, st.q)>>

(* The skeleton, the error with its Retry button, or the page. *)
Shows == Idle("loading") /\ ~st.error

(* Every fetch takes back the error of an earlier one. *)
AutoRefresh == Send([st EXCEPT !.error = FALSE], fetchData("refreshing"))
handleRefresh == Shows /\ Idle("refreshing") /\ Do(st, fetchData("refreshing"))
Retry ==
    Idle("loading") /\ st.error /\ Do([st EXCEPT !.error = FALSE], fetchData("loading"))

(* Which quick action runs is remembered by the bar, which is not there     *)
(* while the page shows a skeleton or an error, and forgets it then.        *)
sendReminders ==
    /\ Shows /\ ~st.sending
    /\ Do([st EXCEPT !.sending = TRUE], <<Write("reminders", {}, st.q, None, None)>>)

(* The answer of a bar that is gone does not matter: if the one that is     *)
(* there sends, its call is the latest.                                     *)
RemindersSent(i) ==
    /\ Answered(i, "reminders")
    /\ LET later == \E j \in Calls : j > i /\ net[j].op = "reminders"
       IN  Answer(i, [st EXCEPT !.sending = @ /\ later], <<>>)

Ended(s) ==
    [s EXCEPT !.busy = @ \ {"loading", "refreshing"},
              !.sending = @ /\ ~s.error]

DataFetched(i) ==
    \/ /\ Ok(i, "list")
       /\ \/ Answer(i, Ended(Show(st, i)), <<>>)
          \/ Answer(i, Ended([st EXCEPT !.list = [q |-> net[i].q, rows |-> Empty],
                                        !.stale = TRUE]), <<>>)
    \/ Failed(i, "list") /\ Answer(i, Ended([st EXCEPT !.error = TRUE]), <<>>)

Init == \E i \in Item :
            Mount("dashboard", With(Blank([all |-> TRUE]), [error |-> FALSE, sending |-> FALSE]),
                  [j \in Item |-> IF j = i THEN "pending" ELSE "decided"])

Next ==
    \/ AutoRefresh \/ handleRefresh \/ Retry \/ sendReminders
    \/ \E i \in Calls : RemindersSent(i) \/ DataFetched(i)
    \/ OtherUser(Values)

=============================================================================
