------------------------------ MODULE LogsPage ------------------------------
(***************************************************************************)
(* pages/admin/ActivityLogs.tsx: the activity, fetched page by page, and   *)
(* filtered in the browser by what the search box said 300 ms ago. A row   *)
(* is an entry; the other filters, the users' names and the export only    *)
(* display.                                                                *)
(***************************************************************************)
EXTENDS Page

Values == {"old", "new"}

(* Deviation: a timer that runs keeps the text it was started with.         *)
handleSearchThrottled(t) ==
    t # st.typed /\ Do([st EXCEPT !.typed = t, !.timer = TRUE,
                                  !.held = IF st.timer THEN @ ELSE t], <<>>)

(* The box runs a timer of its own, which holds what was typed.             *)
handleSearch(t) ==
    t # st.typed /\ Do([st EXCEPT !.typed = t, !.held = t, !.timer = TRUE], <<>>)
Debounced == st.timer /\ Send([st EXCEPT !.timer = FALSE, !.search = st.held], <<>>)

(* Clear is there when there is something to clear; the timer goes on, and  *)
(* brings back what was typed.                                              *)
Clear ==
    /\ st.typed # ""
    /\ Do([st EXCEPT !.typed = "", !.search = "", !.cleared = @ \/ st.timer], <<>>)

setPage(p) == Turn(p)
fetchLogs(i) == Fetched(i)

Init == Mount("logs", With(Blank([page |-> 1]), [typed |-> "", held |-> "", search |-> "",
                                                 cleared |-> FALSE]),
              [i \in Item |-> "old"])

Next ==
    \/ \E t \in Texts : handleSearch(t)
    \/ Debounced \/ Clear
    \/ \E p \in 1..LastPage : setPage(p)
    \/ \E i \in Calls : fetchLogs(i)
    \/ OtherUser(Values)

(* The entries are filtered by what the search box says, 300 ms after the   *)
(* last keystroke, unless Clear was pressed within these 300 ms.            *)
SearchIsTheBox == st.timer \/ st.cleared \/ st.search = st.typed

=============================================================================
