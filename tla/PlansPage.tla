----------------------------- MODULE PlansPage -----------------------------
(***************************************************************************)
(* pages/admin/Plans.tsx: the plans, fetched once; the form that creates   *)
(* or changes one, and the dialog that deletes one, which counts the       *)
(* plan's subscriptions first. A row says whether its plan has any. `count'*)
(* remembers whose count it is, and `overlapped' that one count was asked  *)
(* for while another was under way.                                        *)
(***************************************************************************)
EXTENDS Page

Values == {"unused", "used", "gone"}

Loaded == Idle("loading")
Uncovered == Loaded /\ st.dlg = None

(* handleDelete takes a deleted plan out of the array itself. *)
sortedPlans == {i \in Rows : Shown(i) # "gone"}

openAdd == Uncovered /\ Dialog("form", None)
openEdit(i) == Uncovered /\ i \in sortedPlans /\ Dialog("form", i)

handleDeleteClick(i) ==
    /\ Uncovered /\ i \in sortedPlans
    /\ Do([st EXCEPT !.dlg = [kind |-> "delete", item |-> i],
                     !.overlapped = @ \/ \E c \in Range(net) : c.op = "check"],
          <<[Read("check", {"deleteCheckLoading"}, st.q) EXCEPT !.item = i]>>)

(* Deviation: a count that cannot be fetched leaves the count alone.        *)
DeleteCheckedOk(i) ==
    \/ /\ Ok(i, "check")
       /\ Answer(i, [st EXCEPT !.count = [of |-> net[i].item,
                                          some |-> net[i].rows[net[i].item] = "used"]], <<>>)
    \/ Failed(i, "check") /\ Answer(i, st, <<>>)

(* The count that arrives is shown whichever plan's dialog is open. A count *)
(* that cannot be fetched is shown as none.                                 *)
DeleteChecked(i) ==
    \/ /\ Ok(i, "check")
       /\ Answer(i, [st EXCEPT !.count = [of |-> net[i].item,
                                          some |-> net[i].rows[net[i].item] = "used"]], <<>>)
    \/ /\ Failed(i, "check")
       /\ Answer(i, [st EXCEPT !.count = [of |-> net[i].item, some |-> FALSE]], <<>>)

(* Cancel, or a click beside a dialog; nothing disables it. *)
CloseDialog ==
    /\ Loaded /\ st.dlg # None
    /\ Do([st EXCEPT !.dlg = None, !.count = IF DialogIs("delete") THEN None ELSE @], <<>>)

(* Delete is offered during the count and during the deletion. The closure  *)
(* of the click holds the array the plan is taken out of.                   *)
handleDelete ==
    /\ Loaded /\ DialogIs("delete")
    /\ Do(st, <<[Write("delete", {}, st.q, st.dlg.item, "gone") EXCEPT !.rows = st.list.rows]>>)

(* The array of the click replaces the one on the screen, which may be a    *)
(* newer one; a fetch under way brings back what it read.                   *)
Deleted(i) ==
    \/ /\ Ok(i, "delete")
       /\ Answer(i, [st EXCEPT !.list.rows = [net[i].rows EXCEPT ![net[i].item] = "gone"],
                               !.dlg = IF DialogIs("delete") THEN None ELSE @,
                               !.stale = @ \/ net[i].rows # st.list.rows
                                           \/ \E c \in Range(net) : c.op = "list"], <<>>)
    \/ Failed(i, "delete") /\ Answer(i, st, <<>>)

handleSubmit ==
    /\ Loaded /\ DialogIs("form") /\ Idle("submitting")
    /\ Do(st, <<Write("save", {"submitting"}, st.q, st.dlg.item, None)>>)

Saved(i) ==
    \/ /\ Ok(i, "save")
       /\ Answer(i, IF DialogIs("form") THEN [st EXCEPT !.dlg = None] ELSE st,
                 <<Read("list", {"loading", "submitting"}, net[i].q)>>)
    \/ Failed(i, "save") /\ Answer(i, st, <<>>)

fetchPlans(i) == Fetched(i)

Init == \E i \in Item :
            Mount("plans", With(Blank([filter |-> "all"]), [count |-> None, overlapped |-> FALSE]),
                  [j \in Item |-> IF j = i THEN "used" ELSE "unused"])

Next ==
    \/ openAdd \/ CloseDialog \/ handleDelete \/ handleSubmit
    \/ \E i \in Item : openEdit(i) \/ handleDeleteClick(i)
    \/ \E i \in Calls : DeleteChecked(i) \/ Deleted(i) \/ Saved(i) \/ fetchPlans(i)
    \/ OtherUser(Values \ {"gone"})

(* The number of subscriptions the dialog shows is that of the plan it asks *)
(* about, once it is there, unless a count was asked for while another one  *)
(* was under way.                                                           *)
CountIsOfTarget ==
    DialogIs("delete") /\ Idle("deleteCheckLoading") /\ ~st.overlapped =>
        st.count # None /\ st.count.of = st.dlg.item

=============================================================================
