---------------------------- MODULE CustomersPage ----------------------------
(***************************************************************************)
(* pages/admin/Customers.tsx: the list of customers, the form that creates *)
(* or changes one, with the button that fills in the position of the       *)
(* administrator's device, and the dialog that deletes one. The rows are   *)
(* the customers' states. The form is remembered with the record whose     *)
(* form asked for the position it holds.                                   *)
(***************************************************************************)
EXTENDS Page

Values == {"active", "inactive", "gone"}
Filters == {"all", "active"}

(* What no query returns: a deleted customer. *)
Existing == {i \in Listed : Shown(i) # "gone"}

Loaded == Idle("loading")
Uncovered == Loaded /\ st.dlg = None

TypeSearch(t) == Uncovered /\ Type(t)
Debounce == Settle
setStatusFilter(f) == Uncovered /\ Filter(f)
Paginate(p) == Uncovered /\ Turn(p)

Form(i) == Do([st EXCEPT !.dlg = [kind |-> "form", item |-> i, pin |-> None]], <<>>)
openAdd == Uncovered /\ Form(None)
openEdit(i) == Uncovered /\ i \in Existing /\ Form(i)

setDeleteTarget(i) == Uncovered /\ i \in Existing /\ Dialog("delete", i)

(* A click beside either dialog closes it, also during its call. *)
CloseDialog == Loaded /\ Close

(* The browser looks for the position; geoLoading disables the button.      *)
(* geoRef is set and never reset, so the callback writes into whichever     *)
(* form the page has by then.                                               *)
handleGetLocation ==
    /\ Loaded /\ DialogIs("form") /\ Idle("geoLoading")
    /\ Do(st, <<[Read("locate", {"geoLoading"}, st.q) EXCEPT !.item = st.dlg.item]>>)

Located(i) ==
    \/ /\ Ok(i, "locate")
       /\ Answer(i, IF DialogIs("form") THEN [st EXCEPT !.dlg.pin = <<net[i].item>>] ELSE st, <<>>)
    \/ Failed(i, "locate") /\ Answer(i, st, <<>>)

handleSubmit ==
    /\ Loaded /\ DialogIs("form") /\ Idle("submitting")
    /\ Do(st, <<Write("save", {"submitting"}, st.q, st.dlg.item, None)>>)

handleDelete ==
    /\ Loaded /\ DialogIs("delete") /\ Idle("deleting")
    /\ Do(st, <<Write("delete", {"deleting"}, st.q, st.dlg.item, "gone")>>)

(* The form, or the delete dialog, that is open now closes and the list is  *)
(* fetched by the closure of the click.                                     *)
Written(i) ==
    LET closes == IF net[i].op = "save" THEN "form" ELSE "delete"
    IN  \/ /\ Ok(i, "save") \/ Ok(i, "delete")
           /\ Answer(i, IF DialogIs(closes) THEN [st EXCEPT !.dlg = None] ELSE st,
                     <<Read("list", {"loading"} \cup net[i].flags, net[i].q)>>)
        \/ /\ Failed(i, "save") \/ Failed(i, "delete")
           /\ Answer(i, st, <<>>)

fetchUsers(i) == Fetched(i)

Init == \E i \in Item : Mount("customers", ListPage("all"),
                              [j \in Item |-> IF j = i THEN "inactive" ELSE "active"])

Next ==
    \/ \E t \in Texts : TypeSearch(t)
    \/ Debounce \/ CloseDialog \/ openAdd \/ handleGetLocation \/ handleSubmit \/ handleDelete
    \/ \E f \in Filters : setStatusFilter(f)
    \/ \E p \in 1..LastPage : Paginate(p)
    \/ \E i \in Item : openEdit(i) \/ setDeleteTarget(i)
    \/ \E i \in Calls : Located(i) \/ Written(i) \/ fetchUsers(i)
    \/ OtherUser(Values \ {"gone"})

=============================================================================
