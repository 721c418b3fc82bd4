----------------------------- MODULE StaffPage -----------------------------
(***************************************************************************)
(* pages/admin/Staff.tsx: the administrators and the technicians, read one *)
(* role after the other, the form that creates or changes a member, and    *)
(* the dialog that deletes one. A row is the member's role.                *)
(***************************************************************************)
EXTENDS Page

Roles == {"admin", "technician"}
Values == Roles \cup {"gone"}
Filters == {"all", "admin"}

Existing == {i \in Listed : Shown(i) # "gone"}

Loaded == Idle("loading")
Uncovered == Loaded /\ st.dlg = None

TypeSearch(t) == Uncovered /\ Type(t)
Debounce == Settle
setRoleFilter(f) == Uncovered /\ Filter(f)
Paginate(p) == Uncovered /\ Turn(p)

(* The second request is sent when the first is answered: its closure holds *)
(* the administrators. Who changed roles in between is in both or neither.  *)
Combined(admins, techs) ==
    [i \in Item |-> IF admins[i] = "admin" THEN "admin"
                    ELSE IF techs[i] = "technician" THEN "technician" ELSE "gone"]

fetchUsers(i) ==
    \/ /\ Ok(i, "list") /\ net[i].q.filter = "admin"
       /\ Answer(i, Show(st, i), <<>>)
    \/ /\ Ok(i, "list") /\ net[i].q.filter = "all"
       /\ Answer(i, st, <<[Read("techs", net[i].flags, net[i].q) EXCEPT !.item = net[i].rows]>>)
    \/ /\ Ok(i, "techs")
       /\ Answer(i, [st EXCEPT !.list = [q |-> net[i].q,
                                         rows |-> Combined(net[i].item, net[i].rows)]], <<>>)
    \/ Failed(i, "list") /\ Answer(i, st, <<>>)
    \/ Failed(i, "techs") /\ Answer(i, st, <<>>)

openAdd == Uncovered /\ Dialog("form", None)
openEdit(i) == Uncovered /\ i \in Existing /\ Dialog("form", i)
setDeleteConfirm(i) == Uncovered /\ i \in Existing /\ Dialog("delete", i)

(* A click beside a dialog closes it, also during its call. *)
CloseDialog == Loaded /\ Close

handleSubmit(role) ==
    /\ Loaded /\ DialogIs("form") /\ Idle("submitting")
    /\ Do(st, <<Write("save", {"submitting"}, st.q, st.dlg.item,
                      IF st.dlg.item = None THEN None ELSE role)>>)

(* Nothing disables the dialog's button. *)
handleDelete ==
    /\ Loaded /\ DialogIs("delete")
    /\ Do(st, <<Write("delete", {}, st.q, st.dlg.item, "gone")>>)

Written(i) ==
    LET closes == IF net[i].op = "save" THEN "form" ELSE "delete"
    IN  \/ /\ Ok(i, "save") \/ Ok(i, "delete")
           /\ Answer(i, IF DialogIs(closes) THEN [st EXCEPT !.dlg = None] ELSE st,
                     <<Read("list", {"loading"} \cup net[i].flags, net[i].q)>>)
        \/ /\ Failed(i, "save") \/ Failed(i, "delete")
           /\ Answer(i, st, <<>>)

Init == \E i \in Item : Mount("staff", ListPage("all"),
                              [j \in Item |-> IF j = i THEN "technician" ELSE "admin"])

Next ==
    \/ \E t \in Texts : TypeSearch(t)
    \/ Debounce \/ CloseDialog \/ openAdd \/ handleDelete
    \/ \E f \in Filters : setRoleFilter(f)
    \/ \E p \in 1..LastPage : Paginate(p)
    \/ \E i \in Item : openEdit(i) \/ setDeleteConfirm(i)
    \/ \E r \in Roles : handleSubmit(r)
    \/ \E i \in Calls : Written(i) \/ fetchUsers(i)
    \/ OtherUser(Roles)

=============================================================================
