---------------------------- MODULE PaymentsPage ----------------------------
(***************************************************************************)
(* pages/admin/Payments.tsx: the list of payments and the dialog that      *)
(* approves or rejects one of them. The rows are the payments' states; the *)
(* proofs' lightbox, the statistics, the tabs' counts (fetched on mount    *)
(* and joined with the list after a decision) and the CSV export only      *)
(* display what is fetched.                                                *)
(***************************************************************************)
EXTENDS Page

Values == {"pending", "approved", "rejected"}
Filters == {"all", "pending"}
Decision == [approve |-> "approved", reject |-> "rejected"]

(* The page is there unless the skeleton stands for an empty list; an open  *)
(* dialog covers it.                                                        *)
Uncovered == (Idle("loading") \/ Rows # {}) /\ st.dlg = None

TypeSearch(t) == Uncovered /\ Type(t)
Debounce == Settle
handleFilterChange(f) == Uncovered /\ Filter(f)
Paginate(p) == Uncovered /\ Turn(p)

(* Approve and Reject are offered in the rows of pending payments only, as  *)
(* the list on the screen has them.                                         *)
Decidable == {i \in Listed : Shown(i) = "pending"}

openConfirm(action, i) == Uncovered /\ i \in Decidable /\ Dialog(action, i)

(* ConfirmModal: Escape and a click beside it cancel, also during the call; *)
(* its buttons are disabled then.                                           *)
CancelDialog == Close
(* Deviation: the dialog's buttons are not disabled during the call.        *)
CanConfirmAgain == st.dlg # None

CanConfirm == st.dlg # None /\ Idle("action")

handleConfirmAction ==
    /\ CanConfirm
    /\ Do(st, <<Write("decide", {"action"}, st.q, st.dlg.item, Decision[st.dlg.kind])>>)

(* After the POST the dialog that is open closes, and the list and the      *)
(* counts are fetched together, with the query of the click.                *)
Decided(i) ==
    \/ /\ Ok(i, "decide")
       /\ Answer(i, [st EXCEPT !.dlg = None],
                 <<Read("list", {"loading", "action"}, net[i].q)>>)
    \/ Failed(i, "decide") /\ Answer(i, st, <<>>)

Init == \E f \in Filters : Mount("payments", ListPage(f), [i \in Item |-> "pending"])

Next ==
    \/ \E t \in Texts : TypeSearch(t)
    \/ Debounce \/ CancelDialog \/ handleConfirmAction
    \/ \E f \in Filters : handleFilterChange(f)
    \/ \E p \in 1..LastPage : Paginate(p)
    \/ \E i \in Item, a \in {"approve", "reject"} : openConfirm(a, i)
    \/ \E i \in Calls : Decided(i) \/ Fetched(i)
    \/ OtherUser(Values)

=============================================================================
