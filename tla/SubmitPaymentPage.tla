------------------------- MODULE SubmitPaymentPage -------------------------
(***************************************************************************)
(* pages/customer/SubmitPayment.tsx: the customer chooses one of her       *)
(* subscriptions, which fills in its price as the amount, and submits the  *)
(* payment. A row is the number of payments of the subscription that the   *)
(* back end has; a price is named after its subscription, and "" is an     *)
(* amount that was typed. Method, reference, period, notes and the proof   *)
(* are valid: an invalid form only shows its errors.                       *)
(***************************************************************************)
EXTENDS Page, FiniteSets

Loaded == Idle("loading") /\ ~st.success

(* Deviation: an amount that is there is kept.                              *)
ChosenKeepsAmount(i) == [st EXCEPT !.subscription = i, !.amount = IF @ = None THEN i ELSE @]

(* The only subscription is chosen at once.                                 *)
Chosen(i) == [st EXCEPT !.subscription = i, !.amount = i]
fetchMine(i) ==
    \/ /\ Ok(i, "list") /\ Cardinality(st.mine) > 1
       /\ Answer(i, Show(st, i), <<>>)
    \/ \E s \in Item :
         /\ Ok(i, "list") /\ st.mine = {s}
         /\ Answer(i, Show(Chosen(s), i), <<>>)
    \/ Failed(i, "list") /\ Answer(i, st, <<>>)

(* The form stays open to changes while a payment is submitted. *)
handleSubscriptionChange(i) ==
    Loaded /\ i \in (Rows \cap st.mine) \ {st.subscription} /\ Do(Chosen(i), <<>>)
setAmount == Loaded /\ st.amount # "" /\ Do([st EXCEPT !.amount = ""], <<>>)

validate == st.subscription # None /\ st.amount # None

(* Deviation: the button is not disabled while the payment is submitted.    *)
handleSubmitAgain ==
    /\ Loaded /\ validate
    /\ Do([st EXCEPT !.stale = TRUE],
          <<[Write("submit", {"submitting"}, st.q, st.subscription, db[st.subscription] + 1)
                EXCEPT !.rows = st.amount]>>)

handleSubmit ==
    /\ Loaded /\ Idle("submitting") /\ validate
    /\ Do([st EXCEPT !.stale = TRUE],
          <<[Write("submit", {"submitting"}, st.q, st.subscription, db[st.subscription] + 1)
                EXCEPT !.rows = st.amount]>>)

(* A success replaces the form; after an error the form may be sent again,  *)
(* also when the payment was made and only the answer was lost.             *)
Submitted(i) ==
    \/ Ok(i, "submit") /\ Answer(i, [st EXCEPT !.success = TRUE], <<>>)
    \/ Failed(i, "submit") /\ Answer(i, [st EXCEPT !.failures = @ + 1], <<>>)

Init ==
    \E mine \in SUBSET Item \ {{}} :
        Mount("submit", With(Blank([all |-> TRUE]), [mine |-> mine, subscription |-> None,
                                          amount |-> None, success |-> FALSE, failures |-> 0]),
              [i \in Item |-> 0])

Next ==
    \/ \E i \in Item : handleSubscriptionChange(i)
    \/ setAmount \/ handleSubmit
    \/ \E i \in Calls : fetchMine(i) \/ Submitted(i)

(* The payments that were made, those of each subscription numbered.        *)
Made == UNION {{i} \X (1..db[i]) : i \in Item}

(* One form makes one payment, and one more for each answer that was an     *)
(* error: no second payment is made while the first is under way, or after  *)
(* it was confirmed.                                                        *)
OnePaymentPerForm == Cardinality(Made) <= st.failures + 1

(* The amount that is sent is the price of the subscription it is for,      *)
(* unless the customer typed another one.                                   *)
AmountIsThePrice ==
    \A c \in Range(net) : c.op = "submit" => c.rows \in {c.item, ""}

=============================================================================
