----------------------------- MODULE MCClients -----------------------------
(* Each component with what its user does, and others change, bounded by   *)
(* itself: a page with many independent controls gets fewer.               *)
EXTENDS Clients

MCMaxActs ==
    [payments |-> 3, subscriptions |-> 3, customers |-> 4, plans |-> 5, staff |-> 3,
     messages |-> 7, mikrotik |-> 3, settings |-> 4, dashboard |-> 5, logs |-> 5,
     layout |-> 2, submit |-> 6,
     list |-> 4, client |-> 5, payment |-> 5, newPayment |-> 5, profile |-> 4]
=============================================================================
