------------------------------ MODULE MCBilling ------------------------------
(* Billing on small instances.                                             *)
EXTENDS Billing, TLC

(* Requests are served by whatever goroutine, and payments differ in data  *)
(* only: both sets are symmetric.                                          *)
Symmetry == Permutations(Handlers) \cup Permutations(Payments)

=============================================================================
