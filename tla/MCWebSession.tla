--------------------------- MODULE MCWebSession ---------------------------
(* Two tabs, three requests, an administrator and a customer. *)
EXTENDS WebSession, TLC

CONSTANTS t1, t2, r1, r2, r3, ana, ben

MCTabOf == (r1 :> t1) @@ (r2 :> t1) @@ (r3 :> t2)
============================================================================
