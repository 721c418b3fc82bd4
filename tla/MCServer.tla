------------------------------ MODULE MCServer ------------------------------
(* The server's parts on small instances.                                  *)
EXTENDS Server

CONSTANTS hostA, hostB, adminX, adminY

(* users; subscriptions and messages, which refer to it; settings          *)
MCRefs == [m \in 1..4 |-> IF m \in {2, 3} THEN {1} ELSE {}]

MCEnvironment == [host |-> hostA, login |-> adminX]

=============================================================================
