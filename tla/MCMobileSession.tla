-------------------------- MODULE MCMobileSession --------------------------
(* Two slots for what screens ask for, one for the login form and logout. *)
EXTENDS MobileSession, TLC

CONSTANTS r1, r2, r3

MCKindsOf == (r1 :> {"data"}) @@ (r2 :> {"act", "me"})
             @@ (r3 :> {"login", "badLogin", "logout"})
=============================================================================
