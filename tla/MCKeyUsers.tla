------------------------------ MODULE MCKeyUsers ------------------------------
(* One member, one key to plug in, two challenges, the test's, the dialog's. *)
EXTENDS KeyUsers, TLC

CONSTANTS neo, old, i1, i2, c1, c2, c3

TwoChallenges == (i1 :> c1) @@ (i2 :> c2)
=============================================================================
