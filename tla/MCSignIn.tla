------------------------------ MODULE MCSignIn ------------------------------
(***************************************************************************)
(* A small instance of SignIn: two tabs of one browser and two accounts.   *)
(***************************************************************************)
EXTENDS SignIn, TLC

CONSTANTS t1, t2, alice, bob, n1, n2

MCOwner == [n \in Token |-> IF n = n2 THEN bob ELSE alice]
=============================================================================
