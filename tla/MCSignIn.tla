------------------------------ MODULE MCSignIn ------------------------------
(* Instances of SignIn for TLC. *)
EXTENDS SignIn

CONSTANTS root, n1, s1, s2, a1
=============================================================================
