------------------------------- MODULE MCSignIn -------------------------------
(* SignIn with one recovery code. *)
EXTENDS SignIn

CONSTANT r1

Tickets == 1..3

=============================================================================
