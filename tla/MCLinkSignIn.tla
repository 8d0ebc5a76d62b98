---------------------------- MODULE MCLinkSignIn ----------------------------
(* A small instance of LinkSignIn for TLC. *)
EXTENDS LinkSignIn, TLC

\* The calls are interchangeable.
CallSymmetry == Permutations(Call)
=============================================================================
