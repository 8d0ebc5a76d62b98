-------------------------- MODULE MCCurrentAccount --------------------------
(* A small instance of CurrentAccount for TLC. *)
EXTENDS CurrentAccount, TLC

CONSTANTS u1, s1, s2

\* Two sessions of one user; the second expires while the model runs.
MCUserOf == s1 :> u1 @@ s2 :> u1
MCSessionEnd == s1 :> 9 @@ s2 :> 2

\* Features that meet in one application; each set is explored on its own.
MCApplications == {
  {"contactChange", "otpReAuth"},
  {"contactChange", "confirmPassword", "generic"},
  {"otpReAuth", "otp", "generic"},
  {"otpReAuth", "unlink"},
  {"recovery", "password", "unlink", "generic"}}
MCMaxCalls == [a \in MCApplications |-> IF a = {"contactChange", "otpReAuth"} THEN 2 ELSE 1]

\* The targets are interchangeable.
TargetSymmetry == Permutations(Target)
=============================================================================
