----------------------------- MODULE MCAccounts -----------------------------
(* Small instances of Accounts for TLC. *)
EXTENDS Accounts, TLC

CONSTANTS k1, k2, e1, e2

\* Provider keys that both are asserted are interchangeable; ids are not,
\* since Fresh takes the first unused one.
ProviderSymmetry == Permutations({k1, k2})
=============================================================================
