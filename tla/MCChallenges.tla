---------------------------- MODULE MCChallenges ----------------------------
(* Small instances of Challenges for TLC. *)
EXTENDS Challenges, TLC

CONSTANTS c1, c2

\* Call slots are interchangeable; challenge ids are taken in order by Fresh.
CallSymmetry == Permutations(CallId)
=============================================================================
