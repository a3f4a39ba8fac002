----------------------------- MODULE MCIdentity -----------------------------
(* Instances of Identity for TLC. *)
EXTENDS Identity, TLC

CONSTANTS r1, r2, s1, s2

TwoRequests == {r1, r2}
TwoSessions == {s1, s2}

\* No definition of Identity tells requests or sessions apart.
Symmetry == Permutations(Requests) \cup Permutations(Sessions)
=============================================================================
