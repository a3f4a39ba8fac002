------------------------------ MODULE MCHiring ------------------------------
(* Instances of Hiring for TLC. *)
EXTENDS Hiring, TLC

CONSTANTS f1, f2, r1, r2

TwoFreelancers == {f1, f2}
TwoRequests == {r1, r2}

\* No definition of Hiring tells freelancers or requests apart.
Symmetry == Permutations(Freelancers) \cup Permutations(Requests)
=============================================================================
