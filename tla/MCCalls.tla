------------------------------- MODULE MCCalls ------------------------------
EXTENDS Calls, TLC

CONSTANTS client, freelancer, c1, c2

MCMembers == {client, freelancer}
MCCallSet == {c1, c2}

\* The members and the calls are interchangeable.
MCSymmetry == Permutations(MCMembers) \union Permutations(MCCallSet)
=============================================================================
