------------------------------ MODULE MCEscrow ------------------------------
(* Instances of EscrowSystem for TLC. *)
EXTENDS EscrowSystem, TLC

CONSTANTS m1, p1, i1, i2, k1, k2, d1, d2

OneMilestone == {m1}
OneProvider == {p1}
TwoIntents == {i1, i2}
OneKey == {k1}
TwoKeys == {k1, k2}
OneDecision == {d1}
TwoDecisions == {d1, d2}

\* Everything for one milestone, through one provider.
IntentsOfOne == [i \in Intents |-> m1]
ThroughOne == [i \in Intents |-> p1]
KeysOfOne == [k \in Keys |-> m1]
KeysThroughOne == [k \in Keys |-> p1]
AmountTwo == [m \in Milestones |-> 2]
AmountThree == [m \in Milestones |-> 3]

\* Payments, refund keys and decision keys are interchangeable.
MCSymmetry ==
  Permutations(TwoIntents) \cup Permutations(TwoKeys) \cup Permutations(TwoDecisions)
=============================================================================
