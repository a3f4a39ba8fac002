------------------------------ MODULE MCMoney -------------------------------
(* Instances of MoneySystem for TLC. *)
EXTENDS MoneySystem, TLC

CONSTANTS m1, p1, p2, i1, k1, w1, w2, a1, a2, d1

OneMilestone == {m1}
TwoProviders == {p1, p2}
OneIntent == {i1}
OneKey == {k1}
NoKeys == {}
TwoPayouts == {w1, w2}
TwoAccounts == {a1, a2}
OneDecision == {d1}
IntentsOfOne == [i \in Intents |-> m1]
ThroughOne == [i \in Intents |-> p1]
KeysOfOne == [k \in Keys |-> m1]
KeysThroughOne == [k \in Keys |-> p1]
AmountFive == [m \in Milestones |-> 5]

\* Two payouts through different providers that the wallet cannot both cover.
PayoutEach == (w1 :> p1) @@ (w2 :> p2)
PayoutsTwoThree == (w1 :> 2) @@ (w2 :> 3)
=============================================================================
