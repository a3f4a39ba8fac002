------------------------------ MODULE EscrowBox ------------------------------
(***************************************************************************)
(* What the escrow of a milestone promises its two parties, with no        *)
(* provider, retry, lock or ledger account in sight: a box that is filled  *)
(* with the contracted amount in one go, emptied once, and whose content   *)
(* can be set aside for a refund that then happens or does not.            *)
(***************************************************************************)
EXTENDS Integers

CONSTANTS Milestones, Amount

VARIABLES
  phase,   \* phase[m] \in {"open", "held", "reserved", "closed"}
  cash     \* cash[m]: the money in the box

boxVars == <<phase, cash>>

BoxInit ==
  /\ phase = [m \in Milestones |-> "open"]
  /\ cash = [m \in Milestones |-> 0]

\* The box of m goes from one phase to another and then holds this much.
Move(m, from, to, money) ==
  /\ phase[m] = from
  /\ phase' = [phase EXCEPT ![m] = to]
  /\ cash' = [cash EXCEPT ![m] = money]

Deposit(m) == Move(m, "open", "held", Amount[m])

SetAside(m) == Move(m, "held", "reserved", 0)

Refunded(m) == Move(m, "reserved", "open", 0)

PutBack(m) == Move(m, "reserved", "held", Amount[m])

PayOut(m) == Move(m, "held", "closed", 0)

BoxNext ==
  \E m \in Milestones :
    Deposit(m) \/ SetAside(m) \/ Refunded(m) \/ PutBack(m) \/ PayOut(m)

BoxSpec == BoxInit /\ [][BoxNext]_boxVars
=============================================================================
