---------------------------- MODULE EscrowSystem ----------------------------
(***************************************************************************)
(* Funding, work, release, refund, cancellation and arbitration of the     *)
(* milestones of one contract, together, and what must hold of them.       *)
(*                                                                         *)
(* Two constants name what the environment may do: Overlap (a client       *)
(* repeats a refund request that is still being served) and LateCapture (a *)
(* provider captures a payment it reported as failed).                     *)
(***************************************************************************)
EXTENDS Disputes, FiniteSetsExt

\* The sums over the milestones of a contract are sums.
ASSUME FiniteMilestones == IsFiniteSet(Milestones)

vars == <<escrowVars, ledgerVars, disputeVars>>

Init == LedgerInit /\ EscrowInit /\ DisputesInit

Next == (EscrowNext /\ UNCHANGED disputeVars) \/ DisputesNext

Spec == Init /\ [][Next]_vars

PendingRefunds(m) == {k \in Keys : KeyOf[k] = m /\ refund[k] = "PENDING"}

WorkStatus == {"IN_PROGRESS", "SUBMITTED", "CHANGES_REQUESTED", "APPROVED"}

-----------------------------------------------------------------------------
Operations == {"MILESTONE_FUND", "MILESTONE_RELEASE", "MILESTONE_REFUND",
               "REVERSAL", "DISPUTE_RESOLUTION"}

\* Every variable has the type of the column, account or provider state it models.
TypeOK ==
  /\ escrow \in [Milestones -> Int]
  /\ clearing \in [Providers -> Int]
  /\ wallet \in Int /\ commission \in Int
  /\ posted \subseteq Operations \X (Intents \cup Keys \cup Milestones)
  /\ contract \in ContractStatus
  /\ status \in [Milestones -> MilestoneStatus]
  /\ holder \in [Milestones -> {"free", "funding"} \cup Intents]
  /\ intent \in [Intents -> {"NONE", "PENDING", "CAPTURED", "FAILED"}]
  /\ payment \in [Intents -> {"none", "open", "captured", "failed"}]
  /\ captures \in Seq(Intents)
  /\ refund \in [Keys -> {"NONE", "PENDING", "SUCCEEDED", "FAILED"}]
  /\ refundAmount \in [Keys -> Int]
  /\ refundRef \in [Keys -> BOOLEAN]
  /\ attempt \in [Keys -> {"none", "reserved", "done"} \cup Answers]
  /\ provRefund \in [Keys -> {"none", "pending", "succeeded", "failed"}]
  /\ refundOf \in [Keys -> {"NONE"} \cup Intents]
  /\ dispute \in [Milestones -> DisputeStatus]
  /\ award \in [Milestones -> Int]
  /\ decisionRefund \in [Milestones -> DecisionKeys \cup {"NONE"}]
  /\ disputeRefund \in [Milestones -> [DecisionKeys -> Int]]

\* The escrow account holds exactly what the milestone's status says: nothing
\* before funding and after release, the contracted amount while work goes on,
\* and for a funded or disputed milestone the amount unless a refund has it set
\* aside.  Several handlers and a provider answer in between have to agree on it.
EscrowMatchesStatus ==
  \A m \in Milestones :
    /\ status[m] \in {"CREATED", "RELEASED"} => escrow[m] = 0
    /\ status[m] \in WorkStatus => escrow[m] = Amount[m]
    /\ status[m] \in {"FUNDED", "DISPUTED"} =>
         escrow[m] = IF PendingRefunds(m) = {} THEN Amount[m] ELSE 0

\* Work is never under way without the whole amount in escrow, whatever clients
\* and providers do: no stale refund attempt can take the money of a started
\* milestone (require_milestone_fully_funded, refund_milestone's FUNDED guard).
WorkIsFunded ==
  \A m \in Milestones : status[m] \in WorkStatus => escrow[m] >= Amount[m]

\* A reservation is given back by its reversal journal exactly when the refund
\* ended FAILED, across the first attempt, its crash and its replays.
ReversedIffFailed ==
  \A k \in Keys : <<"REVERSAL", k>> \in posted <=> refund[k] = "FAILED"

\* Every captured payment of a milestone is in one place: in escrow, with a
\* refund that is pending or done, or distributed by a release or a decision.
CapturedMoneyAccounted ==
  \A m \in Milestones :
    Cardinality({i \in Intents : IntentOf[i] = m /\ intent[i] = "CAPTURED"})
      = Cardinality({k \in Keys : KeyOf[k] = m /\ refund[k] \in {"PENDING", "SUCCEEDED"}})
        + (IF escrow[m] > 0 THEN 1 ELSE 0) + (IF status[m] = "RELEASED" THEN 1 ELSE 0)

\* What the books call refunded, the provider has refunded: a SUCCEEDED refund
\* succeeded there, whichever of its attempts settled it.
ProviderHasPaid ==
  \A k \in Keys : refund[k] = "SUCCEEDED" => provRefund[k] = "succeeded"

\* The refund row of a decision stands for a refund of exactly the client's part
\* of that decision at the provider, whatever earlier attempts have refunded
\* under the same key; a decision that leaves the client nothing has no row.
DecisionRefundWasPaid ==
  \A m \in Milestones :
    dispute[m] = "RESOLVED" =>
      IF award[m] = Amount[m]
      THEN decisionRefund[m] = "NONE"
      ELSE /\ decisionRefund[m] \in DecisionKeys
           /\ disputeRefund[m][decisionRefund[m]] = Amount[m] - award[m]

\* What a milestone has earned the freelancer: the contracted amount once it is
\* released, the award when a dispute was resolved, nothing before.
Earned(m) ==
  IF status[m] # "RELEASED" THEN 0
  ELSE IF dispute[m] = "RESOLVED" THEN award[m] ELSE Amount[m]

\* Wallet and commission accounts hold together what the milestones earned,
\* each milestone paid once, and the commission is on that money only.
FreelancerPaidOnce ==
  /\ wallet + commission = MapThenSumSet(Earned, Milestones)
  /\ commission = MapThenSumSet(LAMBDA m : Fee(Earned(m)), Milestones)

\* Two refunds that succeeded paid back two different payments.
RefundsOfDistinctPayments ==
  \A j, k \in Keys :
    j # k /\ refund[j] = "SUCCEEDED" /\ refund[k] = "SUCCEEDED" => refundOf[j] # refundOf[k]

\* A cancelled contract has no money in escrow and no milestone past CREATED.
CancelledIsEmpty ==
  contract = "CANCELLED" =>
    \A m \in Milestones : status[m] = "CREATED" /\ escrow[m] = 0

\* ADR-0016: "Normal release and dispute freeze cannot both commit for the same
\* funded milestone": the journals of both never exist together.
FreezeExcludesRelease ==
  \A m \in Milestones : <<"MILESTONE_RELEASE", m>> \in posted => dispute[m] = "NONE"

\* A milestone goes back from FUNDED to CREATED only in the step in which its
\* pending refund becomes SUCCEEDED: refund_milestone "commits the refund state
\* once" (docs/stripe-payments.md).
RefundCommitsOnce ==
  [][\A m \in Milestones :
       status[m] = "FUNDED" /\ status'[m] = "CREATED" =>
         \E k \in PendingRefunds(m) : refund'[k] = "SUCCEEDED"]_vars

\* The phase of a milestone's box: open before funding, closed after the money
\* left for good, and in between held, or reserved by a pending refund.
Phase(m) ==
  CASE status[m] = "CREATED"  -> "open"
    [] status[m] = "RELEASED" -> "closed"
    [] OTHER -> IF PendingRefunds(m) = {} THEN "held" ELSE "reserved"

\* The escrow implements the box: deposits of the whole amount, at most one
\* reservation at a time, one payment out.
Box == INSTANCE EscrowBox WITH phase <- [m \in Milestones |-> Phase(m)], cash <- escrow

\* Every behaviour of the escrow is a behaviour of the box.
ImplementsBox == Box!BoxSpec
-----------------------------------------------------------------------------
(* What the documentation or an assertion of the code says, and the code    *)
(* does not keep.                                                           *)

\* service.py raises RuntimeError("Pending refund milestone left the FUNDED
\* state"): the programmer holds that a milestone stays FUNDED under a refund.
PendingRefundStaysFunded ==
  \A k \in Keys : refund[k] = "PENDING" => status[KeyOf[k]] = "FUNDED"

\* cancel_contract: "An active contract cannot be cancelled while a funding
\* payment is pending".
NoFundingOfCancelled ==
  contract = "CANCELLED" => \A m \in Milestones : PendingIntents(m) = {}

\* docs/stripe-payments.md: "escrow is restored only after a terminal provider failure".
RestoredOnlyAfterFailure ==
  \A k \in Keys : refund[k] = "FAILED" => provRefund[k] \notin {"pending", "succeeded"}

\* ADR-0016: "Any provider refund is issued with a deterministic provider
\* idempotency key before the database decision is committed.  The confirmed
\* refund is persisted alongside the same resolution journal": the provider has
\* refunded for a resolved dispute what was recorded with it, and nothing else.
DecisionMatchesProvider ==
  \A m \in Milestones, k \in DecisionKeys :
    dispute[m] = "RESOLVED" /\ disputeRefund[m][k] # 0 => decisionRefund[m] = k
-----------------------------------------------------------------------------
(* Progress.  A transaction that holds a lock ends.  A client whose refund  *)
(* is pending repeats the request until it is answered, the provider does   *)
(* not answer TEMPORARY or PENDING for ever, and it delivers a payment's    *)
(* webhook until it is accepted.                                            *)

RefundReplayAnswered(k) ==
  RefundReplay(k) /\ (refund'[k] # "PENDING")

Fairness ==
  /\ \A m \in Milestones : WF_vars(Rollback(m) /\ UNCHANGED disputeVars)
  /\ \A k \in Keys : SF_vars(RefundReplayAnswered(k) /\ UNCHANGED disputeVars)
  /\ \A k \in Keys : WF_vars((RefundCall(k) \/ RefundCrash(k)) /\ UNCHANGED disputeVars)
  /\ \A i \in Intents : SF_vars(CaptureBegin(i) /\ UNCHANGED disputeVars)
  /\ \A i \in Intents : SF_vars(CaptureCommit(IntentOf[i], i) /\ UNCHANGED disputeVars)

FairSpec == Spec /\ Fairness

\* A reserved refund is settled, unless a dispute is opened over it.
RefundSettles ==
  \A k \in Keys :
    refund[k] = "PENDING" ~> (refund[k] # "PENDING" \/ status[KeyOf[k]] = "DISPUTED")

\* A payment the provider captured for a pending intent reaches escrow, unless
\* the contract was cancelled in the meantime.
CapturedReachesEscrow ==
  \A i \in Intents :
    (payment[i] = "captured" /\ intent[i] = "PENDING")
      ~> (intent[i] = "CAPTURED" \/ contract = "CANCELLED")
=============================================================================
