------------------------------ MODULE Disputes ------------------------------
(***************************************************************************)
(* Dispute arbitration, app/disputes/service: opening freezes the          *)
(* milestone, an administrator moves the case on, and one transaction      *)
(* distributes the escrow.  A refund part is paid by the provider inside   *)
(* that transaction, before it commits.                                    *)
(***************************************************************************)
EXTENDS Escrow

CONSTANT
  DecisionKeys    \* Idempotency-Keys that administrators send with a decision

ASSUME DecisionKeysAssumption == "NONE" \notin DecisionKeys

VARIABLES
  dispute,        \* disputes.status, "NONE" before the one row a milestone may have
  award,          \* dispute_decisions.freelancer_award_minor
  decisionRefund, \* the key of the refund row the decision refers to, "NONE" without one
  disputeRefund   \* what the provider has refunded per dispute and key, 0 before

disputeVars == <<dispute, award, decisionRefund, disputeRefund>>

DisputeStatus == {"NONE", "OPEN", "EVIDENCE_COLLECTION", "UNDER_REVIEW",
                  "NEED_MORE_INFO", "RESOLVED"}

DisputesInit ==
  /\ dispute = [m \in Milestones |-> "NONE"]
  /\ award = [m \in Milestones |-> 0]
  /\ decisionRefund = [m \in Milestones |-> "NONE"]
  /\ disputeRefund = [m \in Milestones |-> [k \in DecisionKeys |-> 0]]

\* Mutant: a dispute can still be opened after the release.
OpenDisputeLate(m) ==
  /\ Locked(m)
  /\ status[m] # "CREATED"
  /\ dispute[m] = "NONE"
  /\ dispute' = [dispute EXCEPT ![m] = "OPEN"]
  /\ status' = [status EXCEPT ![m] = "DISPUTED"]
  /\ UNCHANGED <<contract, holder, intent, payment, captures, refundVars,
                 ledgerVars, award, decisionRefund, disputeRefund>>

\* open_dispute: by a party, once per milestone, while money may be in escrow.
OpenDispute(m) ==
  /\ Locked(m)
  /\ status[m] \in {"FUNDED", "IN_PROGRESS", "SUBMITTED", "CHANGES_REQUESTED", "APPROVED"}
  /\ dispute[m] = "NONE"
  /\ dispute' = [dispute EXCEPT ![m] = "OPEN"]
  /\ status' = [status EXCEPT ![m] = "DISPUTED"]
  /\ UNCHANGED <<contract, holder, intent, payment, captures, refundVars,
                 ledgerVars, award, decisionRefund, disputeRefund>>

\* _ADMIN_TRANSITIONS.
AdminTransitions ==
  {<<"OPEN", "EVIDENCE_COLLECTION">>, <<"EVIDENCE_COLLECTION", "UNDER_REVIEW">>,
   <<"UNDER_REVIEW", "NEED_MORE_INFO">>, <<"NEED_MORE_INFO", "EVIDENCE_COLLECTION">>,
   <<"NEED_MORE_INFO", "UNDER_REVIEW">>}

AdminTransition(m, to) ==
  /\ <<dispute[m], to>> \in AdminTransitions
  /\ dispute' = [dispute EXCEPT ![m] = to]
  /\ UNCHANGED <<escrowVars, ledgerVars, award, decisionRefund, disputeRefund>>

\* A decision can be taken: under review, frozen, and the whole amount in escrow.
Resolvable(m) ==
  /\ dispute[m] = "UNDER_REVIEW"
  /\ holder[m] = "free"
  /\ status[m] = "DISPUTED"
  /\ escrow[m] = Amount[m]

\* The latest captured payment of the milestone, through any provider.
LastFunding(i, m) ==
  \E n \in 1..Len(captures) :
    /\ captures[n] = i /\ IntentOf[i] = m
    /\ \A later \in n + 1..Len(captures) : IntentOf[captures[later]] # m

\* _resolution_amounts: what RELEASE_TO_FREELANCER, REFUND_CLIENT and SPLIT
\* may give the freelancer; a split leaves something for both.
ResolutionAmounts(m) == {Amount[m]} \cup {0} \cup 1..(Amount[m] - 1)

\* provider.refund of the client's part, if there is one, under the key derived
\* from the dispute and the request's key: the same key again is the same
\* refund, whatever amount is asked for now; another key is another refund, and
\* whether there is a limit to their sum is the provider's affair.  A request that
\* failed has left no row behind, so its key may come back with any decision.
PayRefundPart(m, k, toClient) ==
  disputeRefund' = [disputeRefund EXCEPT ![m][k] = IF @ = 0 THEN toClient ELSE @]

\* Mutant: the amount of the refund is not compared with the decision.
RefundConfirmedAlways(m, k, toClient) == TRUE

\* What _confirm_provider_refund asks of the answer: a refund of this amount.
RefundConfirmed(m, k, toClient) ==
  toClient = 0 \/ disputeRefund'[m][k] = toClient

\* Mutant: commission on the whole amount instead of the freelancer's part.
ResolveDisputeFeeOnAll(m, k, toFreelancer) ==
  LET toClient == Amount[m] - toFreelancer IN
  /\ Resolvable(m)
  /\ PayRefundPart(m, k, toClient) /\ RefundConfirmed(m, k, toClient)
  /\ \E i \in Intents :
       /\ LastFunding(i, m)
       /\ PostJournal("DISPUTE_RESOLUTION", m, m, IntentProvider[i], -Amount[m], toClient,
                      toFreelancer - Fee(Amount[m]), Fee(Amount[m]))
  /\ status' = [status EXCEPT ![m] = "RELEASED"]
  /\ dispute' = [dispute EXCEPT ![m] = "RESOLVED"]
  /\ award' = [award EXCEPT ![m] = toFreelancer]
  /\ decisionRefund' = [decisionRefund EXCEPT ![m] = IF toClient = 0 THEN "NONE" ELSE k]
  /\ UNCHANGED <<contract, holder, intent, payment, captures, refundVars>>

\* resolve_dispute: commission is on the freelancer's part only.
ResolveDispute(m, k, toFreelancer) ==
  LET toClient == Amount[m] - toFreelancer IN
  /\ Resolvable(m)
  /\ PayRefundPart(m, k, toClient) /\ RefundConfirmed(m, k, toClient)
  /\ \E i \in Intents :
       /\ LastFunding(i, m)
       /\ PostJournal("DISPUTE_RESOLUTION", m, m, IntentProvider[i], -Amount[m], toClient,
                      toFreelancer - Fee(toFreelancer), Fee(toFreelancer))
  /\ status' = [status EXCEPT ![m] = "RELEASED"]
  /\ dispute' = [dispute EXCEPT ![m] = "RESOLVED"]
  /\ award' = [award EXCEPT ![m] = toFreelancer]
  /\ decisionRefund' = [decisionRefund EXCEPT ![m] = IF toClient = 0 THEN "NONE" ELSE k]
  /\ UNCHANGED <<contract, holder, intent, payment, captures, refundVars>>

\* The same, but the transaction fails after the provider was asked, or the
\* provider's answer is lost, pending or of another amount: the refund exists
\* there and nothing is committed.
ResolveCrash(m, k, toFreelancer) ==
  /\ Resolvable(m)
  /\ toFreelancer < Amount[m]
  /\ PayRefundPart(m, k, Amount[m] - toFreelancer)
  /\ UNCHANGED <<escrowVars, ledgerVars, dispute, award, decisionRefund>>

DisputesNext ==
  \E m \in Milestones :
    \/ OpenDispute(m)
    \/ \E to \in DisputeStatus : AdminTransition(m, to)
    \/ \E k \in DecisionKeys, toFreelancer \in ResolutionAmounts(m) :
         ResolveDispute(m, k, toFreelancer) \/ ResolveCrash(m, k, toFreelancer)
=============================================================================
