------------------------------- MODULE Escrow -------------------------------
(***************************************************************************)
(* Escrow of the milestones of one active contract: app/payments/service,  *)
(* app/milestones/service and the cancellation of app/contracts/service.   *)
(*                                                                         *)
(* Every handler is one database transaction and one action, except the    *)
(* three that other requests can interleave with:                          *)
(*  - funding and capture read the contract with the milestone, lock the   *)
(*    contract row in a second query, and keep the status they read first  *)
(*    (the session does not refresh a loaded object): two actions, the     *)
(*    milestone row lock held in between (holder);                         *)
(*  - a first refund attempt commits its reservation, calls the provider   *)
(*    without any lock, and settles in a second transaction: three actions.*)
(*    The refund row is read before the provider call and not refreshed by *)
(*    the locking read after it, so the settling transaction acts on the   *)
(*    PENDING status it saw.                                               *)
(* A transaction that raises changes nothing, so it is no step at all      *)
(* unless it had left a trace (a lock, or an effect at the provider).      *)
(***************************************************************************)
EXTENDS Ledger, Sequences

CONSTANTS
  Intents,         \* payment intents, one per funding idempotency key
  IntentOf,        \* the milestone a payment intent funds
  IntentProvider,  \* the provider a payment intent goes through
  Keys,            \* refund idempotency keys; a key is bound to its request
  KeyOf,           \* the milestone the refund request names
  KeyProvider,     \* the provider the refund request names
  Amount,          \* contracted amount_minor of a milestone
  CommissionBps,   \* commission.platform_bps of the contract snapshot
  Overlap,         \* may a client repeat a refund request before the first is answered?
  LateCapture      \* may a provider capture a payment it has reported as failed?

ASSUME ConstantsAssumption ==
  /\ IntentOf \in [Intents -> Milestones]
  /\ IntentProvider \in [Intents -> Providers]
  /\ KeyOf \in [Keys -> Milestones]
  /\ KeyProvider \in [Keys -> Providers]
  /\ Amount \in [Milestones -> Nat \ {0}]
  /\ CommissionBps \in 0..10000
  /\ Overlap \in BOOLEAN
  /\ LateCapture \in BOOLEAN
  /\ Intents \cap {"free", "funding"} = {}

VARIABLES
  contract,     \* contracts.status
  status,       \* milestones.status
  holder,       \* who holds the row lock of a milestone between two steps
  intent,       \* payment_intents.status, "NONE" before the row exists
  payment,      \* the payment behind an intent, at the provider
  captures,     \* captured intents, in the order of captured_at
  refund,       \* refunds.status per idempotency key, "NONE" before the row exists
  refundAmount, \* refunds.amount_minor
  refundRef,    \* is refunds.provider_reference set?
  attempt,      \* where the first attempt of a refund is, or the answer it got
  provRefund,   \* the refund behind an idempotency key, at the provider
  refundOf      \* the payment that refund pays back, or is to pay back once it is made

escrowVars == <<contract, status, holder, intent, payment, captures,
                refund, refundAmount, refundRef, attempt, provRefund, refundOf>>

\* The rows of refunds and what the provider knows of them.
refundVars == <<refund, refundAmount, refundRef, attempt, provRefund, refundOf>>

ContractStatus == {"ACTIVE", "CANCELLED"}
MilestoneStatus == {"CREATED", "FUNDED", "IN_PROGRESS", "SUBMITTED",
                    "CHANGES_REQUESTED", "APPROVED", "DISPUTED", "RELEASED"}
Answers == {"TEMPORARY", "ERROR", "MISMATCH", "PENDING", "SUCCEEDED", "FAILED"}

EscrowInit ==
  /\ contract = "ACTIVE"
  /\ status = [m \in Milestones |-> "CREATED"]
  /\ holder = [m \in Milestones |-> "free"]
  /\ intent = [i \in Intents |-> "NONE"]
  /\ payment = [i \in Intents |-> "none"]
  /\ captures = <<>>
  /\ refund = [k \in Keys |-> "NONE"]
  /\ refundAmount = [k \in Keys |-> 0]
  /\ refundRef = [k \in Keys |-> FALSE]
  /\ attempt = [k \in Keys |-> "none"]
  /\ provRefund = [k \in Keys |-> "none"]
  /\ refundOf = [k \in Keys |-> "NONE"]

\* A transaction of one step gets the milestone's row lock, and the contract
\* it loads with the milestone is active.
Locked(m) == holder[m] = "free" /\ contract = "ACTIVE"

PendingIntents(m) == {i \in Intents : IntentOf[i] = m /\ intent[i] = "PENDING"}

\* escrow.commission_bps of an amount, rounded down.
Fee(amount) == (amount * CommissionBps) \div 10000

-----------------------------------------------------------------------------
(* Funding: fund_milestone, its payment at the provider, the webhooks.      *)

\* Locks the milestone and reads the contract's status with it.
FundBegin(m) ==
  /\ Locked(m)
  /\ holder' = [holder EXCEPT ![m] = "funding"]
  /\ UNCHANGED <<contract, status, intent, payment, captures, refundVars, ledgerVars>>

\* provider.create_payment, idempotent per key.
CreatePayment(i) ==
  payment' = [payment EXCEPT ![i] = IF @ = "none" THEN "open" ELSE @]

\* Locks the contract, whose status is the one FundBegin saw, and commits a
\* new PENDING intent for a CREATED milestone that has none.
FundCommit(m, i) ==
  /\ holder[m] = "funding"
  /\ IntentOf[i] = m /\ intent[i] = "NONE"
  /\ status[m] = "CREATED"
  /\ PendingIntents(m) = {}
  /\ CreatePayment(i)
  /\ intent' = [intent EXCEPT ![i] = "PENDING"]
  /\ holder' = [holder EXCEPT ![m] = "free"]
  /\ UNCHANGED <<contract, status, captures, refundVars, ledgerVars>>

\* The same, but the transaction dies after the provider made the payment.
FundCrash(m, i) ==
  /\ holder[m] = "funding"
  /\ IntentOf[i] = m /\ intent[i] = "NONE"
  /\ status[m] = "CREATED"
  /\ PendingIntents(m) = {}
  /\ CreatePayment(i)
  /\ holder' = [holder EXCEPT ![m] = "free"]
  /\ UNCHANGED <<contract, status, intent, captures, refundVars, ledgerVars>>

\* A funding or capture transaction ends with nothing to commit: refused,
\* answered with the pending intent there is, or aborted.
Rollback(m) ==
  /\ holder[m] # "free"
  /\ holder' = [holder EXCEPT ![m] = "free"]
  /\ UNCHANGED <<contract, status, intent, payment, captures, refundVars, ledgerVars>>

\* External: the provider captures or fails an open payment.
ProviderPays(i) ==
  /\ \/ payment[i] = "open" /\ \E s \in {"captured", "failed"} :
          payment' = [payment EXCEPT ![i] = s]
     \/ LateCapture /\ payment[i] = "failed" /\ payment' = [payment EXCEPT ![i] = "captured"]
  /\ UNCHANGED <<contract, status, holder, intent, captures, refundVars, ledgerVars>>

\* process_provider_webhook with payment.captured, delivered any number of
\* times: locks the intent (unknown: 404; CAPTURED: nothing to do), then the
\* milestone with the contract's status.
CaptureBegin(i) ==
  /\ payment[i] = "captured"
  /\ intent[i] \in {"PENDING", "FAILED"}
  /\ Locked(IntentOf[i])
  /\ holder' = [holder EXCEPT ![IntentOf[i]] = i]
  /\ UNCHANGED <<contract, status, intent, payment, captures, refundVars, ledgerVars>>

\* Mutant: the amount still to be funded is compared with < instead of =<.
CaptureCommitStrict(m, i) ==
  /\ holder[m] = i
  /\ status[m] \in {"CREATED", "FUNDED"}
  /\ escrow[m] + Amount[m] < Amount[m]
  /\ PostJournal("MILESTONE_FUND", i, m, IntentProvider[i], Amount[m], -Amount[m], 0, 0)
  /\ intent' = [intent EXCEPT ![i] = "CAPTURED"]
  /\ captures' = Append(captures, i)
  /\ status' = [status EXCEPT ![m] = "FUNDED"]
  /\ holder' = [holder EXCEPT ![m] = "free"]
  /\ UNCHANGED <<contract, payment, refundVars>>

\* The rest of _capture_intent, once the contract is locked.
CaptureCommit(m, i) ==
  /\ holder[m] = i
  /\ status[m] \in {"CREATED", "FUNDED"}
  /\ escrow[m] + Amount[m] =< Amount[m]
  /\ PostJournal("MILESTONE_FUND", i, m, IntentProvider[i], Amount[m], -Amount[m], 0, 0)
  /\ intent' = [intent EXCEPT ![i] = "CAPTURED"]
  /\ captures' = Append(captures, i)
  /\ status' = [status EXCEPT ![m] = IF escrow[m] + Amount[m] = Amount[m] THEN "FUNDED" ELSE @]
  /\ holder' = [holder EXCEPT ![m] = "free"]
  /\ UNCHANGED <<contract, payment, refundVars>>

\* process_provider_webhook with payment.failed; the intent's row is locked
\* while a capture of it is under way.
PaymentFailed(i) ==
  /\ payment[i] \in {"failed", "captured"}
  /\ payment[i] = "captured" => LateCapture
  /\ intent[i] = "PENDING"
  /\ holder[IntentOf[i]] # i
  /\ intent' = [intent EXCEPT ![i] = "FAILED"]
  /\ UNCHANGED <<contract, status, holder, payment, captures, refundVars, ledgerVars>>
-----------------------------------------------------------------------------
(* Work on a funded milestone: _transition, release_milestone.              *)

Transition(m, from, to) ==
  /\ Locked(m)
  /\ status[m] \in from
  /\ status' = [status EXCEPT ![m] = to]
  /\ UNCHANGED <<contract, holder, intent, payment, captures, refundVars, ledgerVars>>

\* Mutant: start_milestone without require_milestone_fully_funded.
StartMilestoneUnfunded(m) == Transition(m, {"FUNDED"}, "IN_PROGRESS")

\* require_milestone_fully_funded
FullyFunded(m) == escrow[m] = Amount[m]

StartMilestone(m) ==
  /\ FullyFunded(m)
  /\ Transition(m, {"FUNDED"}, "IN_PROGRESS")

SubmitMilestone(m) == Transition(m, {"IN_PROGRESS", "CHANGES_REQUESTED"}, "SUBMITTED")

RequestChanges(m) == Transition(m, {"SUBMITTED"}, "CHANGES_REQUESTED")

ApproveMilestone(m) == Transition(m, {"SUBMITTED"}, "APPROVED")

\* release_milestone.  The wallet posting is refused by post_journal when the
\* commission takes all; no clearing account is touched, so p is any.
ReleaseMilestone(m) ==
  /\ Locked(m)
  /\ status[m] = "APPROVED"
  /\ escrow[m] = Amount[m]
  /\ Amount[m] - Fee(Amount[m]) > 0
  /\ \E p \in Providers :
       PostJournal("MILESTONE_RELEASE", m, m, p, -Amount[m], 0,
                   Amount[m] - Fee(Amount[m]), Fee(Amount[m]))
  /\ status' = [status EXCEPT ![m] = "RELEASED"]
  /\ UNCHANGED <<contract, holder, intent, payment, captures, refundVars>>

\* Mutant: cancel_contract that does not look for pending funding.
CancelContractPending ==
  /\ contract = "ACTIVE"
  /\ \A m \in Milestones : status[m] = "CREATED"
  /\ contract' = "CANCELLED"
  /\ UNCHANGED <<status, holder, intent, payment, captures, refundVars, ledgerVars>>

\* cancel_contract: no milestone has left CREATED, no funding is pending.
CancelContract ==
  /\ contract = "ACTIVE"
  /\ \A m \in Milestones : status[m] = "CREATED" /\ PendingIntents(m) = {}
  /\ contract' = "CANCELLED"
  /\ UNCHANGED <<status, holder, intent, payment, captures, refundVars, ledgerVars>>
-----------------------------------------------------------------------------
(* Refunds: refund_milestone.                                               *)

\* Mutant: the oldest captured payment instead of the latest.
OldestCapture(i, m, p) ==
  \E n \in 1..Len(captures) :
    /\ captures[n] = i /\ IntentOf[i] = m /\ IntentProvider[i] = p
    /\ \A earlier \in 1..n - 1 :
         ~(IntentOf[captures[earlier]] = m /\ IntentProvider[captures[earlier]] = p)

\* _captured_funding_intent: i is the latest captured payment of milestone m
\* through provider p.
LatestCapture(i, m, p) ==
  \E n \in 1..Len(captures) :
    /\ captures[n] = i /\ IntentOf[i] = m /\ IntentProvider[i] = p
    /\ \A later \in n + 1..Len(captures) :
         ~(IntentOf[captures[later]] = m /\ IntentProvider[captures[later]] = p)

\* First transaction: chooses the payment to refund, reserves the whole escrow
\* balance and commits.
RefundReserve(k) ==
  LET m == KeyOf[k]  p == KeyProvider[k] IN
  /\ Locked(m)
  /\ refund[k] = "NONE"
  /\ status[m] = "FUNDED"
  /\ escrow[m] > 0
  /\ \E i \in Intents :
       LatestCapture(i, m, p) /\ refundOf' = [refundOf EXCEPT ![k] = i]
  /\ PostJournal("MILESTONE_REFUND", k, m, p, -escrow[m], escrow[m], 0, 0)
  /\ refund' = [refund EXCEPT ![k] = "PENDING"]
  /\ refundAmount' = [refundAmount EXCEPT ![k] = escrow[m]]
  /\ attempt' = [attempt EXCEPT ![k] = "reserved"]
  /\ UNCHANGED <<contract, status, holder, intent, payment, captures, refundRef, provRefund>>

\* External: what the provider may make of a refund request with this key.  It
\* treats a repeated key as the same refund, whose outcome never changes.
Outcomes(state) ==
  IF state \in {"none", "pending"} THEN {state, "pending", "succeeded", "failed"} ELSE {state}

\* External: a refund in this state may be reported by this answer.  A lost or
\* unusable response says nothing of the state.
Reports(state, answer) ==
  CASE answer = "TEMPORARY" -> TRUE
    [] answer = "ERROR"     -> TRUE
    [] answer = "MISMATCH"  -> state \in {"pending", "succeeded"}
    [] answer = "PENDING"   -> state = "pending"
    [] answer = "SUCCEEDED" -> state = "succeeded"
    [] answer = "FAILED"    -> state = "failed"

\* provider.refund of payment i, or provider.verify_refund once a reference is
\* stored.  An exception of verify_refund leaves the handler, which TEMPORARY
\* stands for.
ProviderRefund(k, i, answer) ==
  /\ refundRef[k] => answer # "ERROR"
  /\ \E state \in Outcomes(provRefund[k]) :
       /\ Reports(state, answer)
       /\ provRefund' = [provRefund EXCEPT ![k] = state]
       /\ refundOf' = [refundOf EXCEPT ![k] =
                         IF provRefund[k] = "none" /\ state # "none" THEN i ELSE @]

\* Reads the refund row and calls the provider for the payment chosen before the
\* reservation, holding no lock.  A row that is already settled, or an answer
\* that is none, leaves nothing to settle.
RefundCall(k) ==
  /\ attempt[k] = "reserved"
  /\ \E answer \in Answers :
       /\ ProviderRefund(k, refundOf[k], answer)
       /\ attempt' = [attempt EXCEPT ![k] =
            IF answer = "TEMPORARY" \/ refund[k] # "PENDING" THEN "done" ELSE answer]
  /\ UNCHANGED <<contract, status, holder, intent, payment, captures, refund,
                 refundAmount, refundRef, ledgerVars>>

\* Mutant: the refund is marked FAILED and the reservation forgotten.
FailRefundNoReversal(k) ==
  /\ refund' = [refund EXCEPT ![k] = "FAILED"]
  /\ UNCHANGED <<status, ledgerVars>>

\* Mutant: a failed refund also sends the milestone back to CREATED.
FailRefundReopens(k) ==
  LET m == KeyOf[k] IN
  /\ PostJournal("REVERSAL", k, m, KeyProvider[k], refundAmount[k], -refundAmount[k], 0, 0)
  /\ refund' = [refund EXCEPT ![k] = "FAILED"]
  /\ status' = [status EXCEPT ![m] = "CREATED"]

\* _fail_refund: the reversal journal gives the reservation back to escrow.
FailRefund(k) ==
  LET m == KeyOf[k] IN
  /\ PostJournal("REVERSAL", k, m, KeyProvider[k], refundAmount[k], -refundAmount[k], 0, 0)
  /\ refund' = [refund EXCEPT ![k] = "FAILED"]
  /\ UNCHANGED status

\* Mutant: every answer but a failure counts as success.
SettleRefundHasty(k, answer) ==
  LET m == KeyOf[k] IN
  \/ /\ answer \in {"ERROR", "MISMATCH", "FAILED"}
     /\ refundRef' = [refundRef EXCEPT ![k] = @ \/ answer = "FAILED"]
     /\ FailRefund(k)
  \/ /\ answer \in {"PENDING", "SUCCEEDED"} /\ status[m] = "FUNDED"
     /\ refundRef' = [refundRef EXCEPT ![k] = TRUE]
     /\ refund' = [refund EXCEPT ![k] = "SUCCEEDED"]
     /\ status' = [status EXCEPT ![m] = "CREATED"]
     /\ UNCHANGED ledgerVars

\* The second transaction of refund_milestone, on a refund it takes for PENDING.
SettleRefund(k, answer) ==
  LET m == KeyOf[k] IN
  \/ /\ answer \in {"ERROR", "MISMATCH", "FAILED"}
     /\ refundRef' = [refundRef EXCEPT ![k] = @ \/ answer = "FAILED"]
     /\ FailRefund(k)
  \/ /\ answer = "PENDING"
     /\ refundRef' = [refundRef EXCEPT ![k] = TRUE]
     /\ UNCHANGED <<status, refund, ledgerVars>>
  \/ /\ answer = "SUCCEEDED" /\ status[m] = "FUNDED"
     /\ refundRef' = [refundRef EXCEPT ![k] = TRUE]
     /\ refund' = [refund EXCEPT ![k] = "SUCCEEDED"]
     /\ status' = [status EXCEPT ![m] = "CREATED"]
     /\ UNCHANGED ledgerVars
  \/ /\ answer = "SUCCEEDED" /\ status[m] # "FUNDED"  \* RuntimeError: rolled back
     /\ UNCHANGED <<status, refund, refundRef, ledgerVars>>

\* The first attempt settles; it locks the milestone unless provider.refund raised.
RefundSettle(k) ==
  /\ attempt[k] \in Answers
  /\ attempt[k] # "ERROR" => holder[KeyOf[k]] = "free"
  /\ SettleRefund(k, attempt[k])
  /\ attempt' = [attempt EXCEPT ![k] = "done"]
  /\ UNCHANGED <<contract, holder, intent, payment, captures, refundAmount,
                 provRefund, refundOf>>

\* The process dies, or its transaction is aborted, before it settles.
RefundCrash(k) ==
  /\ attempt[k] \in {"reserved"} \cup Answers
  /\ attempt' = [attempt EXCEPT ![k] = "done"]
  /\ UNCHANGED <<contract, status, holder, intent, payment, captures, refund,
                 refundAmount, refundRef, provRefund, refundOf, ledgerVars>>

\* Mutant: a replay only asks for a refund whose reference is stored.
RefundReplayKnown(k) ==
  /\ Locked(KeyOf[k])
  /\ refund[k] = "PENDING" /\ refundRef[k]
  /\ Overlap \/ attempt[k] = "done"
  /\ \E i \in Intents, answer \in Answers :
       /\ LatestCapture(i, KeyOf[k], KeyProvider[k])
       /\ ProviderRefund(k, i, answer)
       /\ \/ answer = "TEMPORARY" /\ UNCHANGED <<status, refund, refundRef, ledgerVars>>
          \/ SettleRefund(k, answer)
  /\ UNCHANGED <<contract, holder, intent, payment, captures, refundAmount, attempt>>

\* The request repeated with its key while the refund is PENDING: it looks for
\* the payment again, keeps the locks on refund and milestone while it calls the
\* provider, and settles.
RefundReplay(k) ==
  /\ Locked(KeyOf[k])
  /\ refund[k] = "PENDING"
  /\ Overlap \/ attempt[k] = "done"
  /\ \E i \in Intents, answer \in Answers :
       /\ LatestCapture(i, KeyOf[k], KeyProvider[k])
       /\ ProviderRefund(k, i, answer)
       /\ \/ answer = "TEMPORARY" /\ UNCHANGED <<status, refund, refundRef, ledgerVars>>
          \/ SettleRefund(k, answer)
  /\ UNCHANGED <<contract, holder, intent, payment, captures, refundAmount, attempt>>

EscrowNext ==
  \/ \E m \in Milestones :
       \/ FundBegin(m)
       \/ \E i \in Intents : FundCommit(m, i) \/ FundCrash(m, i) \/ CaptureCommit(m, i)
       \/ Rollback(m)
       \/ StartMilestone(m) \/ SubmitMilestone(m) \/ RequestChanges(m)
       \/ ApproveMilestone(m) \/ ReleaseMilestone(m)
  \/ \E i \in Intents : ProviderPays(i) \/ CaptureBegin(i) \/ PaymentFailed(i)
  \/ \E k \in Keys :
       RefundReserve(k) \/ RefundCall(k) \/ RefundSettle(k) \/ RefundCrash(k) \/ RefundReplay(k)
  \/ CancelContract
=============================================================================
