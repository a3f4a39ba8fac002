------------------------------ MODULE Payouts -------------------------------
(***************************************************************************)
(* Payouts from a freelancer's wallet, app/payouts: an administrator maps  *)
(* the freelancer to an account at each provider; a payout reserves its    *)
(* amount, snapshots the account, calls the provider and settles.  Like a  *)
(* refund, a first attempt reads its row before the provider call and the  *)
(* locking read after it does not refresh the status; a repeated request   *)
(* keeps the row locked over the call.  (The sandbox provider's account is *)
(* the user id: a provider configured once and never changed.)             *)
(***************************************************************************)
EXTENDS Ledger

CONSTANTS
  PayoutKeys,       \* payout idempotency keys; a key is bound to its request
  PayoutProvider,   \* the provider the payout request names
  PayoutAmount,     \* its amount_minor
  Accounts,         \* external account references an administrator may configure
  PayoutOverlap     \* may a client repeat a payout request before the first is answered?

ASSUME PayoutAssumption ==
  /\ PayoutProvider \in [PayoutKeys -> Providers]
  /\ PayoutAmount \in [PayoutKeys -> Nat \ {0}]
  /\ PayoutOverlap \in BOOLEAN
  /\ Accounts \cap {"NONE", "DISABLED", "none", "refused"} = {}

VARIABLES
  account,        \* active payout_provider_accounts reference, "NONE" or "DISABLED"
  payout,         \* payouts.status per idempotency key, "NONE" before the row exists
  destination,    \* payouts.provider_destination_reference
  payoutAttempt,  \* where the first attempt of a payout is, or the answer it got
  transfer        \* the account the provider has paid under the key, "none" or "refused"

payoutVars == <<account, payout, destination, payoutAttempt, transfer>>

PayoutAnswers == {"TEMPORARY", "ERROR", "MISMATCH", "SUCCEEDED"}

PayoutsInit ==
  /\ account = [p \in Providers |-> "NONE"]
  /\ payout = [k \in PayoutKeys |-> "NONE"]
  /\ destination = [k \in PayoutKeys |-> "NONE"]
  /\ payoutAttempt = [k \in PayoutKeys |-> "none"]
  /\ transfer = [k \in PayoutKeys |-> "none"]

\* configure_payout_provider_account: creates, replaces or re-enables.
ConfigureAccount(p, a) ==
  /\ account' = [account EXCEPT ![p] = a]
  /\ UNCHANGED <<payout, destination, payoutAttempt, transfer, ledgerVars>>

\* disable_payout_provider_account.
DisableAccount(p) ==
  /\ account[p] # "NONE"
  /\ account' = [account EXCEPT ![p] = "DISABLED"]
  /\ UNCHANGED <<payout, destination, payoutAttempt, transfer, ledgerVars>>

\* Mutant: the balance is compared before the amount is counted.
PayoutReserveUnchecked(k) ==
  LET p == PayoutProvider[k] IN
  /\ payout[k] = "NONE"
  /\ account[p] \in Accounts
  /\ wallet > 0
  /\ \E m \in Milestones :
       PostJournal("PAYOUT", k, m, p, 0, PayoutAmount[k], -PayoutAmount[k], 0)
  /\ payout' = [payout EXCEPT ![k] = "PENDING"]
  /\ destination' = [destination EXCEPT ![k] = account[p]]
  /\ payoutAttempt' = [payoutAttempt EXCEPT ![k] = "reserved"]
  /\ UNCHANGED <<account, transfer>>

\* First transaction of create_payout: resolves the destination, locks the
\* wallet, reserves the amount and commits.  No escrow account is touched.
PayoutReserve(k) ==
  LET p == PayoutProvider[k] IN
  /\ payout[k] = "NONE"
  /\ account[p] \in Accounts
  /\ wallet >= PayoutAmount[k]
  /\ \E m \in Milestones :
       PostJournal("PAYOUT", k, m, p, 0, PayoutAmount[k], -PayoutAmount[k], 0)
  /\ payout' = [payout EXCEPT ![k] = "PENDING"]
  /\ destination' = [destination EXCEPT ![k] = account[p]]
  /\ payoutAttempt' = [payoutAttempt EXCEPT ![k] = "reserved"]
  /\ UNCHANGED <<account, transfer>>

\* Mutant: the mapping is resolved again for the call.
ProviderPayoutResolved(k, answer) ==
  /\ transfer' \in {[transfer EXCEPT ![k] = t] :
       t \in IF transfer[k] = "none" /\ account[PayoutProvider[k]] \in Accounts
             THEN {account[PayoutProvider[k]]} ELSE {transfer[k]}}
  /\ answer \in {"MISMATCH", "SUCCEEDED"} => transfer'[k] \in Accounts

\* provider.payout to the snapshotted destination.  Stripe makes the transfer,
\* refuses it, or is not reached; a repeated key repeats the outcome; a lost or
\* unusable response says nothing of it.
ProviderPayout(k, answer) ==
  /\ transfer' \in {[transfer EXCEPT ![k] = t] :
       t \in IF transfer[k] = "none" THEN {"none", "refused", destination[k]} ELSE {transfer[k]}}
  /\ answer \in {"MISMATCH", "SUCCEEDED"} => transfer'[k] \in Accounts

\* Reads the payout row and calls the provider, holding no lock.
PayoutCall(k) ==
  /\ payoutAttempt[k] = "reserved"
  /\ \E answer \in PayoutAnswers :
       /\ ProviderPayout(k, answer)
       /\ payoutAttempt' = [payoutAttempt EXCEPT ![k] =
            IF answer = "TEMPORARY" \/ payout[k] # "PENDING" THEN "done" ELSE answer]
  /\ UNCHANGED <<account, payout, destination, ledgerVars>>

\* Mutant: the payout is marked FAILED and the wallet not restored.
FailPayoutNoReversal(k) ==
  /\ payout' = [payout EXCEPT ![k] = "FAILED"]
  /\ UNCHANGED ledgerVars

\* _fail_payout: the reversal journal gives the reservation back to the wallet.
FailPayout(k) ==
  /\ \E m \in Milestones :
       PostJournal("REVERSAL", k, m, PayoutProvider[k], 0, -PayoutAmount[k], PayoutAmount[k], 0)
  /\ payout' = [payout EXCEPT ![k] = "FAILED"]

\* The second transaction, on a payout it takes for PENDING.
SettlePayout(k, answer) ==
  \/ answer \in {"ERROR", "MISMATCH"} /\ FailPayout(k)
  \/ /\ answer = "SUCCEEDED"
     /\ payout' = [payout EXCEPT ![k] = "SUCCEEDED"]
     /\ UNCHANGED ledgerVars

PayoutSettle(k) ==
  /\ payoutAttempt[k] \in PayoutAnswers
  /\ SettlePayout(k, payoutAttempt[k])
  /\ payoutAttempt' = [payoutAttempt EXCEPT ![k] = "done"]
  /\ UNCHANGED <<account, destination, transfer>>

\* The process dies, or its transaction is aborted, before it settles.
PayoutCrash(k) ==
  /\ payoutAttempt[k] \in {"reserved"} \cup PayoutAnswers
  /\ payoutAttempt' = [payoutAttempt EXCEPT ![k] = "done"]
  /\ UNCHANGED <<account, payout, destination, transfer, ledgerVars>>

\* The request repeated with its key while the payout is PENDING.
PayoutReplay(k) ==
  /\ payout[k] = "PENDING"
  /\ PayoutOverlap \/ payoutAttempt[k] = "done"
  /\ \E answer \in PayoutAnswers :
       /\ ProviderPayout(k, answer)
       /\ \/ answer = "TEMPORARY" /\ UNCHANGED <<payout, ledgerVars>>
          \/ SettlePayout(k, answer)
  /\ UNCHANGED <<account, destination, payoutAttempt>>

PayoutsNext ==
  \/ \E p \in Providers : DisableAccount(p) \/ \E a \in Accounts : ConfigureAccount(p, a)
  \/ \E k \in PayoutKeys :
       PayoutReserve(k) \/ PayoutCall(k) \/ PayoutSettle(k) \/ PayoutCrash(k) \/ PayoutReplay(k)
=============================================================================
