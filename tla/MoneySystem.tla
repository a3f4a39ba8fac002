---------------------------- MODULE MoneySystem -----------------------------
(***************************************************************************)
(* The escrow of a contract and the payouts of its freelancer over one     *)
(* ledger: how money moves from a client's payment to a bank account.      *)
(***************************************************************************)
EXTENDS EscrowSystem, Payouts

ASSUME KeysAssumption == PayoutKeys \cap (Keys \cup Intents \cup Milestones) = {}

moneyVars == <<vars, payoutVars>>

MoneyInit == Init /\ PayoutsInit

MoneyNext ==
  \/ Next /\ UNCHANGED payoutVars
  \/ PayoutsNext /\ UNCHANGED <<escrowVars, disputeVars>>

MoneySpec == MoneyInit /\ [][MoneyNext]_moneyVars

PaidOut == {k \in PayoutKeys : payout[k] \in {"PENDING", "SUCCEEDED"}}
-----------------------------------------------------------------------------
\* Every payout variable has the type of the column or provider state it models.
PayoutTypeOK ==
  /\ account \in [Providers -> Accounts \cup {"NONE", "DISABLED"}]
  /\ payout \in [PayoutKeys -> {"NONE", "PENDING", "SUCCEEDED", "FAILED"}]
  /\ destination \in [PayoutKeys -> Accounts \cup {"NONE"}]
  /\ payoutAttempt \in [PayoutKeys -> {"none", "reserved", "done"} \cup PayoutAnswers]
  /\ transfer \in [PayoutKeys -> Accounts \cup {"none", "refused"}]

\* No sequence of payouts, failures and replays overdraws the wallet
\* (require_sufficient_balance under the wallet's row lock).
WalletNeverNegative == wallet >= 0

\* Wallet and commission hold what the milestones earned less the payouts that
\* are pending or done: a failed payout is given back once, no other ever is.
WalletAccounted ==
  wallet + commission + MapThenSumSet(LAMBDA k : PayoutAmount[k], PaidOut)
    = MapThenSumSet(Earned, Milestones)

\* Each provider's clearing account is what the books say went through it:
\* refunds and payouts pending or done, a decision's refund part, less the
\* captured payments.
ClearingAccounted ==
  LET captured(p) == {i \in Intents : IntentProvider[i] = p /\ intent[i] = "CAPTURED"}
      refunded(p) == {k \in Keys : KeyProvider[k] = p /\ refund[k] \in {"PENDING", "SUCCEEDED"}}
      decided(p) == {m \in Milestones : dispute[m] = "RESOLVED" /\
                       \E i \in Intents : LastFunding(i, m) /\ IntentProvider[i] = p}
      paid(p) == {k \in PaidOut : PayoutProvider[k] = p} IN
  \A p \in Providers :
    clearing[p] = MapThenSumSet(LAMBDA k : refundAmount[k], refunded(p))
                  + MapThenSumSet(LAMBDA m : Amount[m] - award[m], decided(p))
                  + MapThenSumSet(LAMBDA k : PayoutAmount[k], paid(p))
                  - MapThenSumSet(LAMBDA i : Amount[IntentOf[i]], captured(p))

\* What the books call paid out, the provider has transferred, and to the
\* account the payout was reserved for, whatever became of the mapping since.
PayoutHasPaid ==
  \A k \in PayoutKeys : payout[k] = "SUCCEEDED" => transfer[k] = destination[k]

\* "A later mapping change cannot redirect an in-flight idempotent payout"
\* (docs/stripe-payments.md): no step pays another account than the one that
\* was active when the wallet was debited.
NotRedirected ==
  [][\A k \in PayoutKeys :
       /\ payout[k] = "NONE" /\ payout'[k] = "PENDING" =>
            destination'[k] = account[PayoutProvider[k]]
       /\ payout[k] # "NONE" => destination'[k] = destination[k]
       /\ transfer'[k] # transfer[k] => transfer'[k] \in {"refused", destination[k]}]_moneyVars
=============================================================================
