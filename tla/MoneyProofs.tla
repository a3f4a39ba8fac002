---------------------------- MODULE MoneyProofs -----------------------------
(***************************************************************************)
(* Proofs about MoneySystem, for every environment: overlapping requests,  *)
(* late captures, changed decisions and mappings, and lost answers.        *)
(***************************************************************************)
EXTENDS MoneySystem, EscrowProofs

\* The inductive invariant of payouts.  Nothing is paid before the reservation,
\* nothing to another account than the snapshot, and an answer that names a
\* transfer, remembered by an attempt or booked as SUCCEEDED, was a transfer.
PayoutInv ==
  /\ PayoutTypeOK
  /\ \A k \in PayoutKeys :
       payout[k] = "NONE" => transfer[k] = "none" /\ payoutAttempt[k] = "none"
  /\ \A k \in PayoutKeys : payout[k] # "NONE" => destination[k] \in Accounts
  /\ \A k \in PayoutKeys : transfer[k] \in {"none", "refused", destination[k]}
  /\ \A k \in PayoutKeys :
       payoutAttempt[k] \in {"MISMATCH", "SUCCEEDED"} => transfer[k] \in Accounts
  /\ \A k \in PayoutKeys : payout[k] = "SUCCEEDED" => transfer[k] \in Accounts

\* The commission on an amount is at most the amount.
LEMMA FeeBound ==
  ASSUME NEW a \in Nat
  PROVE  Fee(a) \in Nat /\ Fee(a) =< a
  <1>1. CommissionBps \in Nat /\ CommissionBps =< 10000
    BY ConstantsAssumption
  <1> DEFINE product == a * CommissionBps
  <1>2. product \in Nat /\ product =< a * 10000
    BY <1>1
  <1> HIDE DEF product
  <1>3. (product \div 10000) \in Nat /\ (product \div 10000) =< a
    BY <1>2
  <1> QED BY <1>3 DEF Fee, product

\* A journal that credits the wallet, or leaves it alone, keeps it out of debt.
LEMMA PostJournalWallet ==
  ASSUME NEW op, NEW ref, NEW m, NEW p, NEW a, NEW b, NEW c \in Int, NEW d,
         wallet \in Nat, wallet + c >= 0, PostJournal(op, ref, m, p, a, b, c, d)
  PROVE  wallet' \in Nat
  BY DEF PostJournal, ledgerVars

\* Settling a refund does not touch the wallet.
LEMMA SettleRefundWallet ==
  ASSUME NEW k \in Keys, NEW answer, SettleRefund(k, answer), wallet \in Nat
  PROVE  wallet' \in Nat
  <1>1. CASE FailRefund(k)
    <2>1. PostJournal("REVERSAL", k, KeyOf[k], KeyProvider[k], refundAmount[k], -refundAmount[k], 0, 0)
      BY <1>1 DEF FailRefund
    <2> QED BY <2>1, PostJournalWallet
  <1>2. CASE UNCHANGED ledgerVars
    BY <1>2 DEF ledgerVars
  <1> QED BY <1>1, <1>2 DEF SettleRefund

\* No step of the escrow takes money from the wallet.
LEMMA EscrowKeepsWallet ==
  ASSUME wallet \in Nat, Next
  PROVE  wallet' \in Nat
  <1>amt. \A m \in Milestones : Amount[m] \in Nat
    BY ConstantsAssumption
  <1>1. ASSUME NEW m \in Milestones, NEW i \in Intents, CaptureCommit(m, i) PROVE wallet' \in Nat
    <2>1. PostJournal("MILESTONE_FUND", i, m, IntentProvider[i], Amount[m], -Amount[m], 0, 0)
      BY <1>1 DEF CaptureCommit
    <2> QED BY <2>1, PostJournalWallet
  <1>2. ASSUME NEW m \in Milestones, ReleaseMilestone(m) PROVE wallet' \in Nat
    <2>1. Amount[m] - Fee(Amount[m]) \in Int /\ wallet + (Amount[m] - Fee(Amount[m])) >= 0
      BY <1>amt, FeeBound
    <2>2. PICK p \in Providers :
            PostJournal("MILESTONE_RELEASE", m, m, p, -Amount[m], 0,
                        Amount[m] - Fee(Amount[m]), Fee(Amount[m]))
      BY <1>2 DEF ReleaseMilestone
    <2> QED BY <2>1, <2>2, PostJournalWallet
  <1>3. ASSUME NEW m \in Milestones, NEW d \in DecisionKeys, NEW a \in 0..Amount[m],
               ResolveDispute(m, d, a)
        PROVE  wallet' \in Nat
    <2>1. a \in Nat
      BY <1>amt
    <2>2. a - Fee(a) \in Int /\ wallet + (a - Fee(a)) >= 0
      BY <2>1, FeeBound
    <2>3. PICK i \in Intents :
            PostJournal("DISPUTE_RESOLUTION", m, m, IntentProvider[i], -Amount[m], Amount[m] - a,
                        a - Fee(a), Fee(a))
      BY <1>3 DEF ResolveDispute
    <2> QED BY <2>2, <2>3, PostJournalWallet
  <1>4. ASSUME NEW k \in Keys, RefundReserve(k) PROVE wallet' \in Nat
    <2>1. PostJournal("MILESTONE_REFUND", k, KeyOf[k], KeyProvider[k],
                      -escrow[KeyOf[k]], escrow[KeyOf[k]], 0, 0)
      BY <1>4 DEF RefundReserve
    <2> QED BY <2>1, PostJournalWallet
  <1>5. ASSUME NEW k \in Keys, RefundSettle(k) PROVE wallet' \in Nat
    BY <1>5, SettleRefundWallet DEF RefundSettle
  <1>6. ASSUME NEW k \in Keys, RefundReplay(k) PROVE wallet' \in Nat
    BY <1>6, SettleRefundWallet DEF RefundReplay, ledgerVars
  <1>7. ASSUME NEW m \in Milestones,
               \/ FundBegin(m) \/ Rollback(m)
               \/ \E i \in Intents : FundCommit(m, i) \/ FundCrash(m, i)
               \/ StartMilestone(m) \/ SubmitMilestone(m) \/ RequestChanges(m) \/ ApproveMilestone(m)
               \/ OpenDispute(m) \/ \E to \in DisputeStatus : AdminTransition(m, to)
               \/ \E d \in DecisionKeys, a \in 0..Amount[m] : ResolveCrash(m, d, a)
        PROVE  wallet' \in Nat
    BY <1>7 DEF FundBegin, Rollback, FundCommit, FundCrash, StartMilestone, FullyFunded, SubmitMilestone,
                RequestChanges, ApproveMilestone, Transition, OpenDispute, AdminTransition,
                ResolveCrash, ledgerVars
  <1>8. ASSUME \/ CancelContract
               \/ \E i \in Intents : ProviderPays(i) \/ CaptureBegin(i) \/ PaymentFailed(i)
               \/ \E k \in Keys : RefundCall(k) \/ RefundCrash(k)
        PROVE  wallet' \in Nat
    BY <1>8 DEF CancelContract, ProviderPays, CaptureBegin, PaymentFailed, RefundCall,
                RefundCrash, ledgerVars
  <1> QED
    BY <1>1, <1>2, <1>3, <1>4, <1>5, <1>6, <1>7, <1>8, ResolutionAmountsRange DEF Next, EscrowNext, DisputesNext

\* No step of a payout overdraws the wallet: the reservation looks at the
\* balance it takes from, and everything else gives back.
LEMMA PayoutsKeepWallet ==
  ASSUME wallet \in Nat, PayoutsNext
  PROVE  wallet' \in Nat
  <1>amt. \A k \in PayoutKeys : PayoutAmount[k] \in Nat
    BY PayoutAssumption
  <1>1. ASSUME NEW k \in PayoutKeys, PayoutReserve(k) PROVE wallet' \in Nat
    <2>1. -PayoutAmount[k] \in Int /\ wallet + (-PayoutAmount[k]) >= 0
      BY <1>amt, <1>1 DEF PayoutReserve
    <2>2. PICK m \in Milestones :
            PostJournal("PAYOUT", k, m, PayoutProvider[k], 0, PayoutAmount[k], -PayoutAmount[k], 0)
      BY <1>1 DEF PayoutReserve
    <2> QED BY <2>1, <2>2, PostJournalWallet
  <1>2. ASSUME NEW k \in PayoutKeys, NEW answer, SettlePayout(k, answer) PROVE wallet' \in Nat
    <2>1. CASE FailPayout(k)
      <3>1. PayoutAmount[k] \in Int /\ wallet + PayoutAmount[k] >= 0
        BY <1>amt
      <3>2. PICK m \in Milestones :
              PostJournal("REVERSAL", k, m, PayoutProvider[k], 0, -PayoutAmount[k], PayoutAmount[k], 0)
        BY <2>1 DEF FailPayout
      <3> QED BY <3>1, <3>2, PostJournalWallet
    <2>2. CASE UNCHANGED ledgerVars
      BY <2>2 DEF ledgerVars
    <2> QED BY <1>2, <2>1, <2>2 DEF SettlePayout
  <1>3. ASSUME NEW k \in PayoutKeys, PayoutSettle(k) \/ PayoutReplay(k) PROVE wallet' \in Nat
    BY <1>2, <1>3 DEF PayoutSettle, PayoutReplay, ledgerVars
  <1>4. ASSUME \/ \E p \in Providers : DisableAccount(p) \/ \E a \in Accounts : ConfigureAccount(p, a)
               \/ \E k \in PayoutKeys : PayoutCall(k) \/ PayoutCrash(k)
        PROVE  wallet' \in Nat
    BY <1>4 DEF DisableAccount, ConfigureAccount, PayoutCall, PayoutCrash, ledgerVars
  <1> QED BY <1>1, <1>3, <1>4 DEF PayoutsNext

\* No sequence of releases, decisions, payouts, failures and replays overdraws
\* the freelancer's wallet.
THEOREM WalletNeverOverdrawn == MoneySpec => []WalletNeverNegative
  <1> DEFINE Solvent == wallet \in Nat
  <1>1. MoneyInit => Solvent
    BY DEF MoneyInit, Init, LedgerInit
  <1>2. Solvent /\ [MoneyNext]_moneyVars => Solvent'
    BY EscrowKeepsWallet, PayoutsKeepWallet DEF MoneyNext, moneyVars, vars, ledgerVars
  <1>3. Solvent => WalletNeverNegative
    BY DEF WalletNeverNegative
  <1> HIDE DEF Solvent
  <1> QED BY <1>1, <1>2, <1>3, PTL DEF MoneySpec

\* A step of the provider under key k: it pays only the snapshotted account,
\* once, and an answer that names a transfer was one.
LEMMA ProviderPayoutPays ==
  ASSUME NEW k \in PayoutKeys, NEW answer, PayoutInv, ProviderPayout(k, answer), payout[k] # "NONE"
  PROVE  /\ transfer' \in [PayoutKeys -> Accounts \cup {"none", "refused"}]
         /\ \A j \in PayoutKeys : j # k => transfer'[j] = transfer[j]
         /\ transfer'[k] # transfer[k] => transfer'[k] \in {"refused", destination[k]}
         /\ transfer'[k] \in {"none", "refused", destination[k]}
         /\ transfer[k] \in Accounts => transfer'[k] \in Accounts
         /\ answer \in {"MISMATCH", "SUCCEEDED"} => transfer'[k] \in Accounts
  <1>1. /\ transfer \in [PayoutKeys -> Accounts \cup {"none", "refused"}]
        /\ destination[k] \in Accounts /\ transfer[k] \in {"none", "refused", destination[k]}
    BY DEF PayoutInv, PayoutTypeOK
  <1>2. "none" \notin Accounts /\ "refused" \notin Accounts
    BY PayoutAssumption
  <1>3. PICK t \in {"none", "refused", destination[k]} :
          transfer' = [transfer EXCEPT ![k] = t] /\ (transfer[k] # "none" => t = transfer[k])
    BY <1>1 DEF ProviderPayout
  <1>4. transfer'[k] = t /\ \A j \in PayoutKeys : j # k => transfer'[j] = transfer[j]
    BY <1>1, <1>3
  <1>5. transfer' \in [PayoutKeys -> Accounts \cup {"none", "refused"}]
    BY <1>1, <1>3
  <1>6. answer \in {"MISMATCH", "SUCCEEDED"} => transfer'[k] \in Accounts
    BY DEF ProviderPayout
  <1> QED BY <1>1, <1>2, <1>3, <1>4, <1>5, <1>6

\* A step, or a stutter, preserves PayoutInv.
LEMMA PayoutStep ==
  ASSUME PayoutInv, [MoneyNext]_moneyVars
  PROVE  PayoutInv'
  <1>type. /\ account \in [Providers -> Accounts \cup {"NONE", "DISABLED"}]
           /\ payout \in [PayoutKeys -> {"NONE", "PENDING", "SUCCEEDED", "FAILED"}]
           /\ destination \in [PayoutKeys -> Accounts \cup {"NONE"}]
           /\ payoutAttempt \in [PayoutKeys -> {"none", "reserved", "done"} \cup PayoutAnswers]
           /\ transfer \in [PayoutKeys -> Accounts \cup {"none", "refused"}]
    BY DEF PayoutInv, PayoutTypeOK
  <1>map. \A k \in PayoutKeys : PayoutProvider[k] \in Providers
    BY PayoutAssumption
  <1>acc. "none" \notin Accounts /\ "refused" \notin Accounts
    BY PayoutAssumption
  <1>1. ASSUME UNCHANGED payoutVars PROVE PayoutInv'
    BY <1>1 DEF payoutVars, PayoutInv, PayoutTypeOK
  <1>2. ASSUME NEW p \in Providers, NEW a \in Accounts \cup {"DISABLED"},
               account' = [account EXCEPT ![p] = a],
               UNCHANGED <<payout, destination, payoutAttempt, transfer>>
        PROVE  PayoutInv'
    <2>1. account' \in [Providers -> Accounts \cup {"NONE", "DISABLED"}]
      BY <1>type, <1>2
    <2> QED BY <1>2, <2>1 DEF PayoutInv, PayoutTypeOK
  <1>3. ASSUME NEW k \in PayoutKeys, PayoutReserve(k) PROVE PayoutInv'
    <2>1. /\ payout[k] = "NONE" /\ account[PayoutProvider[k]] \in Accounts
          /\ payout' = [payout EXCEPT ![k] = "PENDING"]
          /\ destination' = [destination EXCEPT ![k] = account[PayoutProvider[k]]]
          /\ payoutAttempt' = [payoutAttempt EXCEPT ![k] = "reserved"]
          /\ UNCHANGED <<account, transfer>>
      BY <1>3 DEF PayoutReserve
    <2>2. PayoutTypeOK'
      BY <1>type, <2>1 DEF PayoutTypeOK
    <2>3. transfer[k] = "none"
      BY <2>1 DEF PayoutInv
    <2> QED BY <1>type, <2>1, <2>2, <2>3 DEF PayoutInv
  <1>4. ASSUME NEW k \in PayoutKeys, NEW answer \in PayoutAnswers, NEW s, NEW a,
               payout[k] # "NONE", ProviderPayout(k, answer) \/ UNCHANGED transfer,
               UNCHANGED <<account, destination>>,
               s \in {payout[k], "SUCCEEDED", "FAILED"}, payout' = [payout EXCEPT ![k] = s],
               a \in {payoutAttempt[k], "done", answer},
               payoutAttempt' = [payoutAttempt EXCEPT ![k] = a],
               s = "SUCCEEDED" /\ s # payout[k] => transfer'[k] \in Accounts,
               a \in {"MISMATCH", "SUCCEEDED"} /\ a # payoutAttempt[k] => transfer'[k] \in Accounts
        PROVE  PayoutInv'
    <2>1. /\ transfer' \in [PayoutKeys -> Accounts \cup {"none", "refused"}]
          /\ \A j \in PayoutKeys : j # k => transfer'[j] = transfer[j]
          /\ transfer'[k] \in {"none", "refused", destination[k]}
          /\ transfer[k] \in Accounts => transfer'[k] \in Accounts
      <3>1. CASE ProviderPayout(k, answer)
        BY <1>4, <3>1, ProviderPayoutPays
      <3>2. CASE UNCHANGED transfer
        BY <1>type, <3>2 DEF PayoutInv
      <3> QED BY <1>4, <3>1, <3>2
    <2>2. PayoutTypeOK'
      BY <1>type, <1>4, <2>1 DEF PayoutTypeOK
    <2>3. /\ payout'[k] = s /\ payoutAttempt'[k] = a
          /\ \A j \in PayoutKeys : j # k => payout'[j] = payout[j] /\ payoutAttempt'[j] = payoutAttempt[j]
      BY <1>type, <1>4
    <2> QED BY <1>type, <1>4, <2>1, <2>2, <2>3 DEF PayoutInv
  <1>5. ASSUME NEW k \in PayoutKeys, PayoutCall(k) PROVE PayoutInv'
    <2>1. PICK answer \in PayoutAnswers :
            /\ ProviderPayout(k, answer)
            /\ payoutAttempt' = [payoutAttempt EXCEPT ![k] =
                 IF answer = "TEMPORARY" \/ payout[k] # "PENDING" THEN "done" ELSE answer]
      BY <1>5 DEF PayoutCall
    <2>2. payout[k] # "NONE"
      BY <1>5 DEF PayoutCall, PayoutInv
    <2>3. payout' = [payout EXCEPT ![k] = payout[k]] /\ UNCHANGED <<account, destination>>
      BY <1>type, <1>5 DEF PayoutCall
    <2>4. answer \in {"MISMATCH", "SUCCEEDED"} => transfer'[k] \in Accounts
      BY <2>1 DEF ProviderPayout
    <2> QED BY <1>4, <2>1, <2>2, <2>3, <2>4
  <1>6. ASSUME NEW k \in PayoutKeys, PayoutSettle(k) PROVE PayoutInv'
    <2>1. /\ payoutAttempt[k] \in PayoutAnswers
          /\ payoutAttempt' = [payoutAttempt EXCEPT ![k] = "done"]
          /\ UNCHANGED <<account, destination, transfer>>
      BY <1>6 DEF PayoutSettle
    <2>2. payout[k] # "NONE"
      BY <2>1 DEF PayoutInv, PayoutAnswers
    <2>3. PICK s \in {"SUCCEEDED", "FAILED"} :
            /\ payout' = [payout EXCEPT ![k] = s]
            /\ s = "SUCCEEDED" => payoutAttempt[k] = "SUCCEEDED"
      BY <1>6 DEF PayoutSettle, SettlePayout, FailPayout
    <2>4. s = "SUCCEEDED" => transfer'[k] \in Accounts
      BY <2>1, <2>3 DEF PayoutInv
    <2> QED BY <1>4, <2>1, <2>2, <2>3, <2>4
  <1>7. ASSUME NEW k \in PayoutKeys, PayoutCrash(k) PROVE PayoutInv'
    <2>1. /\ payoutAttempt[k] # "none"
          /\ payoutAttempt' = [payoutAttempt EXCEPT ![k] = "done"]
          /\ UNCHANGED <<account, payout, destination, transfer>>
      BY <1>7 DEF PayoutCrash, PayoutAnswers
    <2>2. payout[k] # "NONE" /\ payout' = [payout EXCEPT ![k] = payout[k]]
      BY <1>type, <2>1 DEF PayoutInv
    <2>3. "TEMPORARY" \in PayoutAnswers
      BY DEF PayoutAnswers
    <2> QED BY <1>4, <2>1, <2>2, <2>3
  <1>8. ASSUME NEW k \in PayoutKeys, PayoutReplay(k) PROVE PayoutInv'
    <2>1. PICK answer \in PayoutAnswers :
            /\ ProviderPayout(k, answer)
            /\ UNCHANGED payout \/ SettlePayout(k, answer)
      BY <1>8 DEF PayoutReplay
    <2>2. /\ payout[k] = "PENDING" /\ UNCHANGED <<account, destination>>
          /\ payoutAttempt' = [payoutAttempt EXCEPT ![k] = payoutAttempt[k]]
      BY <1>type, <1>8 DEF PayoutReplay
    <2>3. PICK s \in {"PENDING", "SUCCEEDED", "FAILED"} :
            /\ payout' = [payout EXCEPT ![k] = s]
            /\ s = "SUCCEEDED" => answer = "SUCCEEDED"
      BY <1>type, <2>1, <2>2 DEF SettlePayout, FailPayout
    <2>4. s = "SUCCEEDED" => transfer'[k] \in Accounts
      BY <2>1, <2>3 DEF ProviderPayout
    <2> QED BY <1>4, <2>1, <2>2, <2>3, <2>4
  <1>9. ASSUME NEW p \in Providers,
               DisableAccount(p) \/ \E a \in Accounts : ConfigureAccount(p, a)
        PROVE  PayoutInv'
    BY <1>2, <1>9 DEF DisableAccount, ConfigureAccount
  <1>10. CASE MoneyNext
    BY <1>1, <1>3, <1>5, <1>6, <1>7, <1>8, <1>9, <1>10 DEF MoneyNext, PayoutsNext
  <1>11. CASE UNCHANGED moneyVars
    BY <1>1, <1>11 DEF moneyVars
  <1> QED BY <1>10, <1>11

\* The inductive invariant holds in every reachable state.
THEOREM PayoutInvariant == MoneySpec => []PayoutInv
  <1>1. MoneyInit => PayoutInv
    BY DEF MoneyInit, PayoutsInit, PayoutInv, PayoutTypeOK
  <1>2. PayoutInv /\ [MoneyNext]_moneyVars => PayoutInv'
    BY PayoutStep
  <1> QED BY <1>1, <1>2, PTL DEF MoneySpec

\* A payout the books call SUCCEEDED was transferred to the account that was
\* active when the wallet was debited, whatever became of the mapping since.
THEOREM PayoutsReachDestination == MoneySpec => []PayoutHasPaid
  <1>1. PayoutInv => PayoutHasPaid
    <2>1. "none" \notin Accounts /\ "refused" \notin Accounts
      BY PayoutAssumption
    <2> QED BY <2>1 DEF PayoutInv, PayoutHasPaid
  <1> QED BY <1>1, PayoutInvariant, PTL

\* "A later mapping change cannot redirect an in-flight idempotent payout":
\* every transfer goes to the account that was active at its reservation.
THEOREM PayoutsNeverRedirected == MoneySpec => NotRedirected
  <1> DEFINE Kept(k) ==
        /\ payout[k] = "NONE" /\ payout'[k] = "PENDING" =>
             destination'[k] = account[PayoutProvider[k]]
        /\ payout[k] # "NONE" => destination'[k] = destination[k]
        /\ transfer'[k] # transfer[k] => transfer'[k] \in {"refused", destination[k]}
      Straight == \A k \in PayoutKeys : Kept(k)
  <1>1. PayoutInv /\ [MoneyNext]_moneyVars => [Straight]_moneyVars
    <2> SUFFICES ASSUME PayoutInv, MoneyNext PROVE Straight
      OBVIOUS
    <2>type. /\ payout \in [PayoutKeys -> {"NONE", "PENDING", "SUCCEEDED", "FAILED"}]
             /\ destination \in [PayoutKeys -> Accounts \cup {"NONE"}]
      BY DEF PayoutInv, PayoutTypeOK
    <2>1. ASSUME UNCHANGED <<payout, destination, transfer>> PROVE Straight
      BY <2>1
    <2>2. ASSUME NEW k \in PayoutKeys, PayoutReserve(k) PROVE Straight
      BY <2>type, <2>2 DEF PayoutReserve
    <2>3. ASSUME NEW k \in PayoutKeys, NEW answer, ProviderPayout(k, answer) \/ UNCHANGED transfer,
                 payout[k] # "NONE", UNCHANGED destination, NEW s, payout' = [payout EXCEPT ![k] = s]
          PROVE  Straight
      <3>1. /\ \A j \in PayoutKeys : j # k => transfer'[j] = transfer[j]
            /\ transfer'[k] # transfer[k] => transfer'[k] \in {"refused", destination[k]}
        BY <2>3, ProviderPayoutPays
      <3>2. \A j \in PayoutKeys : j # k => payout'[j] = payout[j]
        BY <2>type, <2>3
      <3> QED BY <2>3, <3>1, <3>2
    <2>4. ASSUME NEW k \in PayoutKeys, PayoutCall(k) PROVE Straight
      <3>1. payout[k] # "NONE" /\ payout' = [payout EXCEPT ![k] = payout[k]]
        BY <2>type, <2>4 DEF PayoutCall, PayoutInv
      <3> QED BY <2>3, <2>4, <3>1 DEF PayoutCall
    <2>5. ASSUME NEW k \in PayoutKeys, PayoutSettle(k) PROVE Straight
      <3>1. payout[k] # "NONE"
        BY <2>5 DEF PayoutSettle, PayoutInv, PayoutAnswers
      <3>2. \E s : payout' = [payout EXCEPT ![k] = s]
        BY <2>5 DEF PayoutSettle, SettlePayout, FailPayout
      <3> QED BY <2>3, <2>5, <3>1, <3>2 DEF PayoutSettle
    <2>6. ASSUME NEW k \in PayoutKeys, PayoutReplay(k) PROVE Straight
      <3>1. payout[k] # "NONE" /\ UNCHANGED destination
        BY <2>6 DEF PayoutReplay
      <3>2. \E s : payout' = [payout EXCEPT ![k] = s]
        <4>1. payout = [payout EXCEPT ![k] = payout[k]]
          BY <2>type
        <4> QED BY <2>6, <4>1 DEF PayoutReplay, SettlePayout, FailPayout
      <3> QED BY <2>3, <2>6, <3>1, <3>2 DEF PayoutReplay
    <2>7. ASSUME \/ \E p \in Providers : DisableAccount(p) \/ \E a \in Accounts : ConfigureAccount(p, a)
                 \/ \E k \in PayoutKeys : PayoutCrash(k)
                 \/ UNCHANGED payoutVars
          PROVE  Straight
      BY <2>1, <2>7 DEF DisableAccount, ConfigureAccount, PayoutCrash, payoutVars
    <2> QED BY <2>2, <2>4, <2>5, <2>6, <2>7 DEF MoneyNext, PayoutsNext
  <1> QED BY <1>1, PayoutInvariant, PTL DEF MoneySpec, NotRedirected
-----------------------------------------------------------------------------
(* The wallet's books, when a client waits for the answer of a payout       *)
(* before it repeats the request (~PayoutOverlap).                          *)

\* What post_journal adds to the journals.
LEMMA PostJournalPosts ==
  ASSUME NEW op, NEW ref, NEW m, NEW p, NEW a, NEW b, NEW c, NEW d,
         PostJournal(op, ref, m, p, a, b, c, d)
  PROVE  posted' \subseteq posted \cup {<<op, ref>>}
  BY DEF PostJournal, ledgerVars

\* A step of the escrow posts no journal of a payout.
LEMMA EscrowPostsNoPayout ==
  ASSUME Next, NEW k \in PayoutKeys
  PROVE  /\ <<"PAYOUT", k>> \in posted' => <<"PAYOUT", k>> \in posted
         /\ <<"REVERSAL", k>> \in posted' => <<"REVERSAL", k>> \in posted
  <1> DEFINE Goal == /\ <<"PAYOUT", k>> \in posted' => <<"PAYOUT", k>> \in posted
                     /\ <<"REVERSAL", k>> \in posted' => <<"REVERSAL", k>> \in posted
  <1>keys. k \notin Keys
    BY KeysAssumption
  <1>1. ASSUME NEW op \in {"MILESTONE_FUND", "MILESTONE_RELEASE", "MILESTONE_REFUND", "DISPUTE_RESOLUTION"},
               NEW ref, posted' \subseteq posted \cup {<<op, ref>>}
        PROVE  Goal
    BY <1>1
  <1>2. ASSUME NEW j \in Keys, posted' \subseteq posted \cup {<<"REVERSAL", j>>} PROVE Goal
    BY <1>keys, <1>2
  <1>3. ASSUME NEW m \in Milestones, NEW i \in Intents, CaptureCommit(m, i) PROVE Goal
    BY <1>1, <1>3, PostJournalPosts DEF CaptureCommit
  <1>4. ASSUME NEW m \in Milestones, ReleaseMilestone(m) PROVE Goal
    BY <1>1, <1>4, PostJournalPosts DEF ReleaseMilestone
  <1>5. ASSUME NEW m \in Milestones, NEW d, NEW a, ResolveDispute(m, d, a) PROVE Goal
    BY <1>1, <1>5, PostJournalPosts DEF ResolveDispute
  <1>6. ASSUME NEW j \in Keys, RefundReserve(j) PROVE Goal
    BY <1>1, <1>6, PostJournalPosts DEF RefundReserve
  <1>7. ASSUME NEW j \in Keys, NEW answer, SettleRefund(j, answer) PROVE Goal
    <2>1. CASE FailRefund(j)
      BY <1>2, <2>1, PostJournalPosts DEF FailRefund
    <2>2. CASE UNCHANGED ledgerVars
      BY <2>2 DEF ledgerVars
    <2> QED BY <1>7, <2>1, <2>2 DEF SettleRefund
  <1>8. ASSUME NEW j \in Keys, RefundSettle(j) \/ RefundReplay(j) PROVE Goal
    BY <1>7, <1>8 DEF RefundSettle, RefundReplay, ledgerVars
  <1>9. ASSUME NEW m \in Milestones,
               \/ FundBegin(m) \/ Rollback(m) \/ OpenDispute(m)
               \/ StartMilestone(m) \/ SubmitMilestone(m) \/ RequestChanges(m) \/ ApproveMilestone(m)
               \/ \E i \in Intents : FundCommit(m, i) \/ FundCrash(m, i)
               \/ \E to \in DisputeStatus : AdminTransition(m, to)
               \/ \E d \in DecisionKeys, a \in ResolutionAmounts(m) : ResolveCrash(m, d, a)
        PROVE  Goal
    BY <1>9 DEF FundBegin, Rollback, OpenDispute, StartMilestone, SubmitMilestone, RequestChanges,
       ApproveMilestone, Transition, FundCommit, FundCrash, AdminTransition, ResolveCrash, ledgerVars
  <1>10. ASSUME \/ CancelContract
                \/ \E i \in Intents : ProviderPays(i) \/ CaptureBegin(i) \/ PaymentFailed(i)
                \/ \E j \in Keys : RefundCall(j) \/ RefundCrash(j)
         PROVE  Goal
    BY <1>10 DEF CancelContract, ProviderPays, CaptureBegin, PaymentFailed, RefundCall, RefundCrash,
       ledgerVars
  <1> HIDE DEF Goal
  <1>11. Goal
    BY <1>3, <1>4, <1>5, <1>6, <1>8, <1>9, <1>10 DEF Next, EscrowNext, DisputesNext
  <1> QED BY <1>11 DEF Goal
\* What a payout's rows and journals say of each other: a journal has a row, a
\* reversal is of a FAILED payout, and only one attempt settles a payout.
PayoutBooksInv ==
  /\ \A k \in PayoutKeys : <<"PAYOUT", k>> \in posted => payout[k] # "NONE"
  /\ \A k \in PayoutKeys : <<"REVERSAL", k>> \in posted => payout[k] = "FAILED"
  /\ \A k \in PayoutKeys :
       payoutAttempt[k] \in {"reserved"} \cup PayoutAnswers => payout[k] = "PENDING"

\* The payouts of a state are finitely many.
FinitePayouts == IsFiniteSet(PaidOut)

\* The inductive invariant of the wallet's books.
WalletInv ==
  /\ EarningInv
  /\ PayoutInv
  /\ PayoutBooksInv
  /\ FinitePayouts
  /\ wallet + commission - Total(EarnedOf, Milestones) + Total(PayoutAmount, PaidOut) = 0

\* A payout step posts journals of payouts only, and keeps the escrow.
PayoutJournalsOnly ==
  /\ \A op \in Operations, ref \in Intents \cup Keys \cup Milestones :
       <<op, ref>> \in posted' => <<op, ref>> \in posted
  /\ escrow \in [Milestones -> Int] => escrow' \in [Milestones -> Int]

\* It books nothing, a reservation, or the reversal of one.
NoPayoutBooked == UNCHANGED <<wallet, clearing, PaidOut>>

PayoutReserved ==
  \E k \in PayoutKeys \ PaidOut :
    /\ PaidOut' = PaidOut \cup {k}
    /\ wallet' = wallet - PayoutAmount[k]
    /\ clearing' = [clearing EXCEPT ![PayoutProvider[k]] = @ + PayoutAmount[k]]

PayoutReversed ==
  \E k \in PaidOut :
    /\ PaidOut' = PaidOut \ {k}
    /\ wallet' = wallet + PayoutAmount[k]
    /\ clearing' = [clearing EXCEPT ![PayoutProvider[k]] = @ + (-PayoutAmount[k])]

\* What a payout step does to the journals, the wallet and the rows: a
\* reservation, a failure that is reversed, or nothing to the balance.
LEMMA PayoutMoves ==
  ASSUME ~PayoutOverlap, wallet \in Int, commission \in Int, PayoutInv, PayoutBooksInv, PayoutsNext
  PROVE  /\ wallet' \in Int
         /\ PayoutBooksInv'
         /\ UNCHANGED commission
         /\ PayoutJournalsOnly
         /\ NoPayoutBooked \/ PayoutReserved \/ PayoutReversed
  <1> DEFINE Goal == /\ wallet' \in Int /\ PayoutBooksInv' /\ UNCHANGED commission
                     /\ PayoutJournalsOnly
                     /\ NoPayoutBooked \/ PayoutReserved \/ PayoutReversed
  <1>type. /\ payout \in [PayoutKeys -> {"NONE", "PENDING", "SUCCEEDED", "FAILED"}]
           /\ payoutAttempt \in [PayoutKeys -> {"none", "reserved", "done"} \cup PayoutAnswers]
    BY DEF PayoutInv, PayoutTypeOK
  <1>amt. \A k \in PayoutKeys : PayoutAmount[k] \in Int
    BY PayoutAssumption
  <1>key. \A k \in PayoutKeys : k \notin Intents \cup Keys \cup Milestones
    BY KeysAssumption
  <1>inv. /\ \A k \in PayoutKeys : <<"PAYOUT", k>> \in posted => payout[k] # "NONE"
          /\ \A k \in PayoutKeys : <<"REVERSAL", k>> \in posted => payout[k] = "FAILED"
          /\ \A k \in PayoutKeys :
               payoutAttempt[k] \in {"reserved"} \cup PayoutAnswers => payout[k] = "PENDING"
    BY DEF PayoutBooksInv
  \* The balance stays, and a pending payout may succeed.
  <1>1. ASSUME UNCHANGED ledgerVars, NEW k \in PayoutKeys,
               NEW s, payout[k] = s \/ (payout[k] = "PENDING" /\ s = "SUCCEEDED"),
               payout' = [payout EXCEPT ![k] = s],
               NEW a, payoutAttempt' = [payoutAttempt EXCEPT ![k] = a],
               a \in {"reserved"} \cup PayoutAnswers => s = "PENDING"
        PROVE  Goal
    <2>1. UNCHANGED <<posted, wallet, commission, clearing, escrow>>
      BY <1>1 DEF ledgerVars
    <2>2. /\ payout'[k] = s /\ payoutAttempt'[k] = a
          /\ \A j \in PayoutKeys : j # k => payout'[j] = payout[j] /\ payoutAttempt'[j] = payoutAttempt[j]
      BY <1>type, <1>1
    <2>3. PayoutBooksInv'
      BY <1>1, <1>inv, <2>1, <2>2 DEF PayoutBooksInv
    <2>4. PaidOut' = PaidOut
      BY <1>1, <2>2 DEF PaidOut
    <2> QED BY <2>1, <2>3, <2>4 DEF NoPayoutBooked, PayoutJournalsOnly
  <1>2. ASSUME UNCHANGED <<ledgerVars, payout, payoutAttempt>> PROVE Goal
    <2>1. UNCHANGED <<posted, wallet, commission, clearing, escrow>>
      BY <1>2 DEF ledgerVars
    <2>2. PayoutBooksInv' /\ PaidOut' = PaidOut
      BY <1>2, <1>inv, <2>1 DEF PayoutBooksInv, PaidOut
    <2> QED BY <2>1, <2>2 DEF NoPayoutBooked, PayoutJournalsOnly
  <1>3. ASSUME NEW k \in PayoutKeys, PayoutReserve(k) PROVE Goal
    <2>1. /\ payout[k] = "NONE" /\ payout' = [payout EXCEPT ![k] = "PENDING"]
          /\ payoutAttempt' = [payoutAttempt EXCEPT ![k] = "reserved"]
      BY <1>3 DEF PayoutReserve
    <2>2. PICK m \in Milestones :
            PostJournal("PAYOUT", k, m, PayoutProvider[k], 0, PayoutAmount[k], -PayoutAmount[k], 0)
      BY <1>3 DEF PayoutReserve
    <2>3. <<"PAYOUT", k>> \notin posted
      BY <1>inv, <2>1
    <2>4. /\ posted' = posted \cup {<<"PAYOUT", k>>}
          /\ wallet' = wallet + (-PayoutAmount[k]) /\ commission' = commission + 0
          /\ escrow' = [escrow EXCEPT ![m] = @ + 0]
          /\ clearing' = [clearing EXCEPT ![PayoutProvider[k]] = @ + PayoutAmount[k]]
      BY <2>2, <2>3 DEF PostJournal
    <2>5. /\ payout'[k] = "PENDING"
          /\ \A j \in PayoutKeys : j # k => payout'[j] = payout[j] /\ payoutAttempt'[j] = payoutAttempt[j]
      BY <1>type, <2>1
    <2>6. PayoutBooksInv'
      BY <1>inv, <2>1, <2>4, <2>5 DEF PayoutBooksInv
    <2>7. k \notin PaidOut /\ PaidOut' = PaidOut \cup {k}
      BY <2>1, <2>5 DEF PaidOut
    <2>8. PayoutJournalsOnly
      BY <1>key, <2>4 DEF Operations, PayoutJournalsOnly
    <2>9. commission' = commission /\ wallet' = wallet - PayoutAmount[k] /\ wallet' \in Int
      BY <1>amt, <2>4
    <2>10. PayoutReserved
      BY <2>4, <2>7, <2>9 DEF PayoutReserved
    <2> QED BY <2>6, <2>8, <2>9, <2>10
  <1>4. ASSUME NEW k \in PayoutKeys, payout[k] = "PENDING", FailPayout(k), NEW a,
               payoutAttempt' = [payoutAttempt EXCEPT ![k] = a], a \notin {"reserved"} \cup PayoutAnswers
        PROVE  Goal
    <2>1. payout' = [payout EXCEPT ![k] = "FAILED"]
      BY <1>4 DEF FailPayout
    <2>2. PICK m \in Milestones :
            PostJournal("REVERSAL", k, m, PayoutProvider[k], 0, -PayoutAmount[k], PayoutAmount[k], 0)
      BY <1>4 DEF FailPayout
    <2>3. <<"REVERSAL", k>> \notin posted
      BY <1>4, <1>inv
    <2>4. /\ posted' = posted \cup {<<"REVERSAL", k>>}
          /\ wallet' = wallet + PayoutAmount[k] /\ commission' = commission + 0
          /\ escrow' = [escrow EXCEPT ![m] = @ + 0]
          /\ clearing' = [clearing EXCEPT ![PayoutProvider[k]] = @ + (-PayoutAmount[k])]
      BY <2>2, <2>3 DEF PostJournal
    <2>5. /\ payout'[k] = "FAILED" /\ payoutAttempt'[k] = a
          /\ \A j \in PayoutKeys : j # k => payout'[j] = payout[j] /\ payoutAttempt'[j] = payoutAttempt[j]
      BY <1>type, <1>4, <2>1
    <2>6. PayoutBooksInv'
      BY <1>4, <1>inv, <2>4, <2>5 DEF PayoutBooksInv
    <2>7. k \in PaidOut /\ PaidOut' = PaidOut \ {k}
      BY <1>4, <2>5 DEF PaidOut
    <2>8. PayoutJournalsOnly
      BY <1>key, <2>4 DEF Operations, PayoutJournalsOnly
    <2>9. commission' = commission /\ wallet' \in Int
      BY <1>amt, <2>4
    <2>10. PayoutReversed
      BY <2>4, <2>7 DEF PayoutReversed
    <2> QED BY <2>6, <2>8, <2>9, <2>10
  <1>5. ASSUME NEW k \in PayoutKeys, payout[k] = "PENDING", NEW answer, SettlePayout(k, answer), NEW a,
               payoutAttempt' = [payoutAttempt EXCEPT ![k] = a], a \notin {"reserved"} \cup PayoutAnswers
        PROVE  Goal
    BY <1>1, <1>4, <1>5 DEF SettlePayout
  <1>6. ASSUME NEW k \in PayoutKeys, PayoutCall(k) PROVE Goal
    <2>1. payoutAttempt[k] = "reserved" /\ UNCHANGED <<payout, ledgerVars>>
      BY <1>6 DEF PayoutCall
    <2>2. payout[k] = "PENDING"
      BY <1>inv, <2>1
    <2>3. PICK a : payoutAttempt' = [payoutAttempt EXCEPT ![k] = a]
      BY <1>6 DEF PayoutCall
    <2>4. payout' = [payout EXCEPT ![k] = payout[k]]
      BY <1>type, <2>1
    <2> QED BY <1>1, <2>1, <2>2, <2>3, <2>4
  <1>7. ASSUME NEW k \in PayoutKeys, PayoutSettle(k) PROVE Goal
    <2>1. /\ payoutAttempt[k] \in PayoutAnswers /\ SettlePayout(k, payoutAttempt[k])
          /\ payoutAttempt' = [payoutAttempt EXCEPT ![k] = "done"]
      BY <1>7 DEF PayoutSettle
    <2>2. payout[k] = "PENDING" /\ "done" \notin {"reserved"} \cup PayoutAnswers
      BY <1>inv, <2>1 DEF PayoutAnswers
    <2> QED BY <1>5, <2>1, <2>2
  <1>8. ASSUME NEW k \in PayoutKeys, PayoutCrash(k) PROVE Goal
    <2>1. /\ payoutAttempt' = [payoutAttempt EXCEPT ![k] = "done"]
          /\ UNCHANGED <<payout, ledgerVars>>
      BY <1>8 DEF PayoutCrash
    <2>2. payout' = [payout EXCEPT ![k] = payout[k]] /\ "done" \notin {"reserved"} \cup PayoutAnswers
      BY <1>type, <2>1 DEF PayoutAnswers
    <2> QED BY <1>1, <2>1, <2>2
  <1>9. ASSUME NEW k \in PayoutKeys, PayoutReplay(k) PROVE Goal
    <2>1. /\ payout[k] = "PENDING" /\ payoutAttempt[k] = "done" /\ UNCHANGED payoutAttempt
          /\ \E answer : UNCHANGED <<payout, ledgerVars>> \/ SettlePayout(k, answer)
      BY <1>9 DEF PayoutReplay
    <2>2. CASE UNCHANGED <<payout, ledgerVars>>
      BY <1>2, <2>1, <2>2
    <2>3. ASSUME NEW answer, SettlePayout(k, answer) PROVE Goal
      <3>1. payoutAttempt' = [payoutAttempt EXCEPT ![k] = "done"] /\ "done" \notin {"reserved"} \cup PayoutAnswers
        BY <1>type, <2>1 DEF PayoutAnswers
      <3> QED BY <1>5, <2>1, <2>3, <3>1
    <2> QED BY <2>1, <2>2, <2>3
  <1>10. ASSUME NEW p \in Providers, DisableAccount(p) \/ \E a \in Accounts : ConfigureAccount(p, a)
         PROVE  Goal
    BY <1>2, <1>10 DEF DisableAccount, ConfigureAccount
  <1> HIDE DEF Goal
  <1>11. Goal
    BY <1>3, <1>6, <1>7, <1>8, <1>9, <1>10 DEF PayoutsNext
  <1> QED BY <1>11 DEF Goal
\* Only the escrow decides what the milestones have earned.
LEMMA PayoutsKeepEarnings ==
  ASSUME EarningInv, wallet' \in Int, UNCHANGED <<commission, escrowVars, disputeVars>>,
         PayoutJournalsOnly
  PROVE  EarningInv' /\ EarnedOf' = EarnedOf
  <1>1. UNCHANGED <<commission, status, dispute, award>>
    BY DEF escrowVars, disputeVars
  <1>2. \A m \in Milestones :
          /\ <<"MILESTONE_RELEASE", m>> \in posted' => <<"MILESTONE_RELEASE", m>> \in posted
          /\ <<"DISPUTE_RESOLUTION", m>> \in posted' => <<"DISPUTE_RESOLUTION", m>> \in posted
    BY DEF Operations, PayoutJournalsOnly
  <1>3. EarningInv'
    BY <1>1, <1>2 DEF EarningInv, ReleaseInv
  <1>4. EarnedOf' = EarnedOf
    BY <1>1 DEF EarnedOf, Earned
  <1> QED BY <1>3, <1>4

\* A step, or a stutter, preserves WalletInv.
LEMMA WalletStep ==
  ASSUME ~PayoutOverlap, WalletInv, [MoneyNext]_moneyVars
  PROVE  WalletInv'
  <1>inv. /\ EarningInv /\ PayoutInv /\ PayoutBooksInv /\ IsFiniteSet(PaidOut)
          /\ wallet + commission - Total(EarnedOf, Milestones) + Total(PayoutAmount, PaidOut) = 0
    BY DEF WalletInv, FinitePayouts
  <1>type. wallet \in Int /\ commission \in Int
    BY <1>inv DEF EarningInv
  <1>0. PayoutInv'
    BY <1>inv, PayoutStep
  <1>1. CASE Next /\ UNCHANGED payoutVars
    <2>1. /\ EarningInv'
          /\ wallet' + commission' - Total(EarnedOf', Milestones)
               = wallet + commission - Total(EarnedOf, Milestones)
      BY <1>1, <1>inv, EarningStep
    <2>2. UNCHANGED <<payout, payoutAttempt, PaidOut>>
      BY <1>1 DEF payoutVars, PaidOut
    <2>3. PayoutBooksInv'
      BY <1>1, <1>inv, <2>2, EscrowPostsNoPayout DEF PayoutBooksInv
    <2>4. wallet' + commission' - Total(EarnedOf', Milestones) + Total(PayoutAmount, PaidOut') = 0
      BY <1>inv, <2>1, <2>2, Zenon
    <2> QED BY <1>0, <1>inv, <2>1, <2>2, <2>3, <2>4 DEF WalletInv, FinitePayouts
  <1>2. CASE PayoutsNext /\ UNCHANGED <<escrowVars, disputeVars>>
    <2>1. /\ wallet' \in Int /\ PayoutBooksInv' /\ UNCHANGED commission
          /\ PayoutJournalsOnly
          /\ NoPayoutBooked \/ PayoutReserved \/ PayoutReversed
      BY <1>2, <1>inv, <1>type, PayoutMoves
    <2>2. EarningInv' /\ EarnedOf' = EarnedOf
      BY <1>2, <1>inv, <2>1, PayoutsKeepEarnings
    <2>3. PaidOut \subseteq PayoutKeys /\ \A k \in PayoutKeys : PayoutAmount[k] \in Int
      BY PayoutAssumption DEF PaidOut
    <2>4. Total(EarnedOf, Milestones) \in Int
      <3>1. \A m \in Milestones : EarnedOf[m] \in Int
        BY <1>inv, EarnedType
      <3> QED BY <3>1, FiniteMilestones, TotalType
    <2>5. PICK e \in Int : e = Total(EarnedOf, Milestones)
      BY <2>4
    <2>6. wallet + commission - e + Total(PayoutAmount, PaidOut) = 0
      BY <1>inv, <2>5, Zenon
    <2>7. SUFFICES IsFiniteSet(PaidOut') /\ wallet' + commission' - e + Total(PayoutAmount, PaidOut') = 0
      <3>1. Total(EarnedOf', Milestones) = e
        BY <2>2, <2>5, Zenon
      <3> QED BY <1>0, <2>1, <2>2, <2>7, <3>1, Zenon DEF WalletInv, FinitePayouts
    <2>8. CASE NoPayoutBooked
      BY <1>inv, <2>1, <2>6, <2>8, Zenon DEF NoPayoutBooked
    <2>9. ASSUME NEW k \in PayoutKeys \ PaidOut, wallet' = wallet - PayoutAmount[k],
                 PaidOut' = PaidOut \cup {k}
          PROVE  IsFiniteSet(PaidOut') /\ wallet' + commission' - e + Total(PayoutAmount, PaidOut') = 0
      <3>1. PICK s : s = PaidOut
        OBVIOUS
      <3>2. /\ IsFiniteSet(s) /\ k \notin s /\ \A j \in s \cup {k} : PayoutAmount[j] \in Int
            /\ PaidOut' = s \cup {k}
        BY <1>inv, <2>3, <2>9, <3>1
      <3>3. /\ IsFiniteSet(s \cup {k}) /\ Total(PayoutAmount, s) \in Int
            /\ Total(PayoutAmount, s \cup {k}) = Total(PayoutAmount, s) + PayoutAmount[k]
        BY <3>2, TotalAdd
      <3>4. PICK t \in Int, u \in Int, a \in Int :
              t = Total(PayoutAmount, s) /\ u = Total(PayoutAmount, s \cup {k}) /\ a = PayoutAmount[k]
        BY <3>2, <3>3
      <3>5. wallet + commission - e + t = 0 /\ u = t + a /\ wallet' = wallet - a /\ commission' = commission
        BY <2>1, <2>6, <2>9, <3>1, <3>3, <3>4, Zenon
      <3>6. wallet' + commission' - e + u = 0
        BY <1>type, <3>5
      <3> QED BY <3>2, <3>3, <3>4, <3>6, Zenon
    <2>10. ASSUME NEW k \in PaidOut, wallet' = wallet + PayoutAmount[k], PaidOut' = PaidOut \ {k}
           PROVE  IsFiniteSet(PaidOut') /\ wallet' + commission' - e + Total(PayoutAmount, PaidOut') = 0
      <3>1. PICK s : s = PaidOut
        OBVIOUS
      <3>2. /\ IsFiniteSet(s) /\ k \in s /\ \A j \in s : PayoutAmount[j] \in Int
            /\ PaidOut' = s \ {k}
        BY <1>inv, <2>3, <2>10, <3>1
      <3>3. /\ Total(PayoutAmount, s) \in Int /\ Total(PayoutAmount, s \ {k}) \in Int
            /\ Total(PayoutAmount, s) = PayoutAmount[k] + Total(PayoutAmount, s \ {k})
        BY <3>2, TotalSplit
      <3>4. PICK t \in Int, u \in Int, a \in Int :
              t = Total(PayoutAmount, s) /\ u = Total(PayoutAmount, s \ {k}) /\ a = PayoutAmount[k]
        BY <3>2, <3>3
      <3>5. wallet + commission - e + t = 0 /\ t = a + u /\ wallet' = wallet + a /\ commission' = commission
        BY <2>1, <2>6, <2>10, <3>1, <3>3, <3>4, Zenon
      <3>6. wallet' + commission' - e + u = 0
        BY <1>type, <3>5
      <3>7. IsFiniteSet(s \ {k})
        BY <3>2, FS_RemoveElement
      <3> QED BY <3>2, <3>4, <3>6, <3>7, Zenon
    <2> QED BY <2>1, <2>8, <2>9, <2>10 DEF PayoutReserved, PayoutReversed
  <1>3. CASE UNCHANGED moneyVars
    <2>1. UNCHANGED <<wallet, commission, posted, status, dispute, award, payout, payoutAttempt>>
      BY <1>3 DEF moneyVars, vars, escrowVars, ledgerVars, disputeVars, payoutVars
    <2>2. EarnedOf' = EarnedOf /\ PaidOut' = PaidOut
      BY <2>1 DEF EarnedOf, Earned, PaidOut
    <2>3. EarningInv' /\ PayoutBooksInv'
      BY <1>inv, <2>1 DEF EarningInv, ReleaseInv, PayoutBooksInv
    <2> QED BY <1>0, <1>inv, <2>1, <2>2, <2>3 DEF WalletInv, FinitePayouts
  <1> QED BY <1>1, <1>2, <1>3 DEF MoneyNext

\* Wallet and commission hold what the milestones earned less the payouts that
\* are pending or done: create_payout debits the wallet once per payout, and
\* _fail_payout gives back exactly the ones that failed, under crashes, lost
\* answers and replays, whatever clients and administrators do to the escrow.
THEOREM WalletAlwaysAccounted ==
  ASSUME ~PayoutOverlap PROVE MoneySpec => []WalletAccounted
  <1>1. MoneyInit => WalletInv
    <2> SUFFICES ASSUME MoneyInit PROVE WalletInv
      OBVIOUS
    <2>1. /\ EarningInv /\ wallet = 0 /\ commission = 0
          /\ Total(EarnedOf, Milestones) = 0
      BY InitEarnings DEF MoneyInit
    <2>2. PaidOut = {}
      BY DEF MoneyInit, PayoutsInit, PaidOut
    <2>3. Total(PayoutAmount, PaidOut) = 0 /\ IsFiniteSet(PaidOut)
      BY <2>2, TotalEmpty, FS_EmptySet
    <2>4. PayoutInv
      BY DEF MoneyInit, PayoutsInit, PayoutInv, PayoutTypeOK
    <2>5. PayoutBooksInv
      BY DEF MoneyInit, PayoutsInit, Init, LedgerInit, PayoutBooksInv, PayoutAnswers
    <2>6. wallet + commission - Total(EarnedOf, Milestones) + Total(PayoutAmount, PaidOut) = 0
      BY <2>1, <2>3
    <2> QED BY <2>1, <2>3, <2>4, <2>5, <2>6 DEF WalletInv, FinitePayouts
  <1>2. WalletInv /\ [MoneyNext]_moneyVars => WalletInv'
    BY WalletStep
  <1>3. ASSUME WalletInv PROVE WalletAccounted
    <2>1. /\ IsFiniteSet(PaidOut) /\ \A k \in PaidOut : PayoutAmount[k] \in Int
          /\ wallet \in Int /\ commission \in Int
      BY <1>3, PayoutAssumption DEF WalletInv, FinitePayouts, EarningInv, PaidOut
    <2>2. \A m \in Milestones : EarnedOf[m] \in Int
      BY <1>3, EarnedType DEF WalletInv
    <2>3. Total(EarnedOf, Milestones) \in Int /\ Total(PayoutAmount, PaidOut) \in Int
      BY <2>1, <2>2, FiniteMilestones, TotalType
    <2>4. \A e, t \in Int : wallet + commission - e + t = 0 => wallet + commission + t = e
      BY <2>1
    <2>5. wallet + commission + Total(PayoutAmount, PaidOut) = Total(EarnedOf, Milestones)
      BY <1>3, <2>3, <2>4, Zenon DEF WalletInv
    <2>6. MapThenSumSet(Earned, Milestones) = Total(EarnedOf, Milestones)
      BY <1>3, EarnedIsTotal DEF WalletInv
    <2>7. SumBy(PayoutAmount, PaidOut) = Total(PayoutAmount, PaidOut)
      BY <2>1, SumByIsTotal
    <2>8. MapThenSumSet(LAMBDA k : PayoutAmount[k], PaidOut) = SumBy(PayoutAmount, PaidOut)
      BY DEF SumBy
    <2> QED BY <2>5, <2>6, <2>7, <2>8, Zenon DEF WalletAccounted
  <1> QED BY <1>1, <1>2, <1>3, PTL DEF MoneySpec
-----------------------------------------------------------------------------
(* The books of the providers, when a client also waits for the answer of a *)
(* refund before it repeats the request (~Overlap).                         *)

\* The refunds that are pending or done, and the captured payments.
StandingRefunds == {k \in Keys : refund[k] \in {"PENDING", "SUCCEEDED"}}
CapturedPayments == {i \in Intents : intent[i] = "CAPTURED"}

\* What a captured payment brought, and what a decision gave the client.
Price == [i \in Intents |-> Amount[IntentOf[i]]]
ClientPart == [m \in Milestones |-> Amount[m] - award[m]]

BooksType ==
  /\ escrow \in [Milestones -> Int]
  /\ clearing \in [Providers -> Int]
  /\ holder \in [Milestones -> {"free", "funding"} \cup Intents]
  /\ intent \in [Intents -> {"NONE", "PENDING", "CAPTURED", "FAILED"}]
  /\ captures \in Seq(Intents)
  /\ refund \in [Keys -> {"NONE", "PENDING", "SUCCEEDED", "FAILED"}]
  /\ refundAmount \in [Keys -> Int]
  /\ attempt \in [Keys -> {"none", "reserved", "done"} \cup Answers]

\* What the journals of payments and refunds say of their rows.
JournalInv ==
  /\ \A i \in Intents : <<"MILESTONE_FUND", i>> \in posted => intent[i] = "CAPTURED"
  /\ \A k \in Keys : <<"MILESTONE_REFUND", k>> \in posted => refund[k] # "NONE"
  /\ \A k \in Keys : <<"REVERSAL", k>> \in posted => refund[k] = "FAILED"

\* A capture under way is of a payment of its milestone that is not captured
\* yet, and an attempt under way is of a pending refund.
CourseInv ==
  /\ \A m \in Milestones, i \in Intents :
       holder[m] = i => IntentOf[i] = m /\ intent[i] \in {"PENDING", "FAILED"}
  /\ \A k \in Keys : attempt[k] \in {"reserved"} \cup Answers => refund[k] = "PENDING"

FiniteBooks == IsFiniteSet(StandingRefunds) /\ IsFiniteSet(CapturedPayments)

BooksInv == EarningInv /\ BooksType /\ JournalInv /\ CourseInv /\ FiniteBooks

\* A step may leave the refunds, the payments and the decisions as they are ...
RefundsStill == UNCHANGED <<refundAmount, StandingRefunds>>
PaymentsStill == UNCHANGED CapturedPayments
DecisionsStill ==
  /\ UNCHANGED award
  /\ \A m \in Milestones : dispute'[m] = "RESOLVED" <=> dispute[m] = "RESOLVED"
  /\ \A m \in Milestones, i \in Intents :
       dispute[m] = "RESOLVED" => (LastFunding(i, m)' <=> LastFunding(i, m))

\* ... or change one of them, and the clearing account with it.
PaymentCaptured ==
  /\ RefundsStill /\ DecisionsStill
  /\ \E i \in Intents \ CapturedPayments :
       /\ CapturedPayments' = CapturedPayments \cup {i}
       /\ clearing' = [clearing EXCEPT ![IntentProvider[i]] = @ + (-Price[i])]

RefundReserved ==
  /\ PaymentsStill /\ DecisionsStill
  /\ \E k \in Keys \ StandingRefunds :
       /\ StandingRefunds' = StandingRefunds \cup {k}
       /\ \A j \in Keys : j # k => refundAmount'[j] = refundAmount[j]
       /\ clearing' = [clearing EXCEPT ![KeyProvider[k]] = @ + refundAmount'[k]]

RefundReversed ==
  /\ PaymentsStill /\ DecisionsStill /\ UNCHANGED refundAmount
  /\ \E k \in StandingRefunds :
       /\ StandingRefunds' = StandingRefunds \ {k}
       /\ clearing' = [clearing EXCEPT ![KeyProvider[k]] = @ + (-refundAmount[k])]

DecisionTaken ==
  /\ RefundsStill /\ PaymentsStill /\ UNCHANGED captures
  /\ \E m \in Milestones, i \in Intents :
       /\ LastFunding(i, m) /\ dispute[m] # "RESOLVED" /\ dispute'[m] = "RESOLVED"
       /\ \A n \in Milestones : n # m => dispute'[n] = dispute[n] /\ award'[n] = award[n]
       /\ clearing' = [clearing EXCEPT ![IntentProvider[i]] = @ + (Amount[m] - award'[m])]

NothingBooked == RefundsStill /\ PaymentsStill /\ DecisionsStill /\ UNCHANGED clearing
\* A step of the escrow books at most one thing at one provider.
LEMMA EscrowMoves ==
  ASSUME ~Overlap, BooksInv, Next
  PROVE  /\ BooksInv'
         /\ NothingBooked \/ PaymentCaptured \/ RefundReserved \/ RefundReversed \/ DecisionTaken
  <1> DEFINE Goal == /\ BooksInv'
                     /\ NothingBooked \/ PaymentCaptured \/ RefundReserved \/ RefundReversed \/ DecisionTaken
  <1>inv. EarningInv /\ BooksType /\ JournalInv /\ CourseInv /\ FiniteBooks
    BY DEF BooksInv
  <1>earn. EarningInv'
    BY <1>inv, EarningStep
  <1>type. /\ escrow \in [Milestones -> Int]
           /\ clearing \in [Providers -> Int]
           /\ holder \in [Milestones -> {"free", "funding"} \cup Intents]
           /\ intent \in [Intents -> {"NONE", "PENDING", "CAPTURED", "FAILED"}]
           /\ captures \in Seq(Intents)
           /\ refund \in [Keys -> {"NONE", "PENDING", "SUCCEEDED", "FAILED"}]
           /\ refundAmount \in [Keys -> Int]
           /\ attempt \in [Keys -> {"none", "reserved", "done"} \cup Answers]
    BY <1>inv DEF BooksType
  <1>map. /\ \A i \in Intents : IntentOf[i] \in Milestones /\ IntentProvider[i] \in Providers
          /\ \A k \in Keys : KeyOf[k] \in Milestones /\ KeyProvider[k] \in Providers
          /\ \A m \in Milestones : Amount[m] \in Int
          /\ \A i \in Intents : i # "free" /\ i # "funding"
    BY ConstantsAssumption
  <1>disp. \A m \in Milestones : dispute[m] # "NONE" => status[m] \in {"DISPUTED", "RELEASED"}
    BY <1>inv DEF EarningInv
  \* Locks and intents move, no payment is captured.
  <1>1. ASSUME UNCHANGED <<ledgerVars, captures, refund, refundAmount, attempt, dispute, award>>,
               holder' \in [Milestones -> {"free", "funding"} \cup Intents],
               intent' \in [Intents -> {"NONE", "PENDING", "CAPTURED", "FAILED"}],
               \A i \in Intents : intent'[i] = "CAPTURED" <=> intent[i] = "CAPTURED",
               \A m \in Milestones, i \in Intents :
                 holder'[m] = i => IntentOf[i] = m /\ intent'[i] \in {"PENDING", "FAILED"}
        PROVE  Goal
    <2>1. UNCHANGED <<escrow, clearing, posted>>
      BY <1>1 DEF ledgerVars
    <2>2. UNCHANGED StandingRefunds /\ UNCHANGED CapturedPayments
      BY <1>1 DEF StandingRefunds, CapturedPayments
    <2>3. BooksType' /\ JournalInv' /\ CourseInv'
      BY <1>1, <1>inv, <1>type, <2>1 DEF BooksType, JournalInv, CourseInv
    <2>4. FiniteBooks'
      BY <1>inv, <2>2, Zenon DEF FiniteBooks
    <2>5. DecisionsStill
      BY <1>1 DEF DecisionsStill, LastFunding
    <2> QED BY <1>1, <1>earn, <2>1, <2>2, <2>3, <2>4, <2>5
            DEF BooksInv, NothingBooked, RefundsStill, PaymentsStill
  \* Statuses of milestones and disputes move.
  <1>2. ASSUME UNCHANGED <<ledgerVars, holder, intent, captures, refund, refundAmount, attempt, award>>,
               \A m \in Milestones : dispute'[m] = "RESOLVED" <=> dispute[m] = "RESOLVED"
        PROVE  Goal
    <2>1. UNCHANGED <<escrow, clearing, posted>>
      BY <1>2 DEF ledgerVars
    <2>2. UNCHANGED StandingRefunds /\ UNCHANGED CapturedPayments
      BY <1>2 DEF StandingRefunds, CapturedPayments
    <2>3. BooksType' /\ JournalInv' /\ CourseInv'
      BY <1>2, <1>inv, <1>type, <2>1 DEF BooksType, JournalInv, CourseInv
    <2>4. FiniteBooks'
      BY <1>inv, <2>2, Zenon DEF FiniteBooks
    <2>5. DecisionsStill
      BY <1>2 DEF DecisionsStill, LastFunding
    <2> QED BY <1>2, <1>earn, <2>1, <2>2, <2>3, <2>4, <2>5
            DEF BooksInv, NothingBooked, RefundsStill, PaymentsStill
  \* A refund moves without a journal.
  <1>3. ASSUME NEW k \in Keys, UNCHANGED <<ledgerVars, holder, intent, captures, refundAmount, dispute, award>>,
               NEW r, r = refund[k] \/ (refund[k] = "PENDING" /\ r = "SUCCEEDED"),
               refund' = [refund EXCEPT ![k] = r],
               NEW a \in {"none", "reserved", "done"} \cup Answers, attempt' = [attempt EXCEPT ![k] = a],
               a \in {"reserved"} \cup Answers => r = "PENDING"
        PROVE  Goal
    <2>1. UNCHANGED <<escrow, clearing, posted>>
      BY <1>3 DEF ledgerVars
    <2>2. /\ refund'[k] = r /\ attempt'[k] = a
          /\ \A j \in Keys : j # k => refund'[j] = refund[j] /\ attempt'[j] = attempt[j]
      BY <1>3, <1>type
    <2>3. UNCHANGED StandingRefunds /\ UNCHANGED CapturedPayments
      BY <1>3, <2>2 DEF StandingRefunds, CapturedPayments
    <2>4. BooksType'
      BY <1>3, <1>type, <2>1 DEF BooksType
    <2>5. JournalInv' /\ CourseInv'
      BY <1>3, <1>inv, <1>type, <2>1, <2>2 DEF JournalInv, CourseInv
    <2>6. FiniteBooks'
      BY <1>inv, <2>3, Zenon DEF FiniteBooks
    <2>7. DecisionsStill
      BY <1>3 DEF DecisionsStill, LastFunding
    <2> QED BY <1>3, <1>earn, <2>1, <2>3, <2>4, <2>5, <2>6, <2>7
            DEF BooksInv, NothingBooked, RefundsStill, PaymentsStill
  <1>4. ASSUME NEW m \in Milestones, NEW i \in Intents, CaptureCommit(m, i), UNCHANGED disputeVars PROVE Goal
    <2>1. /\ holder[m] = i /\ status[m] \in {"CREATED", "FUNDED"}
          /\ intent' = [intent EXCEPT ![i] = "CAPTURED"] /\ captures' = Append(captures, i)
          /\ holder' = [holder EXCEPT ![m] = "free"]
          /\ PostJournal("MILESTONE_FUND", i, m, IntentProvider[i], Amount[m], -Amount[m], 0, 0)
          /\ UNCHANGED <<refund, refundAmount, attempt, dispute, award>>
      BY <1>4 DEF CaptureCommit, refundVars, disputeVars
    <2>2. IntentOf[i] = m /\ intent[i] \in {"PENDING", "FAILED"}
      BY <1>inv, <2>1 DEF CourseInv
    <2>3. <<"MILESTONE_FUND", i>> \notin posted
      BY <1>inv, <2>2 DEF JournalInv
    <2>4. /\ posted' = posted \cup {<<"MILESTONE_FUND", i>>}
          /\ escrow' = [escrow EXCEPT ![m] = @ + Amount[m]]
          /\ clearing' = [clearing EXCEPT ![IntentProvider[i]] = @ + (-Amount[m])]
      BY <2>1, <2>3 DEF PostJournal
    <2>5. /\ intent'[i] = "CAPTURED" /\ \A j \in Intents : j # i => intent'[j] = intent[j]
          /\ holder'[m] = "free" /\ \A n \in Milestones : n # m => holder'[n] = holder[n]
      BY <1>type, <2>1
    <2>6. BooksType'
      BY <1>type, <1>map, <2>1, <2>4 DEF BooksType
    <2>7. JournalInv'
      BY <1>inv, <2>1, <2>4, <2>5 DEF JournalInv
    <2>8. CourseInv'
      BY <1>inv, <1>map, <2>1, <2>2, <2>5 DEF CourseInv
    <2>9. /\ UNCHANGED StandingRefunds /\ i \notin CapturedPayments
          /\ CapturedPayments' = CapturedPayments \cup {i}
      BY <2>1, <2>2, <2>5 DEF StandingRefunds, CapturedPayments
    <2>10. FiniteBooks'
      BY <1>inv, <2>9, FS_AddElement DEF FiniteBooks
    <2>11. dispute[m] # "RESOLVED"
      BY <1>disp, <2>1
    <2>12. \A j \in Intents, n \in Milestones : n # m => (LastFunding(j, n)' <=> LastFunding(j, n))
      BY <1>type, <2>1, <2>2, LastAfterCapture
    <2>13. DecisionsStill
      BY <2>1, <2>11, <2>12 DEF DecisionsStill
    <2>14. Price[i] = Amount[m]
      BY <2>2 DEF Price
    <2>15. PaymentCaptured
      BY <2>1, <2>4, <2>9, <2>13, <2>14 DEF PaymentCaptured, RefundsStill
    <2> QED BY <1>earn, <2>6, <2>7, <2>8, <2>10, <2>15 DEF BooksInv
  <1>5. ASSUME NEW m \in Milestones, ReleaseMilestone(m), UNCHANGED disputeVars PROVE Goal
    <2>1. UNCHANGED <<holder, intent, captures, refund, refundAmount, attempt, dispute, award>>
      BY <1>5 DEF ReleaseMilestone, refundVars, disputeVars
    <2>2. PICK p \in Providers :
            PostJournal("MILESTONE_RELEASE", m, m, p, -Amount[m], 0,
                        Amount[m] - Fee(Amount[m]), Fee(Amount[m]))
      BY <1>5 DEF ReleaseMilestone
    <2>3. /\ posted' \subseteq posted \cup {<<"MILESTONE_RELEASE", m>>}
          /\ escrow' \in [Milestones -> Int] /\ clearing' = clearing
      <3>1. -Amount[m] \in Int
        BY <1>map
      <3>2. [clearing EXCEPT ![p] = @ + 0] = clearing
        BY <1>type
      <3> QED BY <1>type, <2>2, <3>1, <3>2 DEF PostJournal, ledgerVars
    <2>4. UNCHANGED StandingRefunds /\ UNCHANGED CapturedPayments
      BY <2>1 DEF StandingRefunds, CapturedPayments
    <2>5. BooksType' /\ JournalInv' /\ CourseInv'
      BY <1>inv, <1>type, <2>1, <2>3 DEF BooksType, JournalInv, CourseInv
    <2>6. FiniteBooks'
      BY <1>inv, <2>4, Zenon DEF FiniteBooks
    <2>7. DecisionsStill
      BY <2>1 DEF DecisionsStill, LastFunding
    <2> QED BY <1>earn, <2>1, <2>3, <2>4, <2>5, <2>6, <2>7
            DEF BooksInv, NothingBooked, RefundsStill, PaymentsStill
  <1>6. ASSUME NEW m \in Milestones, NEW d \in DecisionKeys, NEW a \in 0..Amount[m],
               ResolveDispute(m, d, a)
        PROVE Goal
    <2>1. /\ status[m] = "DISPUTED" /\ dispute[m] = "UNDER_REVIEW"
          /\ dispute' = [dispute EXCEPT ![m] = "RESOLVED"] /\ award' = [award EXCEPT ![m] = a]
          /\ UNCHANGED <<holder, intent, captures, refund, refundAmount, attempt>>
      BY <1>6 DEF ResolveDispute, Resolvable, refundVars
    <2>2. PICK i \in Intents :
            /\ LastFunding(i, m)
            /\ PostJournal("DISPUTE_RESOLUTION", m, m, IntentProvider[i], -Amount[m], Amount[m] - a,
                           a - Fee(a), Fee(a))
      BY <1>6 DEF ResolveDispute
    <2>3. <<"DISPUTE_RESOLUTION", m>> \notin posted
      BY <1>inv, <2>1 DEF EarningInv, ReleaseInv
    <2>4. /\ posted' = posted \cup {<<"DISPUTE_RESOLUTION", m>>}
          /\ escrow' = [escrow EXCEPT ![m] = @ + (-Amount[m])]
          /\ clearing' = [clearing EXCEPT ![IntentProvider[i]] = @ + (Amount[m] - a)]
      BY <2>2, <2>3 DEF PostJournal
    <2>5. /\ dispute'[m] = "RESOLVED" /\ award'[m] = a
          /\ \A n \in Milestones : n # m => dispute'[n] = dispute[n] /\ award'[n] = award[n]
      BY <1>inv, <2>1 DEF EarningInv
    <2>6. UNCHANGED StandingRefunds /\ UNCHANGED CapturedPayments
      BY <2>1 DEF StandingRefunds, CapturedPayments
    <2>7. a \in Int
      BY <1>map
    <2>8. BooksType'
      BY <1>type, <1>map, <2>1, <2>4, <2>7 DEF BooksType
    <2>9. JournalInv' /\ CourseInv'
      BY <1>inv, <2>1, <2>4 DEF JournalInv, CourseInv
    <2>10. FiniteBooks'
      BY <1>inv, <2>6, Zenon DEF FiniteBooks
    <2>11. DecisionTaken
      BY <2>1, <2>2, <2>4, <2>5, <2>6 DEF DecisionTaken, RefundsStill, PaymentsStill
    <2> QED BY <1>earn, <2>8, <2>9, <2>10, <2>11 DEF BooksInv
  <1>7. ASSUME NEW k \in Keys, RefundReserve(k), UNCHANGED disputeVars PROVE Goal
    <2> DEFINE m == KeyOf[k]
    <2>1. /\ refund[k] = "NONE" /\ refund' = [refund EXCEPT ![k] = "PENDING"]
          /\ refundAmount' = [refundAmount EXCEPT ![k] = escrow[m]]
          /\ attempt' = [attempt EXCEPT ![k] = "reserved"]
          /\ PostJournal("MILESTONE_REFUND", k, m, KeyProvider[k], -escrow[m], escrow[m], 0, 0)
          /\ UNCHANGED <<holder, intent, captures, dispute, award>>
      BY <1>7 DEF RefundReserve, disputeVars
    <2>2. m \in Milestones /\ escrow[m] \in Int
      BY <1>map, <1>type
    <2>3. <<"MILESTONE_REFUND", k>> \notin posted
      BY <1>inv, <2>1 DEF JournalInv
    <2> HIDE DEF m
    <2>4. /\ posted' = posted \cup {<<"MILESTONE_REFUND", k>>}
          /\ escrow' = [escrow EXCEPT ![m] = @ + (-escrow[m])]
          /\ clearing' = [clearing EXCEPT ![KeyProvider[k]] = @ + escrow[m]]
      BY <2>1, <2>3 DEF PostJournal
    <2>5. /\ refund'[k] = "PENDING" /\ refundAmount'[k] = escrow[m]
          /\ \A j \in Keys : j # k => /\ refund'[j] = refund[j] /\ refundAmount'[j] = refundAmount[j]
                                      /\ attempt'[j] = attempt[j]
      BY <1>type, <2>1
    <2>6. BooksType'
      BY <1>type, <1>map, <2>1, <2>2, <2>4 DEF BooksType
    <2>7. JournalInv' /\ CourseInv'
      BY <1>inv, <2>1, <2>4, <2>5 DEF JournalInv, CourseInv
    <2>8. k \notin StandingRefunds /\ StandingRefunds' = StandingRefunds \cup {k} /\ UNCHANGED CapturedPayments
      BY <2>1, <2>5 DEF StandingRefunds, CapturedPayments
    <2>9. FiniteBooks'
      BY <1>inv, <2>8, FS_AddElement DEF FiniteBooks
    <2>10. DecisionsStill
      BY <2>1 DEF DecisionsStill, LastFunding
    <2>11. RefundReserved
      BY <2>4, <2>5, <2>8, <2>10 DEF RefundReserved, PaymentsStill
    <2> QED BY <1>earn, <2>6, <2>7, <2>9, <2>11 DEF BooksInv
  <1>8. ASSUME NEW k \in Keys, refund[k] = "PENDING", FailRefund(k),
               UNCHANGED <<holder, intent, captures, refundAmount, dispute, award>>,
               NEW a \in {"none", "done"}, attempt' = [attempt EXCEPT ![k] = a]
        PROVE  Goal
    <2>1. /\ refund' = [refund EXCEPT ![k] = "FAILED"]
          /\ PostJournal("REVERSAL", k, KeyOf[k], KeyProvider[k], refundAmount[k], -refundAmount[k], 0, 0)
      BY <1>8 DEF FailRefund
    <2>2. <<"REVERSAL", k>> \notin posted
      BY <1>8, <1>inv DEF JournalInv
    <2>3. /\ posted' = posted \cup {<<"REVERSAL", k>>}
          /\ escrow' = [escrow EXCEPT ![KeyOf[k]] = @ + refundAmount[k]]
          /\ clearing' = [clearing EXCEPT ![KeyProvider[k]] = @ + (-refundAmount[k])]
      BY <2>1, <2>2 DEF PostJournal
    <2>4. /\ refund'[k] = "FAILED" /\ attempt'[k] = a
          /\ \A j \in Keys : j # k => refund'[j] = refund[j] /\ attempt'[j] = attempt[j]
      BY <1>8, <1>type, <2>1
    <2>5. BooksType'
      BY <1>8, <1>type, <1>map, <2>1, <2>3 DEF BooksType
    <2>6. JournalInv' /\ CourseInv'
      BY <1>8, <1>inv, <2>3, <2>4 DEF JournalInv, CourseInv, Answers
    <2>7. k \in StandingRefunds /\ StandingRefunds' = StandingRefunds \ {k} /\ UNCHANGED CapturedPayments
      BY <1>8, <2>4 DEF StandingRefunds, CapturedPayments
    <2>8. FiniteBooks'
      BY <1>inv, <2>7, FS_RemoveElement DEF FiniteBooks
    <2>9. DecisionsStill
      BY <1>8 DEF DecisionsStill, LastFunding
    <2>10. RefundReversed
      BY <1>8, <2>3, <2>7, <2>9 DEF RefundReversed, PaymentsStill
    <2> QED BY <1>earn, <2>5, <2>6, <2>8, <2>10 DEF BooksInv
  <1>9. ASSUME NEW k \in Keys, refund[k] = "PENDING", NEW answer, SettleRefund(k, answer),
               UNCHANGED <<holder, intent, captures, refundAmount, dispute, award>>,
               attempt' = [attempt EXCEPT ![k] = "done"]
        PROVE  Goal
    <2>1. refund = [refund EXCEPT ![k] = refund[k]] /\ "done" \notin {"reserved"} \cup Answers
      BY <1>type DEF Answers
    <2>2. CASE FailRefund(k)
      BY <1>8, <1>9, <2>2
    <2>3. CASE UNCHANGED <<refund, ledgerVars>>
      BY <1>3, <1>9, <2>1, <2>3
    <2>4. CASE refund' = [refund EXCEPT ![k] = "SUCCEEDED"] /\ UNCHANGED ledgerVars
      BY <1>3, <1>9, <2>1, <2>4
    <2> QED BY <1>9, <2>2, <2>3, <2>4 DEF SettleRefund
  <1>10. ASSUME NEW k \in Keys, RefundSettle(k), UNCHANGED disputeVars PROVE Goal
    <2>1. /\ attempt[k] \in Answers /\ SettleRefund(k, attempt[k])
          /\ attempt' = [attempt EXCEPT ![k] = "done"]
          /\ UNCHANGED <<holder, intent, captures, refundAmount, dispute, award>>
      BY <1>10 DEF RefundSettle, disputeVars
    <2>2. refund[k] = "PENDING"
      BY <1>inv, <2>1 DEF CourseInv
    <2> QED BY <1>9, <2>1, <2>2
  <1>11. ASSUME NEW k \in Keys, RefundReplay(k), UNCHANGED disputeVars PROVE Goal
    <2>1. /\ refund[k] = "PENDING" /\ attempt[k] = "done" /\ UNCHANGED attempt
          /\ UNCHANGED <<holder, intent, captures, refundAmount, dispute, award>>
          /\ \E answer : UNCHANGED <<refund, ledgerVars>> \/ SettleRefund(k, answer)
      BY <1>11 DEF RefundReplay, disputeVars
    <2>2. /\ attempt' = [attempt EXCEPT ![k] = "done"] /\ refund = [refund EXCEPT ![k] = refund[k]]
          /\ "done" \notin {"reserved"} \cup Answers
      BY <1>type, <2>1 DEF Answers
    <2>3. CASE UNCHANGED <<refund, ledgerVars>>
      BY <1>3, <2>1, <2>2, <2>3
    <2>4. ASSUME NEW answer, SettleRefund(k, answer) PROVE Goal
      BY <1>9, <2>1, <2>2, <2>4
    <2> QED BY <2>1, <2>3, <2>4
  <1>12. ASSUME NEW k \in Keys, RefundCall(k) \/ RefundCrash(k), UNCHANGED disputeVars PROVE Goal
    <2>1. /\ attempt[k] \in {"reserved"} \cup Answers
          /\ UNCHANGED <<ledgerVars, holder, intent, captures, refund, refundAmount, dispute, award>>
          /\ \E a \in {"none", "reserved", "done"} \cup Answers : attempt' = [attempt EXCEPT ![k] = a]
      BY <1>12 DEF RefundCall, RefundCrash, disputeVars
    <2>2. refund[k] = "PENDING" /\ refund = [refund EXCEPT ![k] = refund[k]]
      BY <1>inv, <1>type, <2>1 DEF CourseInv
    <2> QED BY <1>3, <2>1, <2>2
  <1>13. ASSUME NEW m \in Milestones, UNCHANGED disputeVars,
                StartMilestone(m) \/ SubmitMilestone(m) \/ RequestChanges(m) \/ ApproveMilestone(m)
         PROVE Goal
    BY <1>2, <1>13 DEF StartMilestone, SubmitMilestone, RequestChanges, ApproveMilestone, Transition,
       refundVars, disputeVars
  <1>14. ASSUME NEW m \in Milestones, OpenDispute(m) PROVE Goal
    <2>1. /\ dispute[m] = "NONE" /\ dispute' = [dispute EXCEPT ![m] = "OPEN"]
          /\ UNCHANGED <<ledgerVars, holder, intent, captures, refund, refundAmount, attempt, award>>
      BY <1>14 DEF OpenDispute, refundVars
    <2>2. \A n \in Milestones : dispute'[n] = "RESOLVED" <=> dispute[n] = "RESOLVED"
      BY <1>inv, <2>1 DEF EarningInv
    <2> QED BY <1>2, <2>1, <2>2
  <1>15. ASSUME NEW m \in Milestones, NEW to \in DisputeStatus, AdminTransition(m, to) PROVE Goal
    <2>1. /\ dispute[m] # "RESOLVED" /\ to # "RESOLVED" /\ dispute' = [dispute EXCEPT ![m] = to]
          /\ UNCHANGED <<ledgerVars, holder, intent, captures, refund, refundAmount, attempt, award>>
      BY <1>15 DEF AdminTransition, AdminTransitions, escrowVars
    <2>2. \A n \in Milestones : dispute'[n] = "RESOLVED" <=> dispute[n] = "RESOLVED"
      BY <1>inv, <2>1 DEF EarningInv
    <2> QED BY <1>2, <2>1, <2>2
  <1>16. ASSUME \/ (CancelContract \/ \E i \in Intents : ProviderPays(i)) /\ UNCHANGED disputeVars
                \/ \E m \in Milestones : \E d \in DecisionKeys, a \in ResolutionAmounts(m) : ResolveCrash(m, d, a)
         PROVE Goal
    BY <1>2, <1>16 DEF CancelContract, ProviderPays, ResolveCrash, refundVars, escrowVars, disputeVars
  \* The milestone's row lock is taken for funding, or given back.
  <1>17. ASSUME NEW m \in Milestones, UNCHANGED disputeVars,
                FundBegin(m) \/ Rollback(m) \/ \E i \in Intents : FundCrash(m, i)
         PROVE Goal
    <2>1. /\ UNCHANGED <<ledgerVars, intent, captures, refund, refundAmount, attempt, dispute, award>>
          /\ \E h \in {"free", "funding"} : holder' = [holder EXCEPT ![m] = h]
      BY <1>17 DEF FundBegin, Rollback, FundCrash, refundVars, disputeVars
    <2>2. /\ holder' \in [Milestones -> {"free", "funding"} \cup Intents]
          /\ \A n \in Milestones, i \in Intents : holder'[n] = i => holder[n] = i
      BY <1>type, <1>map, <2>1
    <2> QED BY <1>1, <1>inv, <1>type, <2>1, <2>2 DEF CourseInv
  <1>18. ASSUME NEW m \in Milestones, NEW i \in Intents, UNCHANGED disputeVars, FundCommit(m, i)
         PROVE Goal
    <2>1. /\ UNCHANGED <<ledgerVars, captures, refund, refundAmount, attempt, dispute, award>>
          /\ intent[i] = "NONE" /\ intent' = [intent EXCEPT ![i] = "PENDING"]
          /\ holder' = [holder EXCEPT ![m] = "free"]
      BY <1>18 DEF FundCommit, refundVars, disputeVars
    <2>2. /\ holder' \in [Milestones -> {"free", "funding"} \cup Intents]
          /\ intent' \in [Intents -> {"NONE", "PENDING", "CAPTURED", "FAILED"}]
          /\ \A n \in Milestones, j \in Intents : holder'[n] = j => holder[n] = j
          /\ intent'[i] = "PENDING" /\ \A j \in Intents : j # i => intent'[j] = intent[j]
      BY <1>type, <1>map, <2>1
    <2> QED BY <1>1, <1>inv, <2>1, <2>2 DEF CourseInv
  <1>19. ASSUME NEW i \in Intents, UNCHANGED disputeVars, CaptureBegin(i) PROVE Goal
    <2>1. /\ UNCHANGED <<ledgerVars, intent, captures, refund, refundAmount, attempt, dispute, award>>
          /\ intent[i] \in {"PENDING", "FAILED"} /\ holder' = [holder EXCEPT ![IntentOf[i]] = i]
      BY <1>19 DEF CaptureBegin, refundVars, disputeVars
    <2>2. /\ holder' \in [Milestones -> {"free", "funding"} \cup Intents]
          /\ \A n \in Milestones : n # IntentOf[i] => holder'[n] = holder[n]
          /\ holder'[IntentOf[i]] = i
      BY <1>type, <1>map, <2>1
    <2> QED BY <1>1, <1>inv, <1>type, <2>1, <2>2 DEF CourseInv
  <1>20. ASSUME NEW i \in Intents, UNCHANGED disputeVars, PaymentFailed(i) PROVE Goal
    <2>1. /\ UNCHANGED <<ledgerVars, holder, captures, refund, refundAmount, attempt, dispute, award>>
          /\ intent[i] = "PENDING" /\ intent' = [intent EXCEPT ![i] = "FAILED"]
      BY <1>20 DEF PaymentFailed, refundVars, disputeVars
    <2>2. /\ intent' \in [Intents -> {"NONE", "PENDING", "CAPTURED", "FAILED"}]
          /\ intent'[i] = "FAILED" /\ \A j \in Intents : j # i => intent'[j] = intent[j]
      BY <1>type, <2>1
    <2> QED BY <1>1, <1>inv, <1>type, <2>1, <2>2 DEF CourseInv
  <1> HIDE DEF Goal
  <1>21. Goal
    BY <1>4, <1>5, <1>6, <1>7, <1>10, <1>11, <1>12, <1>13, <1>14, <1>15, <1>16, <1>17, <1>18, <1>19, <1>20,
       ResolutionAmountsRange
    DEF Next, EscrowNext, DisputesNext
  <1> QED BY <1>21 DEF Goal
\* What went through provider p, and the sums of it.
RefundedAt(p) == {k \in StandingRefunds : KeyProvider[k] = p}
CapturedAt(p) == {i \in CapturedPayments : IntentProvider[i] = p}
PaidAt(p) == {k \in PaidOut : PayoutProvider[k] = p}
DecidedAt(p) ==
  {m \in Milestones : dispute[m] = "RESOLVED" /\ \E i \in Intents : LastFunding(i, m) /\ IntentProvider[i] = p}

RefundsOf(p) == Total(refundAmount, RefundedAt(p))
PartsOf(p) == Total(ClientPart, DecidedAt(p))
PayoutsOf(p) == Total(PayoutAmount, PaidAt(p))
PaymentsOf(p) == Total(Price, CapturedAt(p))

Balanced(p) == clearing[p] = RefundsOf(p) + PartsOf(p) + PayoutsOf(p) - PaymentsOf(p)

\* The inductive invariant of the clearing accounts.
ClearingInv ==
  /\ BooksInv
  /\ PayoutInv
  /\ PayoutBooksInv
  /\ FinitePayouts
  /\ \A p \in Providers : Balanced(p)

\* What is summed is finite and integer, and so are the sums.
LEMMA SumsDefined ==
  ASSUME BooksInv, FinitePayouts, NEW p \in Providers
  PROVE  /\ IsFiniteSet(RefundedAt(p)) /\ IsFiniteSet(CapturedAt(p))
         /\ IsFiniteSet(PaidAt(p)) /\ IsFiniteSet(DecidedAt(p))
         /\ \A k \in RefundedAt(p) : refundAmount[k] \in Int
         /\ \A i \in CapturedAt(p) : Price[i] \in Int
         /\ \A k \in PaidAt(p) : PayoutAmount[k] \in Int
         /\ \A m \in DecidedAt(p) : ClientPart[m] \in Int
         /\ RefundsOf(p) \in Int /\ PartsOf(p) \in Int /\ PayoutsOf(p) \in Int /\ PaymentsOf(p) \in Int
  <1>1. /\ RefundedAt(p) \subseteq StandingRefunds /\ CapturedAt(p) \subseteq CapturedPayments
        /\ PaidAt(p) \subseteq PaidOut /\ DecidedAt(p) \subseteq Milestones
    BY DEF RefundedAt, CapturedAt, PaidAt, DecidedAt
  <1>2. IsFiniteSet(StandingRefunds) /\ IsFiniteSet(CapturedPayments) /\ IsFiniteSet(PaidOut)
    BY DEF BooksInv, FiniteBooks, FinitePayouts
  <1>3. /\ IsFiniteSet(RefundedAt(p)) /\ IsFiniteSet(CapturedAt(p))
        /\ IsFiniteSet(PaidAt(p)) /\ IsFiniteSet(DecidedAt(p))
    BY <1>1, <1>2, FS_Subset, FiniteMilestones
  <1>4. \A k \in RefundedAt(p) : refundAmount[k] \in Int
    BY <1>1 DEF BooksInv, BooksType, StandingRefunds
  <1>5. \A i \in CapturedAt(p) : Price[i] \in Int
    BY <1>1, ConstantsAssumption DEF Price, CapturedPayments
  <1>6. \A k \in PaidAt(p) : PayoutAmount[k] \in Int
    BY <1>1, PayoutAssumption DEF PaidOut
  <1>7. \A m \in DecidedAt(p) : ClientPart[m] \in Int
    <2>1. EarningInv
      BY DEF BooksInv
    <2>2. ASSUME NEW m \in Milestones PROVE ClientPart[m] \in Int
      <3>1. award[m] \in Int
        BY <2>1 DEF EarningInv
      <3>2. Amount[m] \in Int
        BY ConstantsAssumption
      <3>3. ClientPart[m] = Amount[m] - award[m]
        BY DEF ClientPart
      <3> QED BY <3>1, <3>2, <3>3
    <2> QED BY <1>1, <2>2
  <1>8. RefundsOf(p) \in Int
    BY <1>3, <1>4, TotalType DEF RefundsOf
  <1>9. PartsOf(p) \in Int
    BY <1>3, <1>7, TotalType DEF PartsOf
  <1>10. PayoutsOf(p) \in Int
    BY <1>3, <1>6, TotalType DEF PayoutsOf
  <1>11. PaymentsOf(p) \in Int
    BY <1>3, <1>5, TotalType DEF PaymentsOf
  <1> QED BY <1>3, <1>4, <1>5, <1>6, <1>7, <1>8, <1>9, <1>10, <1>11

\* Sums that move by what the account moves by keep it balanced.
LEMMA BalanceMoves ==
  ASSUME NEW p, Balanced(p), NEW r \in Int, NEW d \in Int, NEW q \in Int, NEW c \in Int,
         RefundsOf(p) \in Int, PartsOf(p) \in Int, PayoutsOf(p) \in Int, PaymentsOf(p) \in Int,
         RefundsOf(p)' = RefundsOf(p) + r, PartsOf(p)' = PartsOf(p) + d,
         PayoutsOf(p)' = PayoutsOf(p) + q, PaymentsOf(p)' = PaymentsOf(p) + c,
         clearing'[p] = clearing[p] + (r + d + q - c)
  PROVE  Balanced(p)'
  <1>1. PICK x1 \in Int, x2 \in Int, x3 \in Int, x4 \in Int :
          x1 = RefundsOf(p) /\ x2 = PartsOf(p) /\ x3 = PayoutsOf(p) /\ x4 = PaymentsOf(p)
    OBVIOUS
  <1>2. clearing'[p] = x1 + x2 + x3 - x4 + (r + d + q - c)
    BY <1>1, Zenon DEF Balanced
  <1>3. x1 + x2 + x3 - x4 + (r + d + q - c) = (x1 + r) + (x2 + d) + (x3 + q) - (x4 + c)
    OBVIOUS
  <1>4. clearing'[p] = RefundsOf(p)' + PartsOf(p)' + PayoutsOf(p)' - PaymentsOf(p)'
    BY <1>1, <1>2, <1>3, Zenon
  <1> QED BY <1>4 DEF Balanced

\* What does not move, does not move at any provider.
LEMMA StillSums ==
  ASSUME NEW p
  PROVE  /\ RefundsStill => RefundsOf(p)' = RefundsOf(p)
         /\ PaymentsStill => PaymentsOf(p)' = PaymentsOf(p)
         /\ DecisionsStill => PartsOf(p)' = PartsOf(p)
         /\ UNCHANGED PaidOut => PayoutsOf(p)' = PayoutsOf(p)
  <1>1. ASSUME RefundsStill PROVE RefundsOf(p)' = RefundsOf(p)
    BY <1>1 DEF RefundsStill, RefundsOf, RefundedAt
  <1>2. ASSUME PaymentsStill PROVE PaymentsOf(p)' = PaymentsOf(p)
    BY <1>2 DEF PaymentsStill, PaymentsOf, CapturedAt, Price
  <1>3. ASSUME DecisionsStill PROVE PartsOf(p)' = PartsOf(p)
    <2>1. DecidedAt(p)' = DecidedAt(p)
      BY <1>3 DEF DecisionsStill, DecidedAt
    <2>2. ClientPart' = ClientPart
      BY <1>3 DEF DecisionsStill, ClientPart
    <2> QED BY <2>1, <2>2, Zenon DEF PartsOf
  <1>4. ASSUME UNCHANGED PaidOut PROVE PayoutsOf(p)' = PayoutsOf(p)
    BY <1>4 DEF PayoutsOf, PaidAt
  <1> QED BY <1>1, <1>2, <1>3, <1>4
\* A captured payment.
LEMMA CapturedMoves ==
  ASSUME BooksInv, FinitePayouts, PaymentCaptured, NEW p \in Providers
  PROVE  \E c \in Int : PaymentsOf(p)' = PaymentsOf(p) + c /\ clearing'[p] = clearing[p] + (-c)
  <1>type. clearing \in [Providers -> Int]
    BY DEF BooksInv, BooksType
  <1>1. PICK i \in Intents :
          /\ i \notin CapturedPayments /\ CapturedPayments' = CapturedPayments \cup {i}
          /\ clearing' = [clearing EXCEPT ![IntentProvider[i]] = @ + (-Price[i])]
    BY DEF PaymentCaptured
  <1>2. Price' = Price /\ Price[i] \in Int
    BY ConstantsAssumption DEF Price
  <1>3. CASE IntentProvider[i] = p
    <2>1. PICK s : s = CapturedAt(p)
      OBVIOUS
    <2>2. CapturedAt(p)' = s \cup {i} /\ i \notin s
      BY <1>1, <1>3, <2>1 DEF CapturedAt
    <2>3. IsFiniteSet(s) /\ \A y \in s : Price[y] \in Int
      BY <2>1, SumsDefined
    <2>4. PICK f : f = Price
      OBVIOUS
    <2>5. Total(f, s) \in Int /\ Total(f, s \cup {i}) = Total(f, s) + f[i]
      <3>1. NewEntry(i, s, f, f)
        BY <1>2, <2>2, <2>3, <2>4 DEF NewEntry
      <3> QED BY <3>1, TotalGrows
    <2>6. PaymentsOf(p)' = PaymentsOf(p) + Price[i]
      BY <1>2, <2>1, <2>2, <2>4, <2>5, Zenon DEF PaymentsOf
    <2>7. clearing'[p] = clearing[p] + (-Price[i])
      BY <1>type, <1>1, <1>3
    <2> QED BY <1>2, <2>6, <2>7
  <1>4. CASE IntentProvider[i] # p
    <2>1. CapturedAt(p)' = CapturedAt(p)
      BY <1>1, <1>4 DEF CapturedAt
    <2>2. PaymentsOf(p)' = PaymentsOf(p)
      BY <1>2, <2>1, Zenon DEF PaymentsOf
    <2>3. PaymentsOf(p) \in Int /\ clearing[p] \in Int
      BY <1>type, SumsDefined
    <2>4. clearing'[p] = clearing[p]
      BY <1>type, <1>1, <1>4
    <2>5. PaymentsOf(p)' = PaymentsOf(p) + 0 /\ clearing'[p] = clearing[p] + (-0)
      BY <2>2, <2>3, <2>4
    <2> QED BY <2>5
  <1> QED BY <1>3, <1>4

\* A reserved refund.
LEMMA ReservedMoves ==
  ASSUME BooksInv, BooksInv', FinitePayouts, RefundReserved, NEW p \in Providers
  PROVE  \E r \in Int : RefundsOf(p)' = RefundsOf(p) + r /\ clearing'[p] = clearing[p] + r
  <1>type. clearing \in [Providers -> Int] /\ refundAmount' \in [Keys -> Int]
    BY DEF BooksInv, BooksType
  <1>1. PICK k \in Keys :
          /\ k \notin StandingRefunds /\ StandingRefunds' = StandingRefunds \cup {k}
          /\ \A j \in Keys : j # k => refundAmount'[j] = refundAmount[j]
          /\ clearing' = [clearing EXCEPT ![KeyProvider[k]] = @ + refundAmount'[k]]
    BY DEF RefundReserved
  <1>2. PICK s, f, h : s = RefundedAt(p) /\ f = refundAmount /\ h = refundAmount'
    OBVIOUS
  <1>3. IsFiniteSet(s) /\ k \notin s /\ h[k] \in Int /\ \A y \in s : f[y] \in Int /\ f[y] = h[y]
    <2>1. IsFiniteSet(s) /\ \A y \in s : f[y] \in Int
      BY <1>2, SumsDefined
    <2>2. k \notin s /\ \A y \in s : y \in Keys /\ y # k
      BY <1>1, <1>2 DEF RefundedAt, StandingRefunds
    <2> QED BY <1>type, <1>1, <1>2, <2>1, <2>2
  <1>4. CASE KeyProvider[k] = p
    <2>1. RefundedAt(p)' = s \cup {k}
      BY <1>1, <1>2, <1>4 DEF RefundedAt
    <2>2. Total(f, s) \in Int /\ Total(h, s \cup {k}) = Total(f, s) + h[k]
      <3>1. NewEntry(k, s, f, h)
        BY <1>3 DEF NewEntry
      <3> QED BY <3>1, TotalGrows
    <2>3. RefundsOf(p)' = RefundsOf(p) + h[k]
      BY <1>2, <2>1, <2>2, Zenon DEF RefundsOf
    <2>4. clearing'[p] = clearing[p] + h[k]
      BY <1>type, <1>1, <1>2, <1>4
    <2> QED BY <1>3, <2>3, <2>4
  <1>5. CASE KeyProvider[k] # p
    <2>1. RefundedAt(p)' = s
      BY <1>1, <1>2, <1>5 DEF RefundedAt
    <2>2. Total(h, s) = Total(f, s)
      BY <1>3, TotalSame
    <2>3. RefundsOf(p)' = RefundsOf(p)
      BY <1>2, <2>1, <2>2, Zenon DEF RefundsOf
    <2>4. RefundsOf(p) \in Int /\ clearing[p] \in Int
      BY <1>type, SumsDefined
    <2>5. clearing'[p] = clearing[p]
      BY <1>type, <1>1, <1>5
    <2>6. RefundsOf(p)' = RefundsOf(p) + 0 /\ clearing'[p] = clearing[p] + 0
      BY <2>3, <2>4, <2>5
    <2> QED BY <2>6
  <1> QED BY <1>4, <1>5

\* A failed refund.
LEMMA ReversedMoves ==
  ASSUME BooksInv, FinitePayouts, RefundReversed, NEW p \in Providers
  PROVE  \E r \in Int : RefundsOf(p)' = RefundsOf(p) + r /\ clearing'[p] = clearing[p] + r
  <1>type. clearing \in [Providers -> Int]
    BY DEF BooksInv, BooksType
  <1>1. PICK k \in StandingRefunds :
          /\ StandingRefunds' = StandingRefunds \ {k} /\ UNCHANGED refundAmount
          /\ clearing' = [clearing EXCEPT ![KeyProvider[k]] = @ + (-refundAmount[k])]
    BY DEF RefundReversed
  <1>2. PICK s, f : s = RefundedAt(p) /\ f = refundAmount
    OBVIOUS
  <1>3. IsFiniteSet(s) /\ \A y \in s : f[y] \in Int
    BY <1>2, SumsDefined
  <1>4. CASE KeyProvider[k] = p
    <2>1. k \in s /\ RefundedAt(p)' = s \ {k}
      BY <1>1, <1>2, <1>4 DEF RefundedAt
    <2>2. Total(f, s \ {k}) = Total(f, s) + (-f[k]) /\ f[k] \in Int
      BY <1>3, <2>1, TotalShrinks
    <2>3. RefundsOf(p)' = RefundsOf(p) + (-f[k])
      BY <1>1, <1>2, <2>1, <2>2, Zenon DEF RefundsOf
    <2>4. clearing'[p] = clearing[p] + (-f[k])
      BY <1>type, <1>1, <1>2, <1>4
    <2>5. -f[k] \in Int
      BY <2>2
    <2> QED BY <2>3, <2>4, <2>5
  <1>5. CASE KeyProvider[k] # p
    <2>1. RefundedAt(p)' = RefundedAt(p)
      BY <1>1, <1>5 DEF RefundedAt
    <2>2. RefundsOf(p)' = RefundsOf(p)
      BY <1>1, <2>1, Zenon DEF RefundsOf
    <2>3. RefundsOf(p) \in Int /\ clearing[p] \in Int
      BY <1>type, SumsDefined
    <2>4. clearing'[p] = clearing[p]
      BY <1>type, <1>1, <1>5
    <2>5. RefundsOf(p)' = RefundsOf(p) + 0 /\ clearing'[p] = clearing[p] + 0
      BY <2>2, <2>3, <2>4
    <2> QED BY <2>5
  <1> QED BY <1>4, <1>5

\* A decision.
LEMMA DecisionMoves ==
  ASSUME BooksInv, BooksInv', FinitePayouts, DecisionTaken, NEW p \in Providers
  PROVE  \E d \in Int : PartsOf(p)' = PartsOf(p) + d /\ clearing'[p] = clearing[p] + d
  <1>type. /\ clearing \in [Providers -> Int] /\ captures \in Seq(Intents)
           /\ award \in [Milestones -> Int] /\ award' \in [Milestones -> Int]
           /\ \A n \in Milestones : Amount[n] \in Int
    <2>1. EarningInv /\ BooksType /\ EarningInv'
      BY DEF BooksInv
    <2>2. \A n \in Milestones : Amount[n] \in Int
      BY ConstantsAssumption
    <2> QED BY <2>1, <2>2 DEF BooksType, EarningInv
  <1>1. PICK m \in Milestones, i \in Intents :
          /\ LastFunding(i, m) /\ dispute[m] # "RESOLVED" /\ dispute'[m] = "RESOLVED"
          /\ \A n \in Milestones : n # m => dispute'[n] = dispute[n] /\ award'[n] = award[n]
          /\ clearing' = [clearing EXCEPT ![IntentProvider[i]] = @ + (Amount[m] - award'[m])]
    BY DEF DecisionTaken
  <1>2. \A j \in Intents : LastFunding(j, m) => j = i
    BY <1>type, <1>1, LastIsUnique
  <1>3. \A j \in Intents, n \in Milestones : LastFunding(j, n)' <=> LastFunding(j, n)
    BY DEF DecisionTaken, LastFunding
  <1>4. PICK s, f, h : s = DecidedAt(p) /\ f = ClientPart /\ h = ClientPart'
    OBVIOUS
  <1>5. IsFiniteSet(s) /\ m \notin s /\ h[m] = Amount[m] - award'[m] /\ h[m] \in Int
    <2>1. IsFiniteSet(s)
      BY <1>4, SumsDefined
    <2>2. m \notin s
      BY <1>1, <1>4 DEF DecidedAt
    <2>3. h[m] = Amount[m] - award'[m]
      BY <1>4 DEF ClientPart
    <2> QED BY <1>type, <2>1, <2>2, <2>3
  <1>6. \A y \in s : f[y] \in Int /\ f[y] = h[y]
    <2>1. \A y \in s : f[y] \in Int
      BY <1>4, SumsDefined
    <2>2. \A y \in s : y \in Milestones /\ y # m
      BY <1>4, <1>5 DEF DecidedAt
    <2>3. \A y \in Milestones : y # m => f[y] = h[y]
      BY <1>1, <1>4 DEF ClientPart
    <2> QED BY <2>1, <2>2, <2>3
  <1>7. CASE IntentProvider[i] = p
    <2>1. DecidedAt(p)' = s \cup {m}
      BY <1>1, <1>2, <1>3, <1>4, <1>7 DEF DecidedAt
    <2>2. Total(f, s) \in Int /\ Total(h, s \cup {m}) = Total(f, s) + h[m]
      <3>1. NewEntry(m, s, f, h)
        BY <1>5, <1>6 DEF NewEntry
      <3> QED BY <3>1, TotalGrows
    <2>3. PartsOf(p)' = PartsOf(p) + h[m]
      BY <1>4, <2>1, <2>2, Zenon DEF PartsOf
    <2>4. clearing'[p] = clearing[p] + h[m]
      BY <1>type, <1>1, <1>5, <1>7
    <2> QED BY <1>5, <2>3, <2>4
  <1>8. CASE IntentProvider[i] # p
    <2>1. DecidedAt(p)' = s
      BY <1>1, <1>2, <1>3, <1>4, <1>8 DEF DecidedAt
    <2>2. Total(h, s) = Total(f, s)
      BY <1>5, <1>6, TotalSame
    <2>3. PartsOf(p)' = PartsOf(p)
      BY <1>4, <2>1, <2>2, Zenon DEF PartsOf
    <2>4. PartsOf(p) \in Int /\ clearing[p] \in Int
      BY <1>type, SumsDefined
    <2>5. clearing'[p] = clearing[p]
      BY <1>type, <1>1, <1>8
    <2>6. PartsOf(p)' = PartsOf(p) + 0 /\ clearing'[p] = clearing[p] + 0
      BY <2>3, <2>4, <2>5
    <2> QED BY <2>6
  <1> QED BY <1>7, <1>8

\* A payout that is reserved, or one that failed.
LEMMA PayoutBalances ==
  ASSUME BooksInv, FinitePayouts, NEW p \in Providers, PayoutReserved \/ PayoutReversed
  PROVE  \E q \in Int : PayoutsOf(p)' = PayoutsOf(p) + q /\ clearing'[p] = clearing[p] + q
  <1>type. clearing \in [Providers -> Int]
    BY DEF BooksInv, BooksType
  <1>amount. \A k \in PayoutKeys : PayoutAmount[k] \in Int
    BY PayoutAssumption
  <1>1. PICK s, f : s = PaidAt(p) /\ f = PayoutAmount
    OBVIOUS
  <1>2. IsFiniteSet(s) /\ \A y \in s : f[y] \in Int
    BY <1>1, SumsDefined
  <1>3. PayoutsOf(p) \in Int /\ clearing[p] \in Int
    BY <1>type, SumsDefined
  <1>4. ASSUME NEW k \in PayoutKeys \ PaidOut, PaidOut' = PaidOut \cup {k},
               clearing' = [clearing EXCEPT ![PayoutProvider[k]] = @ + PayoutAmount[k]]
        PROVE  \E q \in Int : PayoutsOf(p)' = PayoutsOf(p) + q /\ clearing'[p] = clearing[p] + q
    <2>1. CASE PayoutProvider[k] = p
      <3>1. k \notin s /\ PaidAt(p)' = s \cup {k}
        BY <1>1, <1>4, <2>1 DEF PaidAt
      <3>2. Total(f, s \cup {k}) = Total(f, s) + f[k]
        <4>1. NewEntry(k, s, f, f)
          BY <1>amount, <1>1, <1>2, <3>1 DEF NewEntry
        <4> QED BY <4>1, TotalGrows
      <3>3. PayoutsOf(p)' = PayoutsOf(p) + PayoutAmount[k]
        BY <1>1, <3>1, <3>2, Zenon DEF PayoutsOf
      <3>4. clearing'[p] = clearing[p] + PayoutAmount[k]
        BY <1>type, <1>4, <2>1
      <3> QED BY <1>amount, <3>3, <3>4
    <2>2. CASE PayoutProvider[k] # p
      <3>1. PaidAt(p)' = PaidAt(p)
        BY <1>4, <2>2 DEF PaidAt
      <3>2. PayoutsOf(p)' = PayoutsOf(p)
        BY <3>1, Zenon DEF PayoutsOf
      <3>3. clearing'[p] = clearing[p]
        BY <1>type, <1>4, <2>2
      <3>4. PayoutsOf(p)' = PayoutsOf(p) + 0 /\ clearing'[p] = clearing[p] + 0
        BY <1>3, <3>2, <3>3
      <3> QED BY <3>4
    <2> QED BY <2>1, <2>2
  <1>5. ASSUME NEW k \in PaidOut, PaidOut' = PaidOut \ {k},
               clearing' = [clearing EXCEPT ![PayoutProvider[k]] = @ + (-PayoutAmount[k])]
        PROVE  \E q \in Int : PayoutsOf(p)' = PayoutsOf(p) + q /\ clearing'[p] = clearing[p] + q
    <2>1. CASE PayoutProvider[k] = p
      <3>1. k \in s /\ PaidAt(p)' = s \ {k}
        BY <1>1, <1>5, <2>1 DEF PaidAt
      <3>2. Total(f, s \ {k}) = Total(f, s) + (-f[k]) /\ f[k] \in Int
        BY <1>2, <3>1, TotalShrinks
      <3>3. PayoutsOf(p)' = PayoutsOf(p) + (-f[k])
        BY <1>1, <3>1, <3>2, Zenon DEF PayoutsOf
      <3>4. clearing'[p] = clearing[p] + (-f[k])
        BY <1>type, <1>1, <1>5, <2>1
      <3>5. -f[k] \in Int
        BY <3>2
      <3> QED BY <3>3, <3>4, <3>5
    <2>2. CASE PayoutProvider[k] # p
      <3>1. PaidAt(p)' = PaidAt(p)
        BY <1>5, <2>2 DEF PaidAt
      <3>2. PayoutsOf(p)' = PayoutsOf(p)
        BY <3>1, Zenon DEF PayoutsOf
      <3>3. clearing'[p] = clearing[p]
        BY <1>type, <1>5, <2>2
      <3>4. PayoutsOf(p)' = PayoutsOf(p) + 0 /\ clearing'[p] = clearing[p] + 0
        BY <1>3, <3>2, <3>3
      <3> QED BY <3>4
    <2> QED BY <2>1, <2>2
  <1> QED BY <1>4, <1>5 DEF PayoutReserved, PayoutReversed

\* A step of the escrow moves one sum and the account by the same amount.
LEMMA EscrowBalances ==
  ASSUME BooksInv, BooksInv', FinitePayouts, UNCHANGED PaidOut, NEW p \in Providers, Balanced(p),
         NothingBooked \/ PaymentCaptured \/ RefundReserved \/ RefundReversed \/ DecisionTaken
  PROVE  Balanced(p)'
  <1>1. /\ RefundsOf(p) \in Int /\ PartsOf(p) \in Int /\ PayoutsOf(p) \in Int /\ PaymentsOf(p) \in Int
        /\ clearing[p] \in Int
    BY SumsDefined DEF BooksInv, BooksType
  <1>2. PayoutsOf(p)' = PayoutsOf(p) + 0
    BY <1>1, StillSums
  <1>3. /\ RefundsStill => RefundsOf(p)' = RefundsOf(p) + 0
        /\ PaymentsStill => PaymentsOf(p)' = PaymentsOf(p) + 0
        /\ DecisionsStill => PartsOf(p)' = PartsOf(p) + 0
    BY <1>1, StillSums
  <1>zero. 0 \in Int
    OBVIOUS
  <1>moves. ASSUME NEW r \in Int, NEW d \in Int, NEW c \in Int,
                   RefundsOf(p)' = RefundsOf(p) + r, PartsOf(p)' = PartsOf(p) + d,
                   PaymentsOf(p)' = PaymentsOf(p) + c, clearing'[p] = clearing[p] + (r + d + 0 - c)
            PROVE  Balanced(p)'
    BY <1>zero, <1>1, <1>2, <1>moves, BalanceMoves, Zenon
  <1>4. CASE NothingBooked
    <2>1. clearing'[p] = clearing[p] + (0 + 0 + 0 - 0)
      BY <1>1, <1>4 DEF NothingBooked
    <2>2. /\ RefundsOf(p)' = RefundsOf(p) + 0 /\ PaymentsOf(p)' = PaymentsOf(p) + 0
          /\ PartsOf(p)' = PartsOf(p) + 0
      BY <1>3, <1>4 DEF NothingBooked
    <2> QED BY <1>zero, <1>moves, <2>1, <2>2, Zenon
  <1>5. CASE PaymentCaptured
    <2>1. PICK c \in Int : PaymentsOf(p)' = PaymentsOf(p) + c /\ clearing'[p] = clearing[p] + (-c)
      BY <1>5, CapturedMoves
    <2>2. clearing'[p] = clearing[p] + (0 + 0 + 0 - c)
      BY <2>1
    <2>3. RefundsOf(p)' = RefundsOf(p) + 0 /\ PartsOf(p)' = PartsOf(p) + 0
      BY <1>3, <1>5 DEF PaymentCaptured
    <2> QED BY <1>zero, <1>moves, <2>1, <2>2, <2>3, Zenon
  <1>6. CASE RefundReserved \/ RefundReversed
    <2>1. PICK r \in Int : RefundsOf(p)' = RefundsOf(p) + r /\ clearing'[p] = clearing[p] + r
      BY <1>6, ReservedMoves, ReversedMoves
    <2>2. clearing'[p] = clearing[p] + (r + 0 + 0 - 0)
      BY <2>1
    <2>3. PaymentsOf(p)' = PaymentsOf(p) + 0 /\ PartsOf(p)' = PartsOf(p) + 0
      BY <1>3, <1>6 DEF RefundReserved, RefundReversed
    <2> QED BY <1>zero, <1>moves, <2>1, <2>2, <2>3, Zenon
  <1>7. CASE DecisionTaken
    <2>1. PICK d \in Int : PartsOf(p)' = PartsOf(p) + d /\ clearing'[p] = clearing[p] + d
      BY <1>7, DecisionMoves
    <2>2. clearing'[p] = clearing[p] + (0 + d + 0 - 0)
      BY <2>1
    <2>3. RefundsOf(p)' = RefundsOf(p) + 0 /\ PaymentsOf(p)' = PaymentsOf(p) + 0
      BY <1>3, <1>7 DEF DecisionTaken
    <2> QED BY <1>zero, <1>moves, <2>1, <2>2, <2>3, Zenon
  <1> QED BY <1>4, <1>5, <1>6, <1>7

\* A step of the payouts keeps the escrow's books.
LEMMA PayoutsKeepBooks ==
  ASSUME BooksInv, UNCHANGED <<commission, escrowVars, disputeVars>>, wallet' \in Int,
         PayoutJournalsOnly, NoPayoutBooked \/ PayoutReserved \/ PayoutReversed
  PROVE  BooksInv' /\ RefundsStill /\ PaymentsStill /\ DecisionsStill
  <1>1. EarningInv /\ BooksType /\ JournalInv /\ CourseInv /\ FiniteBooks
    BY DEF BooksInv
  <1>2. UNCHANGED <<status, holder, intent, captures, refund, refundAmount, attempt, dispute, award>>
    BY DEF escrowVars, disputeVars
  <1>3. EarningInv'
    BY <1>1, PayoutsKeepEarnings
  <1>4. UNCHANGED <<StandingRefunds, CapturedPayments>>
    BY <1>2 DEF StandingRefunds, CapturedPayments
  <1>5. clearing' \in [Providers -> Int]
    <2>1. \A k \in PayoutKeys :
            PayoutAmount[k] \in Int /\ -PayoutAmount[k] \in Int /\ PayoutProvider[k] \in Providers
      BY PayoutAssumption
    <2>2. clearing \in [Providers -> Int]
      BY <1>1 DEF BooksType
    <2>3. ASSUME NEW q \in Providers, NEW a \in Int, clearing' = [clearing EXCEPT ![q] = @ + a]
          PROVE  clearing' \in [Providers -> Int]
      BY <2>2, <2>3
    <2>4. PaidOut \subseteq PayoutKeys
      BY DEF PaidOut
    <2> QED BY <2>1, <2>2, <2>3, <2>4 DEF NoPayoutBooked, PayoutReserved, PayoutReversed
  <1>6. BooksType'
    BY <1>1, <1>2, <1>5 DEF BooksType, PayoutJournalsOnly
  <1>7. JournalInv'
    <2>1. /\ \A i \in Intents : <<"MILESTONE_FUND", i>> \in posted' => <<"MILESTONE_FUND", i>> \in posted
          /\ \A k \in Keys : <<"MILESTONE_REFUND", k>> \in posted' => <<"MILESTONE_REFUND", k>> \in posted
          /\ \A k \in Keys : <<"REVERSAL", k>> \in posted' => <<"REVERSAL", k>> \in posted
      BY DEF PayoutJournalsOnly, Operations
    <2> QED BY <1>1, <1>2, <2>1 DEF JournalInv
  <1>8. CourseInv' /\ FiniteBooks'
    BY <1>1, <1>2, <1>4 DEF CourseInv, FiniteBooks
  <1>9. RefundsStill /\ PaymentsStill /\ DecisionsStill
    BY <1>2, <1>4 DEF RefundsStill, PaymentsStill, DecisionsStill, LastFunding
  <1> QED BY <1>3, <1>6, <1>7, <1>8, <1>9 DEF BooksInv

\* A step, or a stutter, preserves ClearingInv.
LEMMA ClearingStep ==
  ASSUME ~Overlap, ~PayoutOverlap, ClearingInv, [MoneyNext]_moneyVars
  PROVE  ClearingInv'
  <1>inv. /\ BooksInv /\ PayoutInv /\ PayoutBooksInv /\ FinitePayouts
          /\ \A p \in Providers : Balanced(p)
    BY DEF ClearingInv
  <1>type. wallet \in Int /\ commission \in Int
    BY <1>inv DEF BooksInv, EarningInv
  <1>0. PayoutInv'
    BY <1>inv, PayoutStep
  <1>1. CASE Next /\ UNCHANGED payoutVars
    <2>1. /\ BooksInv'
          /\ NothingBooked \/ PaymentCaptured \/ RefundReserved \/ RefundReversed \/ DecisionTaken
      BY <1>1, <1>inv, EscrowMoves
    <2>2. UNCHANGED <<payout, payoutAttempt, PaidOut>>
      BY <1>1 DEF payoutVars, PaidOut
    <2>3. PayoutBooksInv'
      BY <1>1, <1>inv, <2>2, EscrowPostsNoPayout DEF PayoutBooksInv
    <2>4. ASSUME NEW p \in Providers PROVE Balanced(p)'
      BY <1>inv, <2>1, <2>2, EscrowBalances
    <2> QED BY <1>0, <1>inv, <2>1, <2>2, <2>3, <2>4 DEF ClearingInv, FinitePayouts
  <1>2. CASE PayoutsNext /\ UNCHANGED <<escrowVars, disputeVars>>
    <2>1. /\ wallet' \in Int /\ PayoutBooksInv' /\ UNCHANGED commission
          /\ PayoutJournalsOnly
          /\ NoPayoutBooked \/ PayoutReserved \/ PayoutReversed
      BY <1>2, <1>inv, <1>type, PayoutMoves
    <2>2. BooksInv' /\ RefundsStill /\ PaymentsStill /\ DecisionsStill
      BY <1>2, <1>inv, <2>1, PayoutsKeepBooks
    <2>3. FinitePayouts'
      <3>1. IsFiniteSet(PaidOut)
        BY <1>inv DEF FinitePayouts
      <3>2. \A k : IsFiniteSet(PaidOut \cup {k}) /\ IsFiniteSet(PaidOut \ {k})
        BY <3>1, FS_AddElement, FS_RemoveElement
      <3> QED BY <2>1, <3>1, <3>2 DEF FinitePayouts, NoPayoutBooked, PayoutReserved, PayoutReversed
    <2>4. ASSUME NEW p \in Providers PROVE Balanced(p)'
      <3>1. /\ RefundsOf(p) \in Int /\ PartsOf(p) \in Int /\ PayoutsOf(p) \in Int
            /\ PaymentsOf(p) \in Int /\ clearing[p] \in Int
        BY <1>inv, SumsDefined DEF BooksInv, BooksType
      <3>2. /\ RefundsOf(p)' = RefundsOf(p) + 0 /\ PaymentsOf(p)' = PaymentsOf(p) + 0
            /\ PartsOf(p)' = PartsOf(p) + 0
        BY <2>2, <3>1, StillSums
      <3>3. PICK q \in Int : PayoutsOf(p)' = PayoutsOf(p) + q /\ clearing'[p] = clearing[p] + q
        <4>1. CASE NoPayoutBooked
          <5>1. PayoutsOf(p)' = PayoutsOf(p) + 0 /\ clearing'[p] = clearing[p] + 0
            BY <3>1, <4>1, StillSums DEF NoPayoutBooked
          <5> QED BY <5>1
        <4>2. CASE PayoutReserved \/ PayoutReversed
          BY <1>inv, <4>2, PayoutBalances
        <4> QED BY <2>1, <4>1, <4>2
      <3>4. clearing'[p] = clearing[p] + (0 + 0 + q - 0)
        BY <3>3
      <3>5. Balanced(p)
        BY <1>inv
      <3> QED BY <3>1, <3>2, <3>3, <3>4, <3>5, BalanceMoves
    <2> QED BY <1>0, <2>1, <2>2, <2>3, <2>4 DEF ClearingInv
  <1>3. CASE UNCHANGED moneyVars
    <2>1. UNCHANGED <<wallet, commission, posted, escrow, clearing, payout, payoutAttempt>>
      BY <1>3 DEF moneyVars, vars, ledgerVars, payoutVars
    <2>2. UNCHANGED <<status, holder, intent, captures, refund, refundAmount, attempt, dispute, award>>
      BY <1>3 DEF moneyVars, vars, escrowVars, disputeVars
    <2>3. UNCHANGED <<PaidOut, StandingRefunds, CapturedPayments>>
      BY <2>1, <2>2 DEF PaidOut, StandingRefunds, CapturedPayments
    <2>4. EarningInv' /\ BooksType' /\ JournalInv' /\ CourseInv' /\ FiniteBooks'
      BY <1>inv, <2>1, <2>2, <2>3
      DEF BooksInv, EarningInv, ReleaseInv, BooksType, JournalInv, CourseInv, FiniteBooks
    <2>5. NothingBooked
      BY <2>1, <2>2, <2>3 DEF NothingBooked, RefundsStill, PaymentsStill, DecisionsStill, LastFunding
    <2>6. BooksInv' /\ PayoutBooksInv' /\ FinitePayouts'
      BY <1>inv, <2>1, <2>3, <2>4 DEF BooksInv, PayoutBooksInv, FinitePayouts
    <2>7. ASSUME NEW p \in Providers PROVE Balanced(p)'
      BY <1>inv, <2>3, <2>5, <2>6, EscrowBalances
    <2> QED BY <1>0, <2>6, <2>7 DEF ClearingInv
  <1> QED BY <1>1, <1>2, <1>3 DEF MoneyNext

\* The sums ClearingAccounted states are totals.
LEMMA PartsAreTotal ==
  ASSUME BooksInv, FinitePayouts, NEW p \in Providers
  PROVE  MapThenSumSet(LAMBDA m : Amount[m] - award[m], DecidedAt(p)) = PartsOf(p)
  <1> DEFINE S == DecidedAt(p)
      P(g) == g = [s \in SUBSET S |->
        IF s = {} THEN 0
        ELSE (Amount[CHOOSE x \in s : TRUE] - award[CHOOSE x \in s : TRUE]) + g[s \ {CHOOSE x \in s : TRUE}]]
      I == CHOOSE g : P(g)
  <1>1. MapThenSumSet(LAMBDA m : Amount[m] - award[m], S) = I[S]
    BY DEF MapThenSumSet, MapThenFoldSet
  <1>2. IsFiniteSet(S) /\ \A m \in S : ClientPart[m] \in Int /\ m \in Milestones
    BY SumsDefined DEF DecidedAt
  <1> HIDE DEF I, S
  <1>3. \A s \in SUBSET S : s # {} =>
          ClientPart[CHOOSE x \in s : TRUE] = Amount[CHOOSE x \in s : TRUE] - award[CHOOSE x \in s : TRUE]
    BY <1>2 DEF ClientPart
  <1>4. \A g : P(g) <=> IsSum(g, ClientPart, S)
    BY <1>3 DEF IsSum
  <1>5. \E g : P(g)
    <2>1. PICK h : IsSum(h, ClientPart, S)
      BY <1>2, SumExists
    <2>2. P(h)
      BY <1>4, <2>1
    <2> QED BY <2>2
  <1>6. P(I)
    BY <1>5 DEF I
  <1>7. IsSum(I, ClientPart, S) /\ S \in SUBSET S
    BY <1>4, <1>6
  <1>8. I[S] = Total(ClientPart, S)
    BY <1>2, <1>7, TotalIsSum
  <1> QED BY <1>1, <1>8 DEF PartsOf, S

\* The checked sum over the captured payments is their total.
LEMMA PaymentsAreTotal ==
  ASSUME BooksInv, FinitePayouts, NEW p \in Providers
  PROVE  MapThenSumSet(LAMBDA i : Amount[IntentOf[i]], CapturedAt(p)) = PaymentsOf(p)
  <1> DEFINE S == CapturedAt(p)
      P(g) == g = [s \in SUBSET S |->
        IF s = {} THEN 0
        ELSE Amount[IntentOf[CHOOSE x \in s : TRUE]] + g[s \ {CHOOSE x \in s : TRUE}]]
      I == CHOOSE g : P(g)
  <1>1. MapThenSumSet(LAMBDA i : Amount[IntentOf[i]], S) = I[S]
    BY DEF MapThenSumSet, MapThenFoldSet
  <1>2. IsFiniteSet(S) /\ \A i \in S : Price[i] \in Int /\ i \in Intents
    BY SumsDefined DEF CapturedAt, CapturedPayments
  <1> HIDE DEF I, S
  <1>3. \A s \in SUBSET S : s # {} => Price[CHOOSE x \in s : TRUE] = Amount[IntentOf[CHOOSE x \in s : TRUE]]
    BY <1>2 DEF Price
  <1>4. \A g : P(g) <=> IsSum(g, Price, S)
    BY <1>3 DEF IsSum
  <1>5. \E g : P(g)
    <2>1. PICK h : IsSum(h, Price, S)
      BY <1>2, SumExists
    <2>2. P(h)
      BY <1>4, <2>1
    <2> QED BY <2>2
  <1>6. P(I)
    BY <1>5 DEF I
  <1>7. IsSum(I, Price, S) /\ S \in SUBSET S
    BY <1>4, <1>6
  <1>8. I[S] = Total(Price, S)
    BY <1>2, <1>7, TotalIsSum
  <1> QED BY <1>1, <1>8 DEF PaymentsOf, S

\* Each provider's clearing account is what the books say went through it:
\* post_journal books captures, refunds, reversals, decisions and payouts at
\* the provider whose money moved, and each of them once, under crashes, lost
\* answers, late captures, changed decisions and any interleaving of the escrow
\* with the payouts.  The requests of a refund and of a payout do not overlap.
THEOREM ClearingAlwaysAccounted ==
  ASSUME ~Overlap, ~PayoutOverlap PROVE MoneySpec => []ClearingAccounted
  <1>1. MoneyInit => ClearingInv
    <2> SUFFICES ASSUME MoneyInit PROVE ClearingInv
      OBVIOUS
    <2>1. EarningInv
      BY InitEarnings DEF MoneyInit
    <2>2. PaidOut = {} /\ StandingRefunds = {} /\ CapturedPayments = {}
      BY DEF MoneyInit, PayoutsInit, Init, EscrowInit, PaidOut, StandingRefunds, CapturedPayments
    <2>3. FinitePayouts /\ FiniteBooks
      BY <2>2, FS_EmptySet DEF FinitePayouts, FiniteBooks
    <2>4. PayoutInv
      BY DEF MoneyInit, PayoutsInit, PayoutInv, PayoutTypeOK
    <2>5. posted = {}
      BY DEF MoneyInit, Init, LedgerInit
    <2>6. PayoutBooksInv
      BY <2>5 DEF MoneyInit, PayoutsInit, PayoutBooksInv, PayoutAnswers
    <2>7. BooksType
      BY DEF MoneyInit, Init, LedgerInit, EscrowInit, BooksType
    <2>8. JournalInv
      BY <2>5 DEF JournalInv
    <2>9. CourseInv
      BY ConstantsAssumption DEF MoneyInit, Init, EscrowInit, CourseInv, Answers
    <2>10. BooksInv
      BY <2>1, <2>3, <2>7, <2>8, <2>9 DEF BooksInv
    <2>11. ASSUME NEW p \in Providers PROVE Balanced(p)
      <3>1. RefundedAt(p) = {} /\ CapturedAt(p) = {} /\ PaidAt(p) = {}
        BY <2>2 DEF RefundedAt, CapturedAt, PaidAt
      <3>2. DecidedAt(p) = {}
        BY DEF MoneyInit, Init, DisputesInit, DecidedAt
      <3>3. RefundsOf(p) = 0 /\ PartsOf(p) = 0 /\ PayoutsOf(p) = 0 /\ PaymentsOf(p) = 0
        BY <3>1, <3>2, TotalEmpty DEF RefundsOf, PartsOf, PayoutsOf, PaymentsOf
      <3>4. clearing[p] = 0
        BY DEF MoneyInit, Init, LedgerInit
      <3> QED BY <3>3, <3>4 DEF Balanced
    <2> QED BY <2>3, <2>4, <2>6, <2>10, <2>11 DEF ClearingInv
  <1>2. ClearingInv /\ [MoneyNext]_moneyVars => ClearingInv'
    BY ClearingStep
  <1>3. ASSUME ClearingInv PROVE ClearingAccounted
    <2>inv. BooksInv /\ FinitePayouts /\ \A p \in Providers : Balanced(p)
      BY <1>3 DEF ClearingInv
    <2>1. ASSUME NEW p \in Providers
          PROVE  clearing[p] =
                   MapThenSumSet(LAMBDA k : refundAmount[k], RefundedAt(p))
                   + MapThenSumSet(LAMBDA m : Amount[m] - award[m], DecidedAt(p))
                   + MapThenSumSet(LAMBDA k : PayoutAmount[k], PaidAt(p))
                   - MapThenSumSet(LAMBDA i : Amount[IntentOf[i]], CapturedAt(p))
      <3>1. MapThenSumSet(LAMBDA k : refundAmount[k], RefundedAt(p)) = RefundsOf(p)
        <4>1. SumBy(refundAmount, RefundedAt(p)) = Total(refundAmount, RefundedAt(p))
          BY <2>inv, SumsDefined, SumByIsTotal
        <4> QED BY <4>1 DEF SumBy, RefundsOf
      <3>2. MapThenSumSet(LAMBDA k : PayoutAmount[k], PaidAt(p)) = PayoutsOf(p)
        <4>1. SumBy(PayoutAmount, PaidAt(p)) = Total(PayoutAmount, PaidAt(p))
          BY <2>inv, SumsDefined, SumByIsTotal
        <4> QED BY <4>1 DEF SumBy, PayoutsOf
      <3>3. MapThenSumSet(LAMBDA m : Amount[m] - award[m], DecidedAt(p)) = PartsOf(p)
        BY <2>inv, PartsAreTotal
      <3>4. MapThenSumSet(LAMBDA i : Amount[IntentOf[i]], CapturedAt(p)) = PaymentsOf(p)
        BY <2>inv, PaymentsAreTotal
      <3>5. clearing[p] = RefundsOf(p) + PartsOf(p) + PayoutsOf(p) - PaymentsOf(p)
        BY <2>inv DEF Balanced
      <3> QED BY <3>1, <3>2, <3>3, <3>4, <3>5, Zenon
    <2>2. ASSUME NEW p \in Providers
          PROVE  /\ RefundedAt(p) = {k \in Keys : KeyProvider[k] = p /\ refund[k] \in {"PENDING", "SUCCEEDED"}}
                 /\ CapturedAt(p) = {i \in Intents : IntentProvider[i] = p /\ intent[i] = "CAPTURED"}
      BY DEF RefundedAt, StandingRefunds, CapturedAt, CapturedPayments
    <2> QED BY <2>1, <2>2, Zenon DEF ClearingAccounted, DecidedAt, PaidAt
  <1> QED BY <1>1, <1>2, <1>3, PTL DEF MoneySpec
=============================================================================
