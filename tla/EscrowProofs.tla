---------------------------- MODULE EscrowProofs ----------------------------
(***************************************************************************)
(* Proofs about EscrowSystem for every set of milestones, intents, refund  *)
(* keys and providers, every amount and every commission rate.             *)
(***************************************************************************)
EXTENDS EscrowSystem, FiniteSetTheorems, WellFoundedInduction, TLAPS

\* What _resolution_amounts allows is any part of the funded amount, its ends included.
LEMMA ResolutionAmountsRange ==
  ASSUME NEW m \in Milestones PROVE ResolutionAmounts(m) = 0..Amount[m]
  BY ConstantsAssumption DEF ResolutionAmounts

\* post_journal keeps the ledger well typed when its arguments are.
LEMMA PostJournalType ==
  ASSUME NEW op \in Operations, NEW ref \in Intents \cup Keys \cup Milestones,
         NEW m \in Milestones, NEW p \in Providers,
         NEW a \in Int, NEW b \in Int, NEW c \in Int, NEW d \in Int,
         TypeOK, PostJournal(op, ref, m, p, a, b, c, d)
  PROVE  /\ escrow' \in [Milestones -> Int]
         /\ clearing' \in [Providers -> Int]
         /\ wallet' \in Int /\ commission' \in Int
         /\ posted' \subseteq Operations \X (Intents \cup Keys \cup Milestones)
  <1>1. CASE <<op, ref>> \in posted
    BY <1>1 DEF PostJournal, ledgerVars, TypeOK
  <1>2. CASE <<op, ref>> \notin posted
    BY <1>2 DEF PostJournal, TypeOK
  <1> QED BY <1>1, <1>2

\* The commission on an amount is an integer.
LEMMA FeeType == ASSUME NEW a \in Int PROVE Fee(a) \in Int
  BY ConstantsAssumption DEF Fee

\* A call to the provider keeps the provider's side well typed.
LEMMA ProviderRefundType ==
  ASSUME NEW k \in Keys, NEW i \in {"NONE"} \cup Intents, NEW answer \in Answers,
         TypeOK, ProviderRefund(k, i, answer)
  PROVE  /\ provRefund' \in [Keys -> {"none", "pending", "succeeded", "failed"}]
         /\ refundOf' \in [Keys -> {"NONE"} \cup Intents]
  <1>1. PICK state \in Outcomes(provRefund[k]) :
          /\ provRefund' = [provRefund EXCEPT ![k] = state]
          /\ refundOf' = [refundOf EXCEPT ![k] =
                            IF provRefund[k] = "none" /\ state # "none" THEN i ELSE @]
    BY DEF ProviderRefund
  <1>2. state \in {"none", "pending", "succeeded", "failed"}
    BY DEF Outcomes, TypeOK
  <1>3. refundOf[k] \in {"NONE"} \cup Intents
    BY DEF TypeOK
  <1> QED BY <1>1, <1>2, <1>3 DEF TypeOK

\* Settling a refund keeps what it writes well typed.
LEMMA SettleRefundType ==
  ASSUME NEW k \in Keys, NEW answer \in Answers, TypeOK, SettleRefund(k, answer)
  PROVE  /\ escrow' \in [Milestones -> Int]
         /\ clearing' \in [Providers -> Int]
         /\ wallet' \in Int /\ commission' \in Int
         /\ posted' \subseteq Operations \X (Intents \cup Keys \cup Milestones)
         /\ status' \in [Milestones -> MilestoneStatus]
         /\ refund' \in [Keys -> {"NONE", "PENDING", "SUCCEEDED", "FAILED"}]
         /\ refundRef' \in [Keys -> BOOLEAN]
  <1>1. CASE FailRefund(k) /\ refundRef' = [refundRef EXCEPT ![k] = @ \/ answer = "FAILED"]
    <2>1. KeyOf[k] \in Milestones /\ KeyProvider[k] \in Providers
      BY ConstantsAssumption
    <2>2. refundAmount[k] \in Int /\ -refundAmount[k] \in Int
      BY DEF TypeOK
    <2>3. PostJournal("REVERSAL", k, KeyOf[k], KeyProvider[k],
                      refundAmount[k], -refundAmount[k], 0, 0)
      BY <1>1 DEF FailRefund
    <2>4. /\ escrow' \in [Milestones -> Int]
          /\ clearing' \in [Providers -> Int]
          /\ wallet' \in Int /\ commission' \in Int
          /\ posted' \subseteq Operations \X (Intents \cup Keys \cup Milestones)
      BY <2>1, <2>2, <2>3, PostJournalType DEF Operations
    <2>5. refundRef' \in [Keys -> BOOLEAN]
      BY <1>1, Zenon DEF TypeOK
    <2> QED BY <1>1, <2>4, <2>5 DEF FailRefund, TypeOK
  <1>2. CASE answer \in {"PENDING", "SUCCEEDED"}
    <2>1. UNCHANGED ledgerVars
      BY <1>2 DEF SettleRefund
    <2>2. /\ refundRef' \in {refundRef, [refundRef EXCEPT ![k] = TRUE]}
          /\ refund' \in {refund, [refund EXCEPT ![k] = "SUCCEEDED"]}
          /\ status' \in {status, [status EXCEPT ![KeyOf[k]] = "CREATED"]}
      BY <1>2 DEF SettleRefund
    <2>3. refundRef' \in [Keys -> BOOLEAN]
      BY <2>2 DEF TypeOK
    <2>4. refund' \in [Keys -> {"NONE", "PENDING", "SUCCEEDED", "FAILED"}]
      BY <2>2 DEF TypeOK
    <2>5. status' \in [Milestones -> MilestoneStatus]
      BY <2>2 DEF TypeOK, MilestoneStatus
    <2> QED BY <2>1, <2>3, <2>4, <2>5 DEF ledgerVars, TypeOK
  <1> QED BY <1>1, <1>2 DEF SettleRefund

\* A step, or a stutter, keeps every variable in its type.
LEMMA TypeStep == TypeOK /\ [Next]_vars => TypeOK'
  <1> SUFFICES ASSUME TypeOK, [Next]_vars PROVE TypeOK'
    OBVIOUS
  <1>1. ASSUME NEW m \in Milestones, FundBegin(m), UNCHANGED disputeVars PROVE TypeOK'
    BY <1>1 DEF FundBegin, TypeOK, ledgerVars, refundVars, disputeVars
  <1>2. ASSUME NEW m \in Milestones, NEW i \in Intents, FundCommit(m, i), UNCHANGED disputeVars
        PROVE TypeOK'
    BY <1>2 DEF FundCommit, CreatePayment, TypeOK, ledgerVars, refundVars, disputeVars
  <1>3. ASSUME NEW m \in Milestones, NEW i \in Intents, FundCrash(m, i), UNCHANGED disputeVars
        PROVE TypeOK'
    BY <1>3 DEF FundCrash, CreatePayment, TypeOK, ledgerVars, refundVars, disputeVars
  <1>4. ASSUME NEW m \in Milestones, NEW i \in Intents, CaptureCommit(m, i), UNCHANGED disputeVars
        PROVE TypeOK'
    <2>1. Amount[m] \in Int /\ -Amount[m] \in Int /\ IntentProvider[i] \in Providers
      BY ConstantsAssumption
    <2>2. PostJournal("MILESTONE_FUND", i, m, IntentProvider[i], Amount[m], -Amount[m], 0, 0)
      BY <1>4 DEF CaptureCommit
    <2>3. /\ escrow' \in [Milestones -> Int]
          /\ clearing' \in [Providers -> Int]
          /\ wallet' \in Int /\ commission' \in Int
          /\ posted' \subseteq Operations \X (Intents \cup Keys \cup Milestones)
      BY <2>1, <2>2, PostJournalType DEF Operations
    <2>4. captures' \in Seq(Intents) /\ status' \in [Milestones -> MilestoneStatus]
      BY <1>4 DEF CaptureCommit, TypeOK, MilestoneStatus
    <2>5. intent' \in [Intents -> {"NONE", "PENDING", "CAPTURED", "FAILED"}]
      BY <1>4 DEF CaptureCommit, TypeOK
    <2>6. holder' \in [Milestones -> {"free", "funding"} \cup Intents]
      BY <1>4 DEF CaptureCommit, TypeOK
    <2> QED BY <1>4, <2>3, <2>4, <2>5, <2>6 DEF CaptureCommit, TypeOK, refundVars, disputeVars
  <1>5. ASSUME NEW m \in Milestones, Rollback(m), UNCHANGED disputeVars PROVE TypeOK'
    BY <1>5 DEF Rollback, TypeOK, ledgerVars, refundVars, disputeVars
  <1>6. ASSUME NEW m \in Milestones, UNCHANGED disputeVars,
               NEW from, NEW to \in MilestoneStatus, Transition(m, from, to)
        PROVE TypeOK'
    BY <1>6 DEF Transition, TypeOK, ledgerVars, refundVars, disputeVars
  <1>7. ASSUME NEW m \in Milestones, ReleaseMilestone(m), UNCHANGED disputeVars PROVE TypeOK'
    <2>1. PICK p \in Providers :
            PostJournal("MILESTONE_RELEASE", m, m, p, -Amount[m], 0,
                        Amount[m] - Fee(Amount[m]), Fee(Amount[m]))
      BY <1>7 DEF ReleaseMilestone
    <2>2. /\ Amount[m] \in Int /\ -Amount[m] \in Int /\ Fee(Amount[m]) \in Int
          /\ Amount[m] - Fee(Amount[m]) \in Int
      BY FeeType, ConstantsAssumption
    <2>3. /\ escrow' \in [Milestones -> Int]
          /\ clearing' \in [Providers -> Int]
          /\ wallet' \in Int /\ commission' \in Int
          /\ posted' \subseteq Operations \X (Intents \cup Keys \cup Milestones)
      BY <2>1, <2>2, PostJournalType DEF Operations
    <2> QED BY <1>7, <2>3 DEF ReleaseMilestone, TypeOK, refundVars, disputeVars, MilestoneStatus
  <1>8. ASSUME NEW i \in Intents, ProviderPays(i), UNCHANGED disputeVars PROVE TypeOK'
    <2>1. payment' \in [Intents -> {"none", "open", "captured", "failed"}]
      BY <1>8 DEF ProviderPays, TypeOK
    <2> QED BY <1>8, <2>1 DEF ProviderPays, TypeOK, ledgerVars, refundVars, disputeVars
  <1>9. ASSUME NEW i \in Intents, CaptureBegin(i), UNCHANGED disputeVars PROVE TypeOK'
    BY <1>9 DEF CaptureBegin, TypeOK, ledgerVars, refundVars, disputeVars
  <1>10. ASSUME NEW i \in Intents, PaymentFailed(i), UNCHANGED disputeVars PROVE TypeOK'
    BY <1>10 DEF PaymentFailed, TypeOK, ledgerVars, refundVars, disputeVars
  <1>11. ASSUME NEW k \in Keys, RefundReserve(k), UNCHANGED disputeVars PROVE TypeOK'
    <2>1. KeyOf[k] \in Milestones /\ KeyProvider[k] \in Providers
      BY ConstantsAssumption
    <2>2. escrow[KeyOf[k]] \in Int /\ -escrow[KeyOf[k]] \in Int
      BY <2>1 DEF TypeOK
    <2>3. PostJournal("MILESTONE_REFUND", k, KeyOf[k], KeyProvider[k],
                      -escrow[KeyOf[k]], escrow[KeyOf[k]], 0, 0)
      BY <1>11 DEF RefundReserve
    <2>4. /\ escrow' \in [Milestones -> Int]
          /\ clearing' \in [Providers -> Int]
          /\ wallet' \in Int /\ commission' \in Int
          /\ posted' \subseteq Operations \X (Intents \cup Keys \cup Milestones)
      BY <2>1, <2>2, <2>3, PostJournalType DEF Operations
    <2>5. refundOf' \in [Keys -> {"NONE"} \cup Intents]
      BY <1>11 DEF RefundReserve, TypeOK
    <2> QED BY <1>11, <2>2, <2>4, <2>5 DEF RefundReserve, TypeOK, disputeVars
  <1>12. ASSUME NEW k \in Keys, RefundCall(k), UNCHANGED disputeVars PROVE TypeOK'
    <2>1. PICK answer \in Answers :
            /\ ProviderRefund(k, refundOf[k], answer)
            /\ attempt' = [attempt EXCEPT ![k] =
                 IF answer = "TEMPORARY" \/ refund[k] # "PENDING" THEN "done" ELSE answer]
      BY <1>12 DEF RefundCall
    <2>2. /\ provRefund' \in [Keys -> {"none", "pending", "succeeded", "failed"}]
          /\ refundOf' \in [Keys -> {"NONE"} \cup Intents]
      <3>1. refundOf[k] \in {"NONE"} \cup Intents
        BY DEF TypeOK
      <3> QED BY <2>1, <3>1, ProviderRefundType
    <2> QED BY <1>12, <2>1, <2>2 DEF RefundCall, TypeOK, ledgerVars, disputeVars
  <1>13. ASSUME NEW k \in Keys, RefundSettle(k), UNCHANGED disputeVars PROVE TypeOK'
    <2>1. attempt[k] \in Answers /\ SettleRefund(k, attempt[k])
      BY <1>13 DEF RefundSettle
    <2>2. /\ escrow' \in [Milestones -> Int]
          /\ clearing' \in [Providers -> Int]
          /\ wallet' \in Int /\ commission' \in Int
          /\ posted' \subseteq Operations \X (Intents \cup Keys \cup Milestones)
          /\ status' \in [Milestones -> MilestoneStatus]
          /\ refund' \in [Keys -> {"NONE", "PENDING", "SUCCEEDED", "FAILED"}]
          /\ refundRef' \in [Keys -> BOOLEAN]
      BY <2>1, SettleRefundType
    <2> QED BY <1>13, <2>2 DEF RefundSettle, TypeOK, disputeVars
  <1>14. ASSUME NEW k \in Keys, RefundCrash(k), UNCHANGED disputeVars PROVE TypeOK'
    BY <1>14 DEF RefundCrash, TypeOK, ledgerVars, disputeVars
  <1>15. ASSUME NEW k \in Keys, RefundReplay(k), UNCHANGED disputeVars PROVE TypeOK'
    <2>1. PICK i \in Intents, answer \in Answers :
            /\ ProviderRefund(k, i, answer)
            /\ \/ answer = "TEMPORARY" /\ UNCHANGED <<status, refund, refundRef, ledgerVars>>
               \/ SettleRefund(k, answer)
      BY <1>15 DEF RefundReplay
    <2>2. /\ provRefund' \in [Keys -> {"none", "pending", "succeeded", "failed"}]
          /\ refundOf' \in [Keys -> {"NONE"} \cup Intents]
      BY <2>1, ProviderRefundType
    <2>3. /\ escrow' \in [Milestones -> Int]
          /\ clearing' \in [Providers -> Int]
          /\ wallet' \in Int /\ commission' \in Int
          /\ posted' \subseteq Operations \X (Intents \cup Keys \cup Milestones)
          /\ status' \in [Milestones -> MilestoneStatus]
          /\ refund' \in [Keys -> {"NONE", "PENDING", "SUCCEEDED", "FAILED"}]
          /\ refundRef' \in [Keys -> BOOLEAN]
      BY <2>1, SettleRefundType DEF TypeOK, ledgerVars
    <2> QED BY <1>15, <2>2, <2>3 DEF RefundReplay, TypeOK, disputeVars
  <1>16. ASSUME CancelContract, UNCHANGED disputeVars PROVE TypeOK'
    BY <1>16 DEF CancelContract, TypeOK, ledgerVars, refundVars, disputeVars, ContractStatus
  <1>17. ASSUME NEW m \in Milestones, OpenDispute(m) PROVE TypeOK'
    BY <1>17 DEF OpenDispute, TypeOK, ledgerVars, refundVars, MilestoneStatus, DisputeStatus
  <1>18. ASSUME NEW m \in Milestones, NEW to \in DisputeStatus, AdminTransition(m, to)
         PROVE TypeOK'
    BY <1>18 DEF AdminTransition, TypeOK, ledgerVars, escrowVars
  <1>19. ASSUME NEW m \in Milestones, NEW d \in DecisionKeys, NEW a \in 0..Amount[m],
                ResolveDispute(m, d, a)
         PROVE TypeOK'
    <2>1. PICK i \in Intents :
            PostJournal("DISPUTE_RESOLUTION", m, m, IntentProvider[i], -Amount[m],
                        Amount[m] - a, a - Fee(a), Fee(a))
      BY <1>19 DEF ResolveDispute
    <2>2. /\ a \in Int /\ -Amount[m] \in Int /\ Amount[m] - a \in Int
          /\ Fee(a) \in Int /\ a - Fee(a) \in Int /\ IntentProvider[i] \in Providers
      BY FeeType, ConstantsAssumption
    <2>3. /\ escrow' \in [Milestones -> Int]
          /\ clearing' \in [Providers -> Int]
          /\ wallet' \in Int /\ commission' \in Int
          /\ posted' \subseteq Operations \X (Intents \cup Keys \cup Milestones)
      BY <2>1, <2>2, PostJournalType DEF Operations
    <2>4. disputeRefund' \in [Milestones -> [DecisionKeys -> Int]]
      BY <1>19, <2>2 DEF ResolveDispute, PayRefundPart, TypeOK
    <2> QED BY <1>19, <2>2, <2>3, <2>4
            DEF ResolveDispute, TypeOK, refundVars, MilestoneStatus, DisputeStatus
  <1>20. ASSUME NEW m \in Milestones, NEW d \in DecisionKeys, NEW a \in 0..Amount[m],
                ResolveCrash(m, d, a)
         PROVE TypeOK'
    <2>1. Amount[m] - a \in Int
      BY ConstantsAssumption
    <2>2. disputeRefund' \in [Milestones -> [DecisionKeys -> Int]]
      BY <1>20, <2>1 DEF ResolveCrash, PayRefundPart, TypeOK
    <2> QED BY <1>20, <2>2 DEF ResolveCrash, TypeOK, ledgerVars, escrowVars
  <1>21. CASE UNCHANGED vars
    BY <1>21 DEF vars, TypeOK, ledgerVars, escrowVars, disputeVars
  <1> QED
    BY <1>1, <1>2, <1>3, <1>4, <1>5, <1>6, <1>7, <1>8, <1>9, <1>10, <1>11, <1>12, <1>13,
       <1>14, <1>15, <1>16, <1>17, <1>18, <1>19, <1>20, <1>21, ResolutionAmountsRange
    DEF Next, EscrowNext, DisputesNext, StartMilestone, FullyFunded, SubmitMilestone, RequestChanges,
        ApproveMilestone, MilestoneStatus

\* Every step keeps every column, account and provider state in its type.
THEOREM TypeCorrect == Spec => []TypeOK
  <1>1. Init => TypeOK
    BY DEF Init, LedgerInit, EscrowInit, DisputesInit, TypeOK, ContractStatus, MilestoneStatus,
        DisputeStatus
  <1> QED BY <1>1, TypeStep, PTL DEF Spec

-----------------------------------------------------------------------------
(* Safety whatever clients, administrators and providers do.                *)

\* A frozen milestone is never worked on again, a release is the end of its
\* milestone, and no refund reserves a negative amount.
FreezeInv ==
  /\ TypeOK
  /\ \A m \in Milestones : dispute[m] # "NONE" => status[m] \in {"DISPUTED", "RELEASED"}
  /\ \A m \in Milestones :
       <<"MILESTONE_RELEASE", m>> \in posted => status[m] = "RELEASED" /\ dispute[m] = "NONE"
  /\ \A k \in Keys : refundAmount[k] >= 0
  /\ WorkIsFunded

\* What post_journal does to the escrow balance of a milestone.
LEMMA PostJournalEscrow ==
  ASSUME NEW op, NEW ref, NEW m \in Milestones, NEW p,
         NEW a \in Int, NEW b, NEW c, NEW d,
         TypeOK, PostJournal(op, ref, m, p, a, b, c, d)
  PROVE  /\ \A n \in Milestones : n # m => escrow'[n] = escrow[n]
         /\ escrow'[m] \in {escrow[m], escrow[m] + a}
         /\ <<op, ref>> \notin posted => escrow'[m] = escrow[m] + a
         /\ posted' = posted \cup {<<op, ref>>}
  <1>1. CASE <<op, ref>> \in posted
    BY <1>1 DEF PostJournal, ledgerVars, TypeOK
  <1>2. CASE <<op, ref>> \notin posted
    BY <1>2 DEF PostJournal, TypeOK
  <1> QED BY <1>1, <1>2

\* Settling a refund adds to the escrow, and can only reopen a FUNDED milestone.
LEMMA SettleRefundFreeze ==
  ASSUME NEW k \in Keys, NEW answer \in Answers, FreezeInv, SettleRefund(k, answer)
  PROVE  /\ \A n \in Milestones : escrow'[n] >= escrow[n]
         /\ \A n \in Milestones :
              <<"MILESTONE_RELEASE", n>> \in posted' => <<"MILESTONE_RELEASE", n>> \in posted
         /\ \A n \in Milestones :
              status'[n] = status[n] \/ (status[n] = "FUNDED" /\ status'[n] = "CREATED")
  <1>0. TypeOK
    BY DEF FreezeInv
  <1>1. KeyOf[k] \in Milestones
    BY ConstantsAssumption
  <1>2. \A n \in Milestones : escrow[n] \in Int
    BY <1>0 DEF TypeOK
  <1>3. refundAmount[k] \in Int /\ refundAmount[k] >= 0
    BY <1>0 DEF FreezeInv, TypeOK
  <1>4. CASE answer \in {"ERROR", "MISMATCH", "FAILED"}
    <2>1. /\ PostJournal("REVERSAL", k, KeyOf[k], KeyProvider[k],
                         refundAmount[k], -refundAmount[k], 0, 0)
          /\ UNCHANGED status
      BY <1>4 DEF SettleRefund, FailRefund
    <2>2. /\ posted' = posted \cup {<<"REVERSAL", k>>}
          /\ \A n \in Milestones : n # KeyOf[k] => escrow'[n] = escrow[n]
          /\ escrow'[KeyOf[k]] \in {escrow[KeyOf[k]], escrow[KeyOf[k]] + refundAmount[k]}
      BY <1>0, <1>1, <1>3, <2>1, PostJournalEscrow
    <2>3. \A n \in Milestones : escrow'[n] >= escrow[n]
      BY <1>1, <1>2, <1>3, <2>2
    <2>4. \A n \in Milestones :
            <<"MILESTONE_RELEASE", n>> \in posted' => <<"MILESTONE_RELEASE", n>> \in posted
      BY <2>2
    <2> QED BY <2>1, <2>3, <2>4
  <1>5. CASE answer \in {"PENDING", "SUCCEEDED"}
    <2>1. escrow' = escrow /\ posted' = posted
      BY <1>5 DEF SettleRefund, ledgerVars
    <2>2. \A n \in Milestones :
            status'[n] = status[n] \/ (status[n] = "FUNDED" /\ status'[n] = "CREATED")
      BY <1>0, <1>1, <1>5 DEF SettleRefund, TypeOK
    <2> QED BY <1>2, <2>1, <2>2
  <1> QED BY <1>4, <1>5 DEF SettleRefund

\* A step, or a stutter, preserves FreezeInv.
LEMMA FreezeStep == FreezeInv /\ [Next]_vars => FreezeInv'
  <1> SUFFICES ASSUME FreezeInv, [Next]_vars PROVE FreezeInv'
    OBVIOUS
  <1>0. TypeOK /\ TypeOK'
    BY TypeStep DEF FreezeInv
  <1>esc. /\ \A n \in Milestones : escrow[n] \in Int /\ escrow'[n] \in Int
          /\ \A k \in Keys : refundAmount[k] \in Int
    BY <1>0 DEF TypeOK
  <1>amt. \A n \in Milestones : Amount[n] \in Int /\ Amount[n] > 0
    BY ConstantsAssumption
  <1>1. ASSUME UNCHANGED <<status, escrow, posted, refundAmount, dispute>> PROVE FreezeInv'
    BY <1>0, <1>1 DEF FreezeInv, WorkIsFunded
  <1>2. ASSUME NEW m \in Milestones, NEW i \in Intents, CaptureCommit(m, i), UNCHANGED disputeVars
        PROVE FreezeInv'
    <2>1. PostJournal("MILESTONE_FUND", i, m, IntentProvider[i], Amount[m], -Amount[m], 0, 0)
      BY <1>2 DEF CaptureCommit
    <2>2. Amount[m] \in Int /\ Amount[m] > 0
      BY ConstantsAssumption
    <2>3. /\ posted' = posted \cup {<<"MILESTONE_FUND", i>>}
          /\ \A n \in Milestones : n # m => escrow'[n] = escrow[n]
          /\ escrow'[m] \in {escrow[m], escrow[m] + Amount[m]}
      BY <1>0, <2>1, <2>2, PostJournalEscrow
    <2>4. \A n \in Milestones :
            <<"MILESTONE_RELEASE", n>> \in posted' => <<"MILESTONE_RELEASE", n>> \in posted
      BY <2>3
    <2>5. \A n \in Milestones : escrow'[n] >= escrow[n]
      BY <1>esc, <1>amt, <2>3
    <2>6. \A n \in Milestones :
            status'[n] = status[n] \/ (status[n] \in {"CREATED", "FUNDED"} /\ status'[n] = "FUNDED")
      BY <1>0, <1>2 DEF CaptureCommit, TypeOK
    <2>7. UNCHANGED <<refundAmount, dispute>>
      BY <1>2 DEF CaptureCommit, refundVars, disputeVars
    <2>8. WorkIsFunded'
      BY <1>esc, <1>amt, <2>5, <2>6 DEF FreezeInv, WorkIsFunded, WorkStatus
    <2> QED BY <1>0, <2>4, <2>6, <2>7, <2>8 DEF FreezeInv
  <1>3. ASSUME NEW m \in Milestones, NEW from \in SUBSET WorkStatus, NEW to \in WorkStatus,
               Transition(m, from, to), UNCHANGED disputeVars
        PROVE FreezeInv'
    <2>1. UNCHANGED <<escrow, posted, refundAmount, dispute>>
      BY <1>3 DEF Transition, ledgerVars, refundVars, disputeVars
    <2>2. \A n \in Milestones :
            status'[n] = status[n] \/ (status[n] \in WorkStatus /\ status'[n] \in WorkStatus)
      BY <1>0, <1>3 DEF Transition, TypeOK
    <2> QED BY <1>0, <2>1, <2>2 DEF FreezeInv, WorkIsFunded, WorkStatus
  <1>4. ASSUME NEW m \in Milestones, StartMilestone(m), UNCHANGED disputeVars PROVE FreezeInv'
    <2>1. UNCHANGED <<escrow, posted, refundAmount, dispute>>
      BY <1>4 DEF StartMilestone, FullyFunded, Transition, ledgerVars, refundVars, disputeVars
    <2>2. /\ status[m] = "FUNDED" /\ escrow[m] = Amount[m]
          /\ status' = [status EXCEPT ![m] = "IN_PROGRESS"]
      BY <1>4 DEF StartMilestone, FullyFunded, Transition
    <2>3. status \in [Milestones -> MilestoneStatus]
      BY <1>0 DEF TypeOK
    <2>4. WorkIsFunded'
      BY <1>amt, <2>1, <2>2, <2>3 DEF FreezeInv, WorkIsFunded
    <2> QED BY <1>0, <2>1, <2>2, <2>3, <2>4 DEF FreezeInv
  <1>5. ASSUME NEW m \in Milestones, ReleaseMilestone(m), UNCHANGED disputeVars PROVE FreezeInv'
    <2>1. PICK p \in Providers :
            PostJournal("MILESTONE_RELEASE", m, m, p, -Amount[m], 0,
                        Amount[m] - Fee(Amount[m]), Fee(Amount[m]))
      BY <1>5 DEF ReleaseMilestone
    <2>2. -Amount[m] \in Int
      BY <1>amt
    <2>3. /\ posted' = posted \cup {<<"MILESTONE_RELEASE", m>>}
          /\ \A n \in Milestones : n # m => escrow'[n] = escrow[n]
      BY <1>0, <2>1, <2>2, PostJournalEscrow
    <2>4. /\ status[m] = "APPROVED" /\ status' = [status EXCEPT ![m] = "RELEASED"]
          /\ UNCHANGED <<refundAmount, dispute>>
      BY <1>5 DEF ReleaseMilestone, refundVars, disputeVars
    <2>5. status \in [Milestones -> MilestoneStatus]
      BY <1>0 DEF TypeOK
    <2>6. \A n \in Milestones :
            <<"MILESTONE_RELEASE", n>> \in posted' => <<"MILESTONE_RELEASE", n>> \in posted \/ n = m
      BY <2>3
    <2>7. WorkIsFunded'
      BY <2>3, <2>4, <2>5 DEF FreezeInv, WorkIsFunded, WorkStatus
    <2> QED BY <1>0, <2>4, <2>5, <2>6, <2>7 DEF FreezeInv
  <1>6. ASSUME NEW k \in Keys, RefundReserve(k), UNCHANGED disputeVars PROVE FreezeInv'
    <2> DEFINE m == KeyOf[k]
    <2>1. m \in Milestones
      BY ConstantsAssumption
    <2>2. /\ PostJournal("MILESTONE_REFUND", k, m, KeyProvider[k], -escrow[m], escrow[m], 0, 0)
          /\ status[m] = "FUNDED" /\ escrow[m] > 0
          /\ refundAmount' = [refundAmount EXCEPT ![k] = escrow[m]]
          /\ UNCHANGED <<status, dispute>>
      BY <1>6 DEF RefundReserve, disputeVars
    <2>3. -escrow[m] \in Int
      BY <1>esc, <2>1
    <2> HIDE DEF m
    <2>4. /\ posted' = posted \cup {<<"MILESTONE_REFUND", k>>}
          /\ \A n \in Milestones : n # m => escrow'[n] = escrow[n]
      BY <1>0, <2>1, <2>2, <2>3, PostJournalEscrow
    <2>5. \A n \in Milestones :
            <<"MILESTONE_RELEASE", n>> \in posted' => <<"MILESTONE_RELEASE", n>> \in posted
      BY <2>4
    <2>6. WorkIsFunded'
      BY <2>2, <2>4 DEF FreezeInv, WorkIsFunded, WorkStatus
    <2>7. \A j \in Keys : refundAmount'[j] >= 0
      <3>1. refundAmount \in [Keys -> Int]
        BY <1>0 DEF TypeOK
      <3> QED BY <1>esc, <2>1, <2>2, <3>1 DEF FreezeInv
    <2> QED BY <1>0, <2>2, <2>5, <2>6, <2>7 DEF FreezeInv
  <1>7. ASSUME NEW k \in Keys, NEW answer \in Answers, SettleRefund(k, answer),
               UNCHANGED <<refundAmount, dispute>>
        PROVE FreezeInv'
    <2>1. /\ \A n \in Milestones : escrow'[n] >= escrow[n]
          /\ \A n \in Milestones :
               <<"MILESTONE_RELEASE", n>> \in posted' => <<"MILESTONE_RELEASE", n>> \in posted
          /\ \A n \in Milestones :
               status'[n] = status[n] \/ (status[n] = "FUNDED" /\ status'[n] = "CREATED")
      BY <1>7, SettleRefundFreeze
    <2>2. WorkIsFunded'
      BY <1>esc, <1>amt, <2>1 DEF FreezeInv, WorkIsFunded, WorkStatus
    <2> QED BY <1>0, <1>7, <2>1, <2>2 DEF FreezeInv
  <1>8. ASSUME NEW m \in Milestones, OpenDispute(m) PROVE FreezeInv'
    <2>1. /\ status[m] \notin {"CREATED", "RELEASED", "DISPUTED"} /\ dispute[m] = "NONE"
          /\ dispute' = [dispute EXCEPT ![m] = "OPEN"]
          /\ status' = [status EXCEPT ![m] = "DISPUTED"]
          /\ UNCHANGED <<escrow, posted, refundAmount>>
      BY <1>8 DEF OpenDispute, ledgerVars, refundVars
    <2>2. status \in [Milestones -> MilestoneStatus] /\ dispute \in [Milestones -> DisputeStatus]
      BY <1>0 DEF TypeOK
    <2> QED BY <1>0, <2>1, <2>2 DEF FreezeInv, WorkIsFunded, WorkStatus
  <1>9. ASSUME NEW m \in Milestones, NEW to \in DisputeStatus, AdminTransition(m, to)
        PROVE FreezeInv'
    <2>1. /\ dispute[m] # "NONE" /\ dispute' = [dispute EXCEPT ![m] = to]
          /\ UNCHANGED <<status, escrow, posted, refundAmount>>
      BY <1>9 DEF AdminTransition, AdminTransitions, ledgerVars, escrowVars
    <2>2. dispute \in [Milestones -> DisputeStatus]
      BY <1>0 DEF TypeOK
    <2> QED BY <1>0, <2>1, <2>2 DEF FreezeInv, WorkIsFunded
  <1>10. ASSUME NEW m \in Milestones, NEW d \in DecisionKeys, NEW a \in 0..Amount[m],
                ResolveDispute(m, d, a)
         PROVE FreezeInv'
    <2>1. PICK i \in Intents :
            PostJournal("DISPUTE_RESOLUTION", m, m, IntentProvider[i], -Amount[m],
                        Amount[m] - a, a - Fee(a), Fee(a))
      BY <1>10 DEF ResolveDispute
    <2>2. -Amount[m] \in Int
      BY <1>amt
    <2>3. /\ posted' = posted \cup {<<"DISPUTE_RESOLUTION", m>>}
          /\ \A n \in Milestones : n # m => escrow'[n] = escrow[n]
      BY <1>0, <2>1, <2>2, PostJournalEscrow
    <2>4. \A n \in Milestones :
            <<"MILESTONE_RELEASE", n>> \in posted' => <<"MILESTONE_RELEASE", n>> \in posted
      BY <2>3
    <2>5. /\ status[m] = "DISPUTED" /\ dispute[m] = "UNDER_REVIEW"
          /\ status' = [status EXCEPT ![m] = "RELEASED"]
          /\ dispute' = [dispute EXCEPT ![m] = "RESOLVED"]
          /\ UNCHANGED refundAmount
      BY <1>10 DEF ResolveDispute, Resolvable, refundVars
    <2>6. status \in [Milestones -> MilestoneStatus] /\ dispute \in [Milestones -> DisputeStatus]
      BY <1>0 DEF TypeOK
    <2>7. WorkIsFunded'
      BY <2>3, <2>5, <2>6 DEF FreezeInv, WorkIsFunded, WorkStatus
    <2> QED BY <1>0, <2>4, <2>5, <2>6, <2>7 DEF FreezeInv
  <1>11. ASSUME NEW m \in Milestones, UNCHANGED disputeVars,
                \/ FundBegin(m) \/ Rollback(m)
                \/ \E i \in Intents : FundCommit(m, i) \/ FundCrash(m, i)
         PROVE FreezeInv'
    BY <1>1, <1>11 DEF FundBegin, Rollback, FundCommit, FundCrash, ledgerVars, refundVars, disputeVars
  <1>12. ASSUME NEW i \in Intents, UNCHANGED disputeVars,
                ProviderPays(i) \/ CaptureBegin(i) \/ PaymentFailed(i)
         PROVE FreezeInv'
    BY <1>1, <1>12 DEF ProviderPays, CaptureBegin, PaymentFailed, ledgerVars, refundVars, disputeVars
  <1>13. ASSUME NEW k \in Keys, UNCHANGED disputeVars, RefundCall(k) \/ RefundCrash(k)
         PROVE FreezeInv'
    BY <1>1, <1>13 DEF RefundCall, RefundCrash, ledgerVars, disputeVars
  <1>14. ASSUME NEW k \in Keys, UNCHANGED disputeVars, RefundSettle(k)
         PROVE FreezeInv'
    BY <1>7, <1>14 DEF RefundSettle, disputeVars
  <1>15. ASSUME NEW k \in Keys, UNCHANGED disputeVars, RefundReplay(k)
         PROVE FreezeInv'
    <2>1. PICK answer \in Answers :
            \/ UNCHANGED <<status, refund, refundRef, ledgerVars>>
            \/ SettleRefund(k, answer)
      BY <1>15 DEF RefundReplay
    <2>2. UNCHANGED <<refundAmount, dispute>>
      BY <1>15 DEF RefundReplay, disputeVars
    <2> QED BY <1>1, <1>7, <2>1, <2>2 DEF ledgerVars
  <1>16. ASSUME CancelContract, UNCHANGED disputeVars PROVE FreezeInv'
    BY <1>1, <1>16 DEF CancelContract, ledgerVars, refundVars, disputeVars
  <1>17. ASSUME NEW m \in Milestones, NEW d \in DecisionKeys, NEW a \in 0..Amount[m],
                ResolveCrash(m, d, a)
         PROVE FreezeInv'
    BY <1>1, <1>17 DEF ResolveCrash, ledgerVars, escrowVars
  <1>18. CASE UNCHANGED vars
    BY <1>1, <1>18 DEF vars, ledgerVars, escrowVars, disputeVars
  <1>19. ASSUME NEW m \in Milestones, UNCHANGED disputeVars,
                SubmitMilestone(m) \/ RequestChanges(m) \/ ApproveMilestone(m)
         PROVE FreezeInv'
    BY <1>3, <1>19 DEF SubmitMilestone, RequestChanges, ApproveMilestone, WorkStatus
  <1> QED
    BY <1>2, <1>4, <1>5, <1>6, <1>8, <1>9, <1>10, <1>11, <1>12, <1>13, <1>14, <1>15, <1>16,
       <1>17, <1>18, <1>19, ResolutionAmountsRange
    DEF Next, EscrowNext, DisputesNext

\* FreezeInv holds in every reachable state.
THEOREM FreezeInvariant == Spec => []FreezeInv
  <1>1. Init => FreezeInv
    <2> SUFFICES ASSUME Init PROVE FreezeInv
      OBVIOUS
    <2>1. TypeOK
      BY DEF Init, LedgerInit, EscrowInit, DisputesInit, TypeOK, ContractStatus,
             MilestoneStatus, DisputeStatus
    <2> QED
      BY <2>1 DEF Init, LedgerInit, EscrowInit, DisputesInit, FreezeInv, WorkIsFunded, WorkStatus
  <1> QED BY <1>1, FreezeStep, PTL DEF Spec

\* A milestone on which work has started always has its whole amount in escrow,
\* with overlapping refund requests, late captures and changed decisions too.
THEOREM WorkAlwaysFunded == Spec => []WorkIsFunded
  <1>1. FreezeInv => WorkIsFunded
    BY DEF FreezeInv
  <1> QED BY <1>1, FreezeInvariant, PTL

\* A release and a dispute freeze never both commit for a milestone.
THEOREM ReleaseOrDispute == Spec => []FreezeExcludesRelease
  <1>1. FreezeInv => FreezeExcludesRelease
    BY DEF FreezeInv, FreezeExcludesRelease
  <1> QED BY <1>1, FreezeInvariant, PTL
-----------------------------------------------------------------------------
(***************************************************************************)
(* Proofs about EscrowSystem when a client waits for the answer to a       *)
(* refund request before repeating it (~Overlap) and a provider's failure  *)
(* of a payment is final (~LateCapture).                                   *)
(***************************************************************************)

\* EscrowMatchesStatus, spelled out with quantifiers.
BalanceInv ==
  \A m \in Milestones :
    /\ status[m] \in {"CREATED", "RELEASED"} => escrow[m] = 0
    /\ status[m] \in WorkStatus => escrow[m] = Amount[m]
    /\ status[m] \in {"FUNDED", "DISPUTED"} =>
         \/ escrow[m] = Amount[m] /\ \A k \in Keys : KeyOf[k] = m => refund[k] # "PENDING"
         \/ escrow[m] = 0 /\ \E k \in Keys : KeyOf[k] = m /\ refund[k] = "PENDING"

\* At most one refund of a milestone is pending; it has the whole amount, the
\* milestone is FUNDED or was frozen after the reservation, and only a pending
\* refund has an attempt under way.
RefundInv ==
  /\ \A j, k \in Keys :
       refund[j] = "PENDING" /\ refund[k] = "PENDING" /\ KeyOf[j] = KeyOf[k] => j = k
  /\ \A k \in Keys : refund[k] = "PENDING" =>
       status[KeyOf[k]] \in {"FUNDED", "DISPUTED"} /\ refundAmount[k] = Amount[KeyOf[k]]
  /\ \A k \in Keys : attempt[k] \in {"reserved"} \cup Answers => refund[k] = "PENDING"
  /\ \A k \in Keys : <<"MILESTONE_REFUND", k>> \in posted => refund[k] # "NONE"

\* A pending intent belongs to a CREATED milestone that has no other, a failed
\* one failed at the provider, and a capture under way is of a pending intent
\* of an active contract.
FundingInv ==
  /\ \A i, j \in Intents :
       intent[i] = "PENDING" /\ intent[j] = "PENDING" /\ IntentOf[i] = IntentOf[j] => i = j
  /\ \A i \in Intents : intent[i] = "PENDING" => status[IntentOf[i]] = "CREATED"
  /\ \A i \in Intents : intent[i] = "FAILED" => payment[i] = "failed"
  /\ \A i \in Intents : <<"MILESTONE_FUND", i>> \in posted => intent[i] = "CAPTURED"
  /\ \A m \in Milestones, i \in Intents :
       holder[m] = i => IntentOf[i] = m /\ intent[i] = "PENDING" /\ contract = "ACTIVE"

\* A milestone whose escrow was distributed is RELEASED.
ReleaseInv ==
  \A m \in Milestones :
    <<"MILESTONE_RELEASE", m>> \in posted \/ <<"DISPUTE_RESOLUTION", m>> \in posted
      => status[m] = "RELEASED"

CancelInv == contract = "CANCELLED" => \A m \in Milestones : status[m] = "CREATED"

\* The inductive invariant: the balances, and what every handler relies on.
EscrowInv ==
  /\ TypeOK
  /\ BalanceInv
  /\ ReversedIffFailed
  /\ RefundInv
  /\ FundingInv
  /\ ReleaseInv
  /\ CancelInv

\* A step, or a stutter, preserves EscrowInv.
LEMMA EscrowStep ==
  ASSUME ~Overlap, ~LateCapture, EscrowInv, [Next]_vars
  PROVE  EscrowInv'
  <1>0. TypeOK /\ TypeOK'
    BY TypeStep DEF EscrowInv
  <1>type. /\ status \in [Milestones -> MilestoneStatus]
           /\ holder \in [Milestones -> {"free", "funding"} \cup Intents]
           /\ intent \in [Intents -> {"NONE", "PENDING", "CAPTURED", "FAILED"}]
           /\ payment \in [Intents -> {"none", "open", "captured", "failed"}]
           /\ refund \in [Keys -> {"NONE", "PENDING", "SUCCEEDED", "FAILED"}]
           /\ attempt \in [Keys -> {"none", "reserved", "done"} \cup Answers]
           /\ refundAmount \in [Keys -> Int]
    BY <1>0 DEF TypeOK
  <1>esc. \A n \in Milestones : escrow[n] \in Int
    BY <1>0 DEF TypeOK
  <1>amt. \A n \in Milestones : Amount[n] \in Int /\ Amount[n] > 0
    BY ConstantsAssumption
  <1>map. /\ \A i \in Intents : IntentOf[i] \in Milestones
          /\ \A k \in Keys : KeyOf[k] \in Milestones
    BY ConstantsAssumption
  <1>lock. \A i \in Intents : i # "free" /\ i # "funding"
    BY ConstantsAssumption
  <1>inv. BalanceInv /\ ReversedIffFailed /\ RefundInv /\ FundingInv /\ ReleaseInv /\ CancelInv
    BY DEF EscrowInv
  <1>1. ASSUME UNCHANGED <<contract, status, holder, intent, payment, refund, refundAmount, attempt, escrow, posted>>
        PROVE EscrowInv'
    <2>1. UNCHANGED <<contract, status, holder, intent, payment, refund, refundAmount, attempt, escrow, posted>>
      BY <1>1
    <2>2. BalanceInv'
      BY <1>inv, <1>type, <1>map, <1>amt, <1>esc, <2>1 DEF BalanceInv, RefundInv, WorkStatus, MilestoneStatus
    <2>3. ReversedIffFailed'
      BY <1>inv, <1>type, <1>map, <2>1 DEF ReversedIffFailed, RefundInv
    <2>4. RefundInv'
      BY <1>inv, <1>type, <1>map, <1>amt, <1>esc, <2>1 DEF RefundInv, BalanceInv, WorkStatus
    <2>5. FundingInv'
      BY <1>inv, <1>type, <1>map, <1>lock, <2>1 DEF FundingInv
    <2>6. ReleaseInv'
      BY <1>inv, <1>type, <1>map, <2>1 DEF ReleaseInv
    <2>7. CancelInv'
      BY <1>inv, <1>type, <1>map, <2>1 DEF CancelInv, FundingInv
    <2> QED BY <1>0, <2>2, <2>3, <2>4, <2>5, <2>6, <2>7 DEF EscrowInv
  <1>2. ASSUME NEW m \in Milestones, FundBegin(m) \/ Rollback(m)
        PROVE EscrowInv'
    <2>1. /\ holder' \in {[holder EXCEPT ![m] = "funding"], [holder EXCEPT ![m] = "free"]}
          /\ UNCHANGED <<contract, status, intent, payment, refund, refundAmount, attempt, escrow, posted>>
      BY <1>2 DEF FundBegin, Rollback, ledgerVars, refundVars
    <2>2. BalanceInv'
      BY <1>inv, <1>type, <1>map, <1>amt, <1>esc, <2>1 DEF BalanceInv, RefundInv, WorkStatus, MilestoneStatus
    <2>3. ReversedIffFailed'
      BY <1>inv, <1>type, <1>map, <2>1 DEF ReversedIffFailed, RefundInv
    <2>4. RefundInv'
      BY <1>inv, <1>type, <1>map, <1>amt, <1>esc, <2>1 DEF RefundInv, BalanceInv, WorkStatus
    <2>5. FundingInv'
      BY <1>inv, <1>type, <1>map, <1>lock, <2>1 DEF FundingInv
    <2>6. ReleaseInv'
      BY <1>inv, <1>type, <1>map, <2>1 DEF ReleaseInv
    <2>7. CancelInv'
      BY <1>inv, <1>type, <1>map, <2>1 DEF CancelInv, FundingInv
    <2> QED BY <1>0, <2>2, <2>3, <2>4, <2>5, <2>6, <2>7 DEF EscrowInv
  <1>3. ASSUME NEW m \in Milestones, NEW i \in Intents, FundCommit(m, i)
        PROVE EscrowInv'
    <2>1. /\ IntentOf[i] = m /\ intent[i] = "NONE" /\ status[m] = "CREATED" /\ holder[m] = "funding"
          /\ intent' = [intent EXCEPT ![i] = "PENDING"]
          /\ holder' = [holder EXCEPT ![m] = "free"]
          /\ payment' = [payment EXCEPT ![i] = IF @ = "none" THEN "open" ELSE @]
          /\ UNCHANGED <<contract, status, refund, refundAmount, attempt, escrow, posted>>
      BY <1>3 DEF FundCommit, CreatePayment, ledgerVars, refundVars
    <2>2. \A j \in Intents : IntentOf[j] = m => intent[j] # "PENDING"
      BY <1>3 DEF FundCommit, PendingIntents
    <2>3. BalanceInv'
      BY <1>inv, <1>type, <1>map, <1>amt, <1>esc, <2>1, <2>2 DEF BalanceInv, RefundInv, WorkStatus, MilestoneStatus
    <2>4. ReversedIffFailed'
      BY <1>inv, <1>type, <1>map, <2>1, <2>2 DEF ReversedIffFailed, RefundInv
    <2>5. RefundInv'
      BY <1>inv, <1>type, <1>map, <1>amt, <1>esc, <2>1, <2>2 DEF RefundInv, BalanceInv, WorkStatus
    <2>6. FundingInv'
      BY <1>inv, <1>type, <1>map, <1>lock, <2>1, <2>2 DEF FundingInv
    <2>7. ReleaseInv'
      BY <1>inv, <1>type, <1>map, <2>1, <2>2 DEF ReleaseInv
    <2>8. CancelInv'
      BY <1>inv, <1>type, <1>map, <2>1, <2>2 DEF CancelInv, FundingInv
    <2> QED BY <1>0, <2>3, <2>4, <2>5, <2>6, <2>7, <2>8 DEF EscrowInv
  <1>4. ASSUME NEW m \in Milestones, NEW i \in Intents, FundCrash(m, i)
        PROVE EscrowInv'
    <2>1. /\ intent[i] = "NONE"
          /\ holder' = [holder EXCEPT ![m] = "free"]
          /\ payment' = [payment EXCEPT ![i] = IF @ = "none" THEN "open" ELSE @]
          /\ UNCHANGED <<contract, status, intent, refund, refundAmount, attempt, escrow, posted>>
      BY <1>4 DEF FundCrash, CreatePayment, ledgerVars, refundVars
    <2>2. BalanceInv'
      BY <1>inv, <1>type, <1>map, <1>amt, <1>esc, <2>1 DEF BalanceInv, RefundInv, WorkStatus, MilestoneStatus
    <2>3. ReversedIffFailed'
      BY <1>inv, <1>type, <1>map, <2>1 DEF ReversedIffFailed, RefundInv
    <2>4. RefundInv'
      BY <1>inv, <1>type, <1>map, <1>amt, <1>esc, <2>1 DEF RefundInv, BalanceInv, WorkStatus
    <2>5. FundingInv'
      BY <1>inv, <1>type, <1>map, <1>lock, <2>1 DEF FundingInv
    <2>6. ReleaseInv'
      BY <1>inv, <1>type, <1>map, <2>1 DEF ReleaseInv
    <2>7. CancelInv'
      BY <1>inv, <1>type, <1>map, <2>1 DEF CancelInv, FundingInv
    <2> QED BY <1>0, <2>2, <2>3, <2>4, <2>5, <2>6, <2>7 DEF EscrowInv
  <1>5. ASSUME NEW i \in Intents, ProviderPays(i)
        PROVE EscrowInv'
    <2>1. /\ payment[i] = "open"
          /\ payment' \in {[payment EXCEPT ![i] = "captured"], [payment EXCEPT ![i] = "failed"]}
          /\ UNCHANGED <<contract, status, holder, intent, refund, refundAmount, attempt, escrow, posted>>
      BY <1>5 DEF ProviderPays, ledgerVars, refundVars
    <2>2. BalanceInv'
      BY <1>inv, <1>type, <1>map, <1>amt, <1>esc, <2>1 DEF BalanceInv, RefundInv, WorkStatus, MilestoneStatus
    <2>3. ReversedIffFailed'
      BY <1>inv, <1>type, <1>map, <2>1 DEF ReversedIffFailed, RefundInv
    <2>4. RefundInv'
      BY <1>inv, <1>type, <1>map, <1>amt, <1>esc, <2>1 DEF RefundInv, BalanceInv, WorkStatus
    <2>5. FundingInv'
      BY <1>inv, <1>type, <1>map, <1>lock, <2>1 DEF FundingInv
    <2>6. ReleaseInv'
      BY <1>inv, <1>type, <1>map, <2>1 DEF ReleaseInv
    <2>7. CancelInv'
      BY <1>inv, <1>type, <1>map, <2>1 DEF CancelInv, FundingInv
    <2> QED BY <1>0, <2>2, <2>3, <2>4, <2>5, <2>6, <2>7 DEF EscrowInv
  <1>6. ASSUME NEW i \in Intents, CaptureBegin(i)
        PROVE EscrowInv'
    <2>1. /\ payment[i] = "captured" /\ intent[i] \in {"PENDING", "FAILED"} /\ contract = "ACTIVE"
          /\ holder' = [holder EXCEPT ![IntentOf[i]] = i]
          /\ UNCHANGED <<contract, status, intent, payment, refund, refundAmount, attempt, escrow, posted>>
      BY <1>6 DEF CaptureBegin, Locked, ledgerVars, refundVars
    <2>2. BalanceInv'
      BY <1>inv, <1>type, <1>map, <1>amt, <1>esc, <2>1 DEF BalanceInv, RefundInv, WorkStatus, MilestoneStatus
    <2>3. ReversedIffFailed'
      BY <1>inv, <1>type, <1>map, <2>1 DEF ReversedIffFailed, RefundInv
    <2>4. RefundInv'
      BY <1>inv, <1>type, <1>map, <1>amt, <1>esc, <2>1 DEF RefundInv, BalanceInv, WorkStatus
    <2>5. FundingInv'
      BY <1>inv, <1>type, <1>map, <1>lock, <2>1 DEF FundingInv
    <2>6. ReleaseInv'
      BY <1>inv, <1>type, <1>map, <2>1 DEF ReleaseInv
    <2>7. CancelInv'
      BY <1>inv, <1>type, <1>map, <2>1 DEF CancelInv, FundingInv
    <2> QED BY <1>0, <2>2, <2>3, <2>4, <2>5, <2>6, <2>7 DEF EscrowInv
  <1>7. ASSUME NEW i \in Intents, PaymentFailed(i)
        PROVE EscrowInv'
    <2>1. /\ payment[i] = "failed" /\ intent[i] = "PENDING" /\ holder[IntentOf[i]] # i
          /\ intent' = [intent EXCEPT ![i] = "FAILED"]
          /\ UNCHANGED <<contract, status, holder, payment, refund, refundAmount, attempt, escrow, posted>>
      BY <1>7 DEF PaymentFailed, ledgerVars, refundVars
    <2>2. \A n \in Milestones : holder[n] # i
      BY <1>inv, <2>1 DEF FundingInv
    <2>3. BalanceInv'
      BY <1>inv, <1>type, <1>map, <1>amt, <1>esc, <2>1, <2>2 DEF BalanceInv, RefundInv, WorkStatus, MilestoneStatus
    <2>4. ReversedIffFailed'
      BY <1>inv, <1>type, <1>map, <2>1, <2>2 DEF ReversedIffFailed, RefundInv
    <2>5. RefundInv'
      BY <1>inv, <1>type, <1>map, <1>amt, <1>esc, <2>1, <2>2 DEF RefundInv, BalanceInv, WorkStatus
    <2>6. FundingInv'
      BY <1>inv, <1>type, <1>map, <1>lock, <2>1, <2>2 DEF FundingInv
    <2>7. ReleaseInv'
      BY <1>inv, <1>type, <1>map, <2>1, <2>2 DEF ReleaseInv
    <2>8. CancelInv'
      BY <1>inv, <1>type, <1>map, <2>1, <2>2 DEF CancelInv, FundingInv
    <2> QED BY <1>0, <2>3, <2>4, <2>5, <2>6, <2>7, <2>8 DEF EscrowInv
  <1>8. ASSUME NEW m \in Milestones, NEW i \in Intents, CaptureCommit(m, i)
        PROVE EscrowInv'
    <2>1. /\ PostJournal("MILESTONE_FUND", i, m, IntentProvider[i], Amount[m], -Amount[m], 0, 0)
          /\ holder[m] = i
          /\ intent' = [intent EXCEPT ![i] = "CAPTURED"]
          /\ status' = [status EXCEPT ![m] = IF escrow[m] + Amount[m] = Amount[m] THEN "FUNDED" ELSE @]
          /\ holder' = [holder EXCEPT ![m] = "free"]
          /\ UNCHANGED <<contract, payment, refund, refundAmount, attempt>>
      BY <1>8 DEF CaptureCommit, refundVars
    <2>2. /\ IntentOf[i] = m /\ intent[i] = "PENDING" /\ contract = "ACTIVE" /\ status[m] = "CREATED"
          /\ escrow[m] = 0 /\ <<"MILESTONE_FUND", i>> \notin posted
      BY <1>inv, <2>1 DEF FundingInv, BalanceInv
    <2>3. /\ posted' = posted \cup {<<"MILESTONE_FUND", i>>}
          /\ \A n \in Milestones : n # m => escrow'[n] = escrow[n]
          /\ escrow'[m] = escrow[m] + Amount[m]
      BY <1>0, <1>amt, <2>1, <2>2, PostJournalEscrow
    <2>4. escrow[m] + Amount[m] = Amount[m]
      BY <1>amt, <2>2
    <2>5. status' = [status EXCEPT ![m] = "FUNDED"]
      BY <2>1, <2>4
    <2>6. BalanceInv'
      BY <1>inv, <1>type, <1>map, <1>amt, <1>esc, <2>1, <2>2, <2>3, <2>4, <2>5 DEF BalanceInv, RefundInv, WorkStatus, MilestoneStatus
    <2>7. ReversedIffFailed'
      BY <1>inv, <1>type, <1>map, <2>1, <2>2, <2>3, <2>4, <2>5 DEF ReversedIffFailed, RefundInv
    <2>8. RefundInv'
      BY <1>inv, <1>type, <1>map, <1>amt, <1>esc, <2>1, <2>2, <2>3, <2>4, <2>5 DEF RefundInv, BalanceInv, WorkStatus
    <2>9. FundingInv'
      BY <1>inv, <1>type, <1>map, <1>lock, <2>1, <2>2, <2>3, <2>4, <2>5 DEF FundingInv
    <2>10. ReleaseInv'
      BY <1>inv, <1>type, <1>map, <2>1, <2>2, <2>3, <2>4, <2>5 DEF ReleaseInv
    <2>11. CancelInv'
      BY <1>inv, <1>type, <1>map, <2>1, <2>2, <2>3, <2>4, <2>5 DEF CancelInv, FundingInv
    <2> QED BY <1>0, <2>6, <2>7, <2>8, <2>9, <2>10, <2>11 DEF EscrowInv
  <1>9. ASSUME NEW m \in Milestones, NEW from \in SUBSET (WorkStatus \cup {"FUNDED"}), NEW to \in WorkStatus,
               Transition(m, from, to), escrow[m] = Amount[m]
        PROVE EscrowInv'
    <2>1. /\ status[m] \in WorkStatus \cup {"FUNDED"} /\ status' = [status EXCEPT ![m] = to] /\ contract = "ACTIVE"
          /\ UNCHANGED <<contract, holder, intent, payment, refund, refundAmount, attempt, escrow, posted>>
      BY <1>9 DEF Transition, Locked, ledgerVars, refundVars
    <2>2. \A k \in Keys : KeyOf[k] = m => refund[k] # "PENDING"
      BY <1>9, <1>inv, <1>amt, <2>1 DEF BalanceInv, RefundInv, WorkStatus
    <2>3. to \in WorkStatus /\ escrow[m] = Amount[m]
      BY <1>9
    <2>4. BalanceInv'
      BY <1>inv, <1>type, <1>map, <1>amt, <1>esc, <2>1, <2>2, <2>3 DEF BalanceInv, RefundInv, WorkStatus, MilestoneStatus
    <2>5. ReversedIffFailed'
      BY <1>inv, <1>type, <1>map, <2>1, <2>2, <2>3 DEF ReversedIffFailed, RefundInv
    <2>6. RefundInv'
      BY <1>inv, <1>type, <1>map, <1>amt, <1>esc, <2>1, <2>2, <2>3 DEF RefundInv, BalanceInv, WorkStatus
    <2>7. FundingInv'
      BY <1>inv, <1>type, <1>map, <1>lock, <2>1, <2>2, <2>3 DEF FundingInv, WorkStatus
    <2>8. ReleaseInv'
      BY <1>inv, <1>type, <1>map, <2>1, <2>2, <2>3 DEF ReleaseInv, WorkStatus
    <2>9. CancelInv'
      BY <1>inv, <1>type, <1>map, <2>1, <2>2, <2>3 DEF CancelInv, FundingInv, WorkStatus
    <2> QED BY <1>0, <2>4, <2>5, <2>6, <2>7, <2>8, <2>9 DEF EscrowInv
  <1>10. ASSUME NEW m \in Milestones, ReleaseMilestone(m)
        PROVE EscrowInv'
    <2>1. \E p \in Providers :
            PostJournal("MILESTONE_RELEASE", m, m, p, -Amount[m], 0,
                        Amount[m] - Fee(Amount[m]), Fee(Amount[m]))
      BY <1>10 DEF ReleaseMilestone
    <2>2. /\ status[m] = "APPROVED" /\ escrow[m] = Amount[m] /\ contract = "ACTIVE"
          /\ status' = [status EXCEPT ![m] = "RELEASED"]
          /\ UNCHANGED <<contract, holder, intent, payment, refund, refundAmount, attempt>>
      BY <1>10 DEF ReleaseMilestone, Locked, refundVars
    <2>3. <<"MILESTONE_RELEASE", m>> \notin posted
      BY <1>inv, <2>2 DEF ReleaseInv
    <2>4. -Amount[m] \in Int
      BY <1>amt
    <2>5. /\ posted' = posted \cup {<<"MILESTONE_RELEASE", m>>}
          /\ \A n \in Milestones : n # m => escrow'[n] = escrow[n]
          /\ escrow'[m] = escrow[m] + (-Amount[m])
      BY <1>0, <2>1, <2>3, <2>4, PostJournalEscrow
    <2>6. BalanceInv'
      BY <1>inv, <1>type, <1>map, <1>amt, <1>esc, <2>1, <2>2, <2>3, <2>4, <2>5 DEF BalanceInv, RefundInv, WorkStatus, MilestoneStatus
    <2>7. ReversedIffFailed'
      BY <1>inv, <1>type, <1>map, <2>1, <2>2, <2>3, <2>4, <2>5 DEF ReversedIffFailed, RefundInv
    <2>8. RefundInv'
      BY <1>inv, <1>type, <1>map, <1>amt, <1>esc, <2>1, <2>2, <2>3, <2>4, <2>5 DEF RefundInv, BalanceInv, WorkStatus
    <2>9. FundingInv'
      BY <1>inv, <1>type, <1>map, <1>lock, <2>1, <2>2, <2>3, <2>4, <2>5 DEF FundingInv
    <2>10. ReleaseInv'
      BY <1>inv, <1>type, <1>map, <2>1, <2>2, <2>3, <2>4, <2>5 DEF ReleaseInv
    <2>11. CancelInv'
      BY <1>inv, <1>type, <1>map, <2>1, <2>2, <2>3, <2>4, <2>5 DEF CancelInv, FundingInv
    <2> QED BY <1>0, <2>6, <2>7, <2>8, <2>9, <2>10, <2>11 DEF EscrowInv
  <1>11. ASSUME CancelContract
        PROVE EscrowInv'
    <2>1. /\ \A m \in Milestones : status[m] = "CREATED"
          /\ \A i \in Intents : intent[i] # "PENDING"
          /\ UNCHANGED <<status, holder, intent, payment, refund, refundAmount, attempt, escrow, posted>>
      BY <1>11, <1>map DEF CancelContract, PendingIntents, ledgerVars, refundVars
    <2>2. BalanceInv'
      BY <1>inv, <1>type, <1>map, <1>amt, <1>esc, <2>1 DEF BalanceInv, RefundInv, WorkStatus, MilestoneStatus
    <2>3. ReversedIffFailed'
      BY <1>inv, <1>type, <1>map, <2>1 DEF ReversedIffFailed, RefundInv
    <2>4. RefundInv'
      BY <1>inv, <1>type, <1>map, <1>amt, <1>esc, <2>1 DEF RefundInv, BalanceInv, WorkStatus
    <2>5. FundingInv'
      BY <1>inv, <1>type, <1>map, <1>lock, <2>1 DEF FundingInv
    <2>6. ReleaseInv'
      BY <1>inv, <1>type, <1>map, <2>1 DEF ReleaseInv
    <2>7. CancelInv'
      BY <1>inv, <1>type, <1>map, <2>1 DEF CancelInv, FundingInv
    <2> QED BY <1>0, <2>2, <2>3, <2>4, <2>5, <2>6, <2>7 DEF EscrowInv
  <1>12. ASSUME NEW k \in Keys, RefundReserve(k)
        PROVE EscrowInv'
    <2>1. /\ PostJournal("MILESTONE_REFUND", k, KeyOf[k], KeyProvider[k],
                         -escrow[KeyOf[k]], escrow[KeyOf[k]], 0, 0)
          /\ refund[k] = "NONE" /\ status[KeyOf[k]] = "FUNDED" /\ escrow[KeyOf[k]] > 0
          /\ refund' = [refund EXCEPT ![k] = "PENDING"]
          /\ refundAmount' = [refundAmount EXCEPT ![k] = escrow[KeyOf[k]]]
          /\ attempt' = [attempt EXCEPT ![k] = "reserved"]
          /\ UNCHANGED <<contract, status, holder, intent, payment>>
      BY <1>12 DEF RefundReserve
    <2>2. /\ <<"MILESTONE_REFUND", k>> \notin posted /\ KeyOf[k] \in Milestones
          /\ escrow[KeyOf[k]] = Amount[KeyOf[k]] /\ -escrow[KeyOf[k]] \in Int
      BY <1>inv, <1>map, <1>esc, <2>1 DEF RefundInv, BalanceInv
    <2>3. \A j \in Keys : KeyOf[j] = KeyOf[k] => refund[j] # "PENDING"
      BY <1>inv, <1>map, <1>amt, <2>1, <2>2 DEF BalanceInv
    <2>4. /\ KeyOf[k] \in Milestones /\ -escrow[KeyOf[k]] \in Int /\ <<"MILESTONE_REFUND", k>> \notin posted
          /\ PostJournal("MILESTONE_REFUND", k, KeyOf[k], KeyProvider[k],
                         -escrow[KeyOf[k]], escrow[KeyOf[k]], 0, 0)
      BY <2>1, <2>2
    <2>5. /\ posted' = posted \cup {<<"MILESTONE_REFUND", k>>}
          /\ \A n \in Milestones : n # KeyOf[k] => escrow'[n] = escrow[n]
          /\ escrow'[KeyOf[k]] = escrow[KeyOf[k]] + (-escrow[KeyOf[k]])
      <3>1. /\ posted' = posted \cup {<<"MILESTONE_REFUND", k>>}
            /\ escrow' = [escrow EXCEPT ![KeyOf[k]] = @ + (-escrow[KeyOf[k]])]
        BY <2>4, Zenon DEF PostJournal
      <3>2. escrow \in [Milestones -> Int]
        BY <1>0 DEF TypeOK
      <3> QED BY <2>4, <3>1, <3>2
    <2>6. BalanceInv'
      BY <1>inv, <1>type, <1>map, <1>amt, <1>esc, <2>1, <2>2, <2>3, <2>4, <2>5 DEF BalanceInv, RefundInv, WorkStatus, MilestoneStatus
    <2>7. ReversedIffFailed'
      <3>1. \A j \in Keys : <<"REVERSAL", j>> \in posted' <=> <<"REVERSAL", j>> \in posted
        BY <2>5
      <3>2. \A j \in Keys : refund'[j] = "FAILED" <=> refund[j] = "FAILED"
        BY <1>type, <2>1
      <3> QED BY <1>inv, <3>1, <3>2 DEF ReversedIffFailed
    <2>8. RefundInv'
      BY <1>inv, <1>type, <1>map, <1>amt, <1>esc, <2>1, <2>2, <2>3, <2>4, <2>5 DEF RefundInv, BalanceInv, WorkStatus
    <2>9. FundingInv'
      BY <1>inv, <1>type, <1>map, <1>lock, <2>1, <2>2, <2>3, <2>4, <2>5 DEF FundingInv
    <2>10. ReleaseInv'
      BY <1>inv, <1>type, <1>map, <2>1, <2>2, <2>3, <2>4, <2>5 DEF ReleaseInv
    <2>11. CancelInv'
      BY <1>inv, <1>type, <1>map, <2>1, <2>2, <2>3, <2>4, <2>5 DEF CancelInv, FundingInv
    <2> QED BY <1>0, <2>6, <2>7, <2>8, <2>9, <2>10, <2>11 DEF EscrowInv
  <1>13. ASSUME NEW k \in Keys, RefundCall(k) \/ RefundCrash(k)
        PROVE EscrowInv'
    <2>1. UNCHANGED <<contract, status, holder, intent, payment, refund, refundAmount, escrow, posted>>
      BY <1>13 DEF RefundCall, RefundCrash, ledgerVars
    <2>2. \E a \in {"done"} \cup Answers :
            attempt' = [attempt EXCEPT ![k] = a] /\ (a # "done" => refund[k] = "PENDING")
      BY <1>13 DEF RefundCall, RefundCrash, Answers
    <2>3. BalanceInv'
      BY <1>inv, <1>type, <1>map, <1>amt, <1>esc, <2>1, <2>2 DEF BalanceInv, RefundInv, WorkStatus, MilestoneStatus
    <2>4. ReversedIffFailed'
      BY <1>inv, <1>type, <1>map, <2>1, <2>2 DEF ReversedIffFailed, RefundInv
    <2>5. RefundInv'
      BY <1>inv, <1>type, <1>map, <1>amt, <1>esc, <2>1, <2>2 DEF RefundInv, BalanceInv, WorkStatus, Answers
    <2>6. FundingInv'
      BY <1>inv, <1>type, <1>map, <1>lock, <2>1, <2>2 DEF FundingInv
    <2>7. ReleaseInv'
      BY <1>inv, <1>type, <1>map, <2>1, <2>2 DEF ReleaseInv
    <2>8. CancelInv'
      BY <1>inv, <1>type, <1>map, <2>1, <2>2 DEF CancelInv, FundingInv
    <2> QED BY <1>0, <2>3, <2>4, <2>5, <2>6, <2>7, <2>8 DEF EscrowInv
  <1>14. ASSUME NEW k \in Keys, FailRefund(k), refund[k] = "PENDING",
               attempt' \in {attempt, [attempt EXCEPT ![k] = "done"]}, attempt'[k] \notin {"reserved"} \cup Answers,
               UNCHANGED <<contract, holder, intent, payment, refundAmount>>
        PROVE EscrowInv'
    <2>1. /\ PostJournal("REVERSAL", k, KeyOf[k], KeyProvider[k],
                         refundAmount[k], -refundAmount[k], 0, 0)
          /\ refund[k] = "PENDING" /\ refund' = [refund EXCEPT ![k] = "FAILED"]
          /\ attempt' \in {attempt, [attempt EXCEPT ![k] = "done"]}
          /\ attempt'[k] \notin {"reserved"} \cup Answers
          /\ UNCHANGED <<contract, status, holder, intent, payment, refundAmount>>
      BY <1>14 DEF FailRefund
    <2>2. /\ <<"REVERSAL", k>> \notin posted /\ KeyOf[k] \in Milestones /\ refundAmount[k] \in Int
          /\ refundAmount[k] = Amount[KeyOf[k]] /\ escrow[KeyOf[k]] = 0
          /\ status[KeyOf[k]] \in {"FUNDED", "DISPUTED"}
      BY <1>inv, <1>map, <1>type, <2>1 DEF RefundInv, BalanceInv, ReversedIffFailed
    <2>3. \A j \in Keys : KeyOf[j] = KeyOf[k] /\ j # k => refund[j] # "PENDING"
      BY <1>inv, <2>1 DEF RefundInv
    <2>4. /\ posted' = posted \cup {<<"REVERSAL", k>>}
          /\ \A n \in Milestones : n # KeyOf[k] => escrow'[n] = escrow[n]
          /\ escrow'[KeyOf[k]] = escrow[KeyOf[k]] + refundAmount[k]
      BY <1>0, <2>1, <2>2, PostJournalEscrow
    <2>5. BalanceInv'
      BY <1>inv, <1>type, <1>map, <1>amt, <1>esc, <2>1, <2>2, <2>3, <2>4 DEF BalanceInv, RefundInv, WorkStatus, MilestoneStatus
    <2>6. ReversedIffFailed'
      <3>1. \A j \in Keys : <<"REVERSAL", j>> \in posted' <=> j = k \/ <<"REVERSAL", j>> \in posted
        BY <2>4
      <3>2. \A j \in Keys : refund'[j] = "FAILED" <=> j = k \/ refund[j] = "FAILED"
        BY <1>type, <2>1
      <3> QED BY <1>inv, <3>1, <3>2 DEF ReversedIffFailed
    <2>7. RefundInv'
      BY <1>inv, <1>type, <1>map, <1>amt, <1>esc, <2>1, <2>2, <2>3, <2>4 DEF RefundInv, BalanceInv, WorkStatus
    <2>8. FundingInv'
      BY <1>inv, <1>type, <1>map, <1>lock, <2>1, <2>2, <2>3, <2>4 DEF FundingInv
    <2>9. ReleaseInv'
      BY <1>inv, <1>type, <1>map, <2>1, <2>2, <2>3, <2>4 DEF ReleaseInv
    <2>10. CancelInv'
      BY <1>inv, <1>type, <1>map, <2>1, <2>2, <2>3, <2>4 DEF CancelInv, FundingInv
    <2> QED BY <1>0, <2>5, <2>6, <2>7, <2>8, <2>9, <2>10 DEF EscrowInv
  <1>15. ASSUME NEW k \in Keys, UNCHANGED <<status, refund, ledgerVars>>,
               attempt' \in {attempt, [attempt EXCEPT ![k] = "done"]}, attempt'[k] \notin {"reserved"} \cup Answers,
               UNCHANGED <<contract, holder, intent, payment, refundAmount>>
        PROVE EscrowInv'
    <2>1. /\ UNCHANGED <<contract, holder, intent, payment, refundAmount, escrow, posted>>
          /\ attempt' \in {attempt, [attempt EXCEPT ![k] = "done"]}
          /\ attempt'[k] \notin {"reserved"} \cup Answers
          /\ UNCHANGED <<status, refund>>
      BY <1>15 DEF ledgerVars
    <2>2. BalanceInv'
      BY <1>inv, <1>type, <1>map, <1>amt, <1>esc, <2>1 DEF BalanceInv, RefundInv, WorkStatus, MilestoneStatus
    <2>3. ReversedIffFailed'
      BY <1>inv, <1>type, <1>map, <2>1 DEF ReversedIffFailed, RefundInv
    <2>4. RefundInv'
      BY <1>inv, <1>type, <1>map, <1>amt, <1>esc, <2>1 DEF RefundInv, BalanceInv, WorkStatus
    <2>5. FundingInv'
      BY <1>inv, <1>type, <1>map, <1>lock, <2>1 DEF FundingInv
    <2>6. ReleaseInv'
      BY <1>inv, <1>type, <1>map, <2>1 DEF ReleaseInv
    <2>7. CancelInv'
      BY <1>inv, <1>type, <1>map, <2>1 DEF CancelInv, FundingInv
    <2> QED BY <1>0, <2>2, <2>3, <2>4, <2>5, <2>6, <2>7 DEF EscrowInv
  <1>16. ASSUME NEW k \in Keys, refund[k] = "PENDING", status[KeyOf[k]] = "FUNDED", UNCHANGED ledgerVars,
               refund' = [refund EXCEPT ![k] = "SUCCEEDED"],
               status' = [status EXCEPT ![KeyOf[k]] = "CREATED"],
               attempt' \in {attempt, [attempt EXCEPT ![k] = "done"]}, attempt'[k] \notin {"reserved"} \cup Answers,
               UNCHANGED <<contract, holder, intent, payment, refundAmount>>
        PROVE EscrowInv'
    <2>1. /\ UNCHANGED <<contract, holder, intent, payment, refundAmount, escrow, posted>>
          /\ attempt' \in {attempt, [attempt EXCEPT ![k] = "done"]}
          /\ attempt'[k] \notin {"reserved"} \cup Answers
          /\ refund[k] = "PENDING" /\ status[KeyOf[k]] = "FUNDED"
          /\ refund' = [refund EXCEPT ![k] = "SUCCEEDED"]
          /\ status' = [status EXCEPT ![KeyOf[k]] = "CREATED"]
      BY <1>16 DEF ledgerVars
    <2>2. KeyOf[k] \in Milestones /\ escrow[KeyOf[k]] = 0
      BY <1>inv, <1>map, <2>1 DEF RefundInv, BalanceInv
    <2>3. \A j \in Keys : KeyOf[j] = KeyOf[k] /\ j # k => refund[j] # "PENDING"
      BY <1>inv, <2>1 DEF RefundInv
    <2>4. BalanceInv'
      BY <1>inv, <1>type, <1>map, <1>amt, <1>esc, <2>1, <2>2, <2>3 DEF BalanceInv, RefundInv, WorkStatus, MilestoneStatus
    <2>5. ReversedIffFailed'
      <3>1. \A j \in Keys : refund'[j] = "FAILED" <=> refund[j] = "FAILED"
        BY <1>type, <2>1
      <3> QED BY <1>inv, <2>1, <3>1 DEF ReversedIffFailed
    <2>6. RefundInv'
      BY <1>inv, <1>type, <1>map, <1>amt, <1>esc, <2>1, <2>2, <2>3 DEF RefundInv, BalanceInv, WorkStatus
    <2>7. FundingInv'
      BY <1>inv, <1>type, <1>map, <1>lock, <2>1, <2>2, <2>3 DEF FundingInv
    <2>8. ReleaseInv'
      BY <1>inv, <1>type, <1>map, <2>1, <2>2, <2>3 DEF ReleaseInv
    <2>9. CancelInv'
      BY <1>inv, <1>type, <1>map, <2>1, <2>2, <2>3 DEF CancelInv, FundingInv
    <2> QED BY <1>0, <2>4, <2>5, <2>6, <2>7, <2>8, <2>9 DEF EscrowInv
  <1>17. ASSUME NEW m \in Milestones, OpenDispute(m)
        PROVE EscrowInv'
    <2>1. /\ status[m] \in WorkStatus \cup {"FUNDED"} /\ contract = "ACTIVE"
          /\ status' = [status EXCEPT ![m] = "DISPUTED"]
          /\ UNCHANGED <<contract, holder, intent, payment, refund, refundAmount, attempt, escrow, posted>>
      BY <1>17 DEF OpenDispute, Locked, WorkStatus, ledgerVars, refundVars
    <2>2. BalanceInv'
      BY <1>inv, <1>type, <1>map, <1>amt, <1>esc, <2>1 DEF BalanceInv, RefundInv, WorkStatus, MilestoneStatus
    <2>3. ReversedIffFailed'
      BY <1>inv, <1>type, <1>map, <2>1 DEF ReversedIffFailed, RefundInv
    <2>4. RefundInv'
      BY <1>inv, <1>type, <1>map, <1>amt, <1>esc, <2>1 DEF RefundInv, BalanceInv, WorkStatus
    <2>5. FundingInv'
      BY <1>inv, <1>type, <1>map, <1>lock, <2>1 DEF FundingInv, WorkStatus
    <2>6. ReleaseInv'
      BY <1>inv, <1>type, <1>map, <2>1 DEF ReleaseInv, WorkStatus
    <2>7. CancelInv'
      BY <1>inv, <1>type, <1>map, <2>1 DEF CancelInv, FundingInv, WorkStatus
    <2> QED BY <1>0, <2>2, <2>3, <2>4, <2>5, <2>6, <2>7 DEF EscrowInv
  <1>18. ASSUME NEW m \in Milestones, NEW d \in DecisionKeys, NEW a \in 0..Amount[m],
                ResolveDispute(m, d, a)
        PROVE EscrowInv'
    <2>1. \E i \in Intents :
            PostJournal("DISPUTE_RESOLUTION", m, m, IntentProvider[i], -Amount[m],
                        Amount[m] - a, a - Fee(a), Fee(a))
      BY <1>18 DEF ResolveDispute
    <2>2. /\ status[m] = "DISPUTED" /\ escrow[m] = Amount[m]
          /\ status' = [status EXCEPT ![m] = "RELEASED"]
          /\ UNCHANGED <<contract, holder, intent, payment, refund, refundAmount, attempt>>
      BY <1>18 DEF ResolveDispute, Resolvable, refundVars
    <2>3. <<"DISPUTE_RESOLUTION", m>> \notin posted
      BY <1>inv, <2>2 DEF ReleaseInv
    <2>4. -Amount[m] \in Int
      BY <1>amt
    <2>5. \A k \in Keys : KeyOf[k] = m => refund[k] # "PENDING"
      BY <1>inv, <1>amt, <2>2 DEF BalanceInv
    <2>6. /\ posted' = posted \cup {<<"DISPUTE_RESOLUTION", m>>}
          /\ \A n \in Milestones : n # m => escrow'[n] = escrow[n]
          /\ escrow'[m] = escrow[m] + (-Amount[m])
      BY <1>0, <2>1, <2>3, <2>4 DEF PostJournal, TypeOK
    <2>7. BalanceInv'
      BY <1>inv, <1>type, <1>map, <1>amt, <1>esc, <2>1, <2>2, <2>3, <2>4, <2>5, <2>6 DEF BalanceInv, RefundInv, WorkStatus, MilestoneStatus
    <2>8. ReversedIffFailed'
      BY <1>inv, <1>type, <1>map, <2>1, <2>2, <2>3, <2>4, <2>5, <2>6 DEF ReversedIffFailed, RefundInv
    <2>9. RefundInv'
      BY <1>inv, <1>type, <1>map, <1>amt, <1>esc, <2>1, <2>2, <2>3, <2>4, <2>5, <2>6 DEF RefundInv, BalanceInv, WorkStatus
    <2>10. FundingInv'
      BY <1>inv, <1>type, <1>map, <1>lock, <2>1, <2>2, <2>3, <2>4, <2>5, <2>6 DEF FundingInv
    <2>11. ReleaseInv'
      BY <1>inv, <1>type, <1>map, <2>1, <2>2, <2>3, <2>4, <2>5, <2>6 DEF ReleaseInv
    <2>12. CancelInv'
      BY <1>inv, <1>type, <1>map, <2>1, <2>2, <2>3, <2>4, <2>5, <2>6 DEF CancelInv, FundingInv
    <2> QED BY <1>0, <2>7, <2>8, <2>9, <2>10, <2>11, <2>12 DEF EscrowInv
  <1>19. ASSUME NEW k \in Keys, NEW answer \in Answers, SettleRefund(k, answer), refund[k] = "PENDING",
                attempt' \in {attempt, [attempt EXCEPT ![k] = "done"]}, attempt'[k] \notin {"reserved"} \cup Answers,
                UNCHANGED <<contract, holder, intent, payment, refundAmount>>
         PROVE EscrowInv'
    BY <1>19, <1>14, <1>15, <1>16 DEF SettleRefund
  <1>20. ASSUME NEW k \in Keys, RefundSettle(k) PROVE EscrowInv'
    <2>1. /\ attempt[k] \in Answers /\ SettleRefund(k, attempt[k])
          /\ attempt' = [attempt EXCEPT ![k] = "done"]
          /\ UNCHANGED <<contract, holder, intent, payment, refundAmount>>
      BY <1>20 DEF RefundSettle
    <2>2. refund[k] = "PENDING"
      BY <1>inv, <2>1 DEF RefundInv
    <2>3. attempt'[k] \notin {"reserved"} \cup Answers
      BY <1>type, <2>1 DEF Answers
    <2> QED BY <1>19, <2>1, <2>2, <2>3
  <1>21. ASSUME NEW k \in Keys, RefundReplay(k) PROVE EscrowInv'
    <2>1. PICK answer \in Answers :
            \/ UNCHANGED <<status, refund, refundRef, ledgerVars>>
            \/ SettleRefund(k, answer)
      BY <1>21 DEF RefundReplay
    <2>2. /\ refund[k] = "PENDING" /\ attempt[k] = "done" /\ attempt' = attempt
          /\ UNCHANGED <<contract, holder, intent, payment, refundAmount>>
      BY <1>21 DEF RefundReplay
    <2>3. attempt'[k] \notin {"reserved"} \cup Answers
      BY <2>2 DEF Answers
    <2> QED BY <1>19, <1>15, <2>1, <2>2, <2>3
  <1>22. ASSUME NEW m \in Milestones, StartMilestone(m) PROVE EscrowInv'
    <2>1. Transition(m, {"FUNDED"}, "IN_PROGRESS") /\ escrow[m] = Amount[m]
      BY <1>22 DEF StartMilestone, FullyFunded
    <2> QED BY <1>9, <2>1 DEF WorkStatus
  <1>23. ASSUME NEW m \in Milestones, SubmitMilestone(m) \/ RequestChanges(m) \/ ApproveMilestone(m)
         PROVE EscrowInv'
    <2>1. PICK from \in SUBSET WorkStatus, to \in WorkStatus : Transition(m, from, to)
      BY <1>23 DEF SubmitMilestone, RequestChanges, ApproveMilestone, WorkStatus
    <2>2. escrow[m] = Amount[m]
      BY <1>inv, <2>1 DEF Transition, BalanceInv
    <2> QED BY <1>9, <2>1, <2>2
  <1>24. ASSUME NEW m \in Milestones,
                \/ \E to \in DisputeStatus : AdminTransition(m, to)
                \/ \E d \in DecisionKeys, a \in 0..Amount[m] : ResolveCrash(m, d, a)
         PROVE EscrowInv'
    BY <1>1, <1>24 DEF AdminTransition, ResolveCrash, escrowVars, ledgerVars
  <1>25. CASE UNCHANGED vars
    BY <1>1, <1>25 DEF vars, escrowVars, ledgerVars
  <1> QED
    BY <1>2, <1>3, <1>4, <1>5, <1>6, <1>7, <1>8, <1>10,
       <1>11, <1>12, <1>13, <1>17, <1>18, <1>20, <1>21, <1>22, <1>23, <1>24, <1>25, ResolutionAmountsRange
    DEF Next, EscrowNext, DisputesNext

\* The initial state satisfies the type invariant.
LEMMA InitTypeOK == Init => TypeOK
  BY DEF Init, LedgerInit, EscrowInit, DisputesInit, TypeOK, ContractStatus, MilestoneStatus,
         DisputeStatus

\* The initial state satisfies the inductive invariant.
LEMMA InitEscrowInv == Init => EscrowInv
  <1> SUFFICES ASSUME Init PROVE EscrowInv
    OBVIOUS
  <1>1. \A i \in Intents : IntentOf[i] \in Milestones /\ i # "free"
    BY ConstantsAssumption
  <1>2. \A k \in Keys : KeyOf[k] \in Milestones
    BY ConstantsAssumption
  <1> QED
    BY <1>1, <1>2, InitTypeOK
    DEF Init, LedgerInit, EscrowInit, EscrowInv, BalanceInv, ReversedIffFailed, RefundInv,
        FundingInv, ReleaseInv, CancelInv, WorkStatus, Answers

\* The inductive invariant holds in every reachable state.
THEOREM EscrowInvariant ==
  ASSUME ~Overlap, ~LateCapture PROVE Spec => []EscrowInv
  <1>1. Init => EscrowInv
    BY InitEscrowInv
  <1>2. EscrowInv /\ [Next]_vars => EscrowInv'
    BY EscrowStep
  <1> QED BY <1>1, <1>2, PTL DEF Spec

\* BalanceInv is the invariant the runs check, for every contract.
THEOREM EscrowAlwaysMatchesStatus ==
  ASSUME ~Overlap, ~LateCapture PROVE Spec => []EscrowMatchesStatus
  <1>1. EscrowInv => EscrowMatchesStatus
    BY DEF EscrowInv, BalanceInv, EscrowMatchesStatus, PendingRefunds
  <1> QED BY <1>1, EscrowInvariant, PTL

\* A refund's reservation is reversed exactly when the refund ended FAILED.
THEOREM ReversalsMatchFailures ==
  ASSUME ~Overlap, ~LateCapture PROVE Spec => []ReversedIffFailed
  <1>1. EscrowInv => ReversedIffFailed
    BY DEF EscrowInv
  <1> QED BY <1>1, EscrowInvariant, PTL

\* A cancelled contract holds no money, although cancellation can overtake a
\* funding request that has read the contract as active.
THEOREM CancelledStaysEmpty ==
  ASSUME ~Overlap, ~LateCapture PROVE Spec => []CancelledIsEmpty
  <1>1. EscrowInv => CancelledIsEmpty
    BY DEF EscrowInv, BalanceInv, CancelInv, CancelledIsEmpty
  <1> QED BY <1>1, EscrowInvariant, PTL

\* A milestone leaves FUNDED for CREATED only by the success of its pending refund.
THEOREM RefundsCommitOnce ==
  ASSUME ~Overlap, ~LateCapture PROVE Spec => RefundCommitsOnce
  <1> DEFINE Once == \A m \in Milestones :
               status[m] = "FUNDED" /\ status'[m] = "CREATED" =>
                 \E k \in PendingRefunds(m) : refund'[k] = "SUCCEEDED"
  <1>1. EscrowInv /\ [Next]_vars => [Once]_vars
    <2> SUFFICES ASSUME EscrowInv, Next PROVE Once
      OBVIOUS
    <2>0. status \in [Milestones -> MilestoneStatus]
      BY DEF EscrowInv, TypeOK
    <2>1. ASSUME UNCHANGED status PROVE Once
      BY <2>1
    <2>2. ASSUME NEW m \in Milestones, NEW s, s # "CREATED" \/ s = status[m],
                 status' = [status EXCEPT ![m] = s]
          PROVE Once
      BY <2>0, <2>2
    <2>3. ASSUME NEW k \in Keys, NEW answer \in Answers, SettleRefund(k, answer), refund[k] = "PENDING"
          PROVE Once
      <3>1. KeyOf[k] \in Milestones
        BY ConstantsAssumption
      <3>2. \/ UNCHANGED status
            \/ /\ status' = [status EXCEPT ![KeyOf[k]] = "CREATED"]
               /\ refund' = [refund EXCEPT ![k] = "SUCCEEDED"]
        BY <2>3 DEF SettleRefund, FailRefund
      <3>3. refund \in [Keys -> {"NONE", "PENDING", "SUCCEEDED", "FAILED"}]
        BY DEF EscrowInv, TypeOK
      <3> QED BY <2>0, <2>1, <2>3, <3>1, <3>2, <3>3 DEF PendingRefunds
    <2>4. ASSUME NEW k \in Keys, RefundSettle(k) PROVE Once
      <3>1. attempt[k] \in Answers /\ SettleRefund(k, attempt[k])
        BY <2>4 DEF RefundSettle
      <3>2. refund[k] = "PENDING"
        BY <3>1 DEF EscrowInv, RefundInv
      <3> QED BY <2>3, <3>1, <3>2
    <2>5. ASSUME NEW k \in Keys, RefundReplay(k) PROVE Once
      BY <2>1, <2>3, <2>5 DEF RefundReplay
    <2>6. ASSUME NEW m \in Milestones, NEW i \in Intents, CaptureCommit(m, i) PROVE Once
      <3>1. \E s : (s # "CREATED" \/ s = status[m]) /\ status' = [status EXCEPT ![m] = s]
        BY <2>6 DEF CaptureCommit
      <3> QED BY <2>2, <3>1
    <2>7. ASSUME NEW m \in Milestones,
                 \/ StartMilestone(m) \/ SubmitMilestone(m) \/ RequestChanges(m) \/ ApproveMilestone(m)
                 \/ ReleaseMilestone(m) \/ OpenDispute(m)
                 \/ \E d \in DecisionKeys, a \in 0..Amount[m] : ResolveDispute(m, d, a)
          PROVE Once
      <3>1. \E s : s # "CREATED" /\ status' = [status EXCEPT ![m] = s]
        BY <2>7 DEF StartMilestone, FullyFunded, SubmitMilestone, RequestChanges, ApproveMilestone, Transition,
                    ReleaseMilestone, OpenDispute, ResolveDispute
      <3> QED BY <2>2, <3>1
    <2>8. ASSUME NEW m \in Milestones,
                 \/ FundBegin(m) \/ Rollback(m)
                 \/ \E i \in Intents : FundCommit(m, i) \/ FundCrash(m, i)
                 \/ \E to \in DisputeStatus : AdminTransition(m, to)
                 \/ \E d \in DecisionKeys, a \in 0..Amount[m] : ResolveCrash(m, d, a)
          PROVE Once
      BY <2>1, <2>8 DEF FundBegin, Rollback, FundCommit, FundCrash, AdminTransition, ResolveCrash,
                        escrowVars
    <2>9. ASSUME \/ CancelContract
                 \/ \E i \in Intents : ProviderPays(i) \/ CaptureBegin(i) \/ PaymentFailed(i)
                 \/ \E k \in Keys : RefundReserve(k) \/ RefundCall(k) \/ RefundCrash(k)
          PROVE Once
      BY <2>1, <2>9 DEF CancelContract, ProviderPays, CaptureBegin, PaymentFailed, RefundReserve,
                        RefundCall, RefundCrash
    <2> QED BY <2>4, <2>5, <2>6, <2>7, <2>8, <2>9, ResolutionAmountsRange DEF Next, EscrowNext, DisputesNext
  <1> QED BY <1>1, EscrowInvariant, PTL DEF Spec, RefundCommitsOnce
-----------------------------------------------------------------------------
(***************************************************************************)
(* EscrowSystem implements EscrowBox.  The inductive invariant says which  *)
(* balance goes with which phase, so a step is a step of the box as soon   *)
(* as it moves the phase of one milestone along one of the box's edges.    *)
(***************************************************************************)

\* The balance that goes with a phase.
CashInv ==
  \A m \in Milestones : escrow[m] = IF Phase(m) = "held" THEN Amount[m] ELSE 0

Edges == {<<"open", "held">>, <<"held", "reserved">>, <<"reserved", "open">>,
          <<"reserved", "held">>, <<"held", "closed">>}

\* What a phase says of the milestone's status and refunds.
LEMMA PhaseMeaning ==
  ASSUME NEW m \in Milestones, TypeOK
  PROVE  /\ status[m] = "CREATED" => Phase(m) = "open"
         /\ status[m] = "RELEASED" => Phase(m) = "closed"
         /\ status[m] \notin {"CREATED", "RELEASED"}
              /\ (\A k \in Keys : KeyOf[k] = m => refund[k] # "PENDING") => Phase(m) = "held"
         /\ status[m] \notin {"CREATED", "RELEASED"}
              /\ (\E k \in Keys : KeyOf[k] = m /\ refund[k] = "PENDING") => Phase(m) = "reserved"
  BY DEF Phase, PendingRefunds

\* The same after a step.
LEMMA PhaseMeaningNext ==
  ASSUME NEW m \in Milestones, TypeOK'
  PROVE  /\ status'[m] = "CREATED" => Phase(m)' = "open"
         /\ status'[m] = "RELEASED" => Phase(m)' = "closed"
         /\ status'[m] \notin {"CREATED", "RELEASED"}
              /\ (\A k \in Keys : KeyOf[k] = m => refund'[k] # "PENDING") => Phase(m)' = "held"
         /\ status'[m] \notin {"CREATED", "RELEASED"}
              /\ (\E k \in Keys : KeyOf[k] = m /\ refund'[k] = "PENDING") => Phase(m)' = "reserved"
  BY DEF Phase, PendingRefunds

\* The balance follows from the phase.
LEMMA CashFollows == EscrowInv => CashInv
  <1> SUFFICES ASSUME EscrowInv, NEW m \in Milestones
               PROVE  escrow[m] = IF Phase(m) = "held" THEN Amount[m] ELSE 0
    BY DEF CashInv
  <1>0. TypeOK /\ BalanceInv /\ RefundInv
    BY DEF EscrowInv
  <1>1. status[m] \in MilestoneStatus
    BY <1>0 DEF TypeOK
  <1>2. CASE status[m] \in {"CREATED", "RELEASED"}
    <2>1. Phase(m) # "held"
      BY <1>0, <1>2, PhaseMeaning
    <2> QED BY <1>0, <1>2, <2>1 DEF BalanceInv
  <1>3. CASE status[m] \in WorkStatus
    <2>1. \A k \in Keys : KeyOf[k] = m => refund[k] # "PENDING"
      BY <1>0, <1>3 DEF RefundInv, WorkStatus
    <2>2. Phase(m) = "held"
      BY <1>0, <1>3, <2>1, PhaseMeaning DEF WorkStatus
    <2> QED BY <1>0, <1>3, <2>2 DEF BalanceInv
  <1>4. CASE status[m] \in {"FUNDED", "DISPUTED"}
    <2>1. CASE \A k \in Keys : KeyOf[k] = m => refund[k] # "PENDING"
      <3>1. Phase(m) = "held"
        BY <1>0, <1>4, <2>1, PhaseMeaning
      <3> QED BY <1>0, <1>4, <2>1, <3>1 DEF BalanceInv
    <2>2. CASE \E k \in Keys : KeyOf[k] = m /\ refund[k] = "PENDING"
      <3>1. Phase(m) = "reserved"
        BY <1>0, <1>4, <2>2, PhaseMeaning
      <3> QED BY <1>0, <1>4, <2>2, <3>1 DEF BalanceInv
    <2> QED BY <2>1, <2>2
  <1> QED BY <1>1, <1>2, <1>3, <1>4 DEF MilestoneStatus, WorkStatus

\* The same after a step.
LEMMA CashFollowsNext == EscrowInv' => CashInv'
  BY CashFollows, PTL

\* A step that moves the phase of one milestone along an edge of the box, and
\* of no other milestone, is a step of the box.
LEMMA EdgeIsBoxStep ==
  ASSUME EscrowInv, EscrowInv', NEW m \in Milestones,
         \A n \in Milestones : n # m => Phase(n)' = Phase(n),
         <<Phase(m), Phase(m)'>> \in Edges
  PROVE  Box!BoxNext
  <1>1. CashInv /\ CashInv'
    BY CashFollows, CashFollowsNext
  <1>2. escrow \in [Milestones -> Int] /\ escrow' \in [Milestones -> Int]
    BY DEF EscrowInv, TypeOK
  <1> DEFINE phase == [n \in Milestones |-> Phase(n)]
             paid == IF Phase(m)' = "held" THEN Amount[m] ELSE 0
  <1>3. phase' = [phase EXCEPT ![m] = Phase(m)']
    OBVIOUS
  <1>4. escrow' = [escrow EXCEPT ![m] = paid]
    BY <1>1, <1>2 DEF CashInv
  <1>5. phase[m] = Phase(m)
    OBVIOUS
  <1>6. Box!Move(m, Phase(m), Phase(m)', paid)
    BY <1>3, <1>4, <1>5 DEF Box!Move
  <1>7. \/ Box!Move(m, "open", "held", Amount[m])
        \/ Box!Move(m, "held", "reserved", 0)
        \/ Box!Move(m, "reserved", "open", 0)
        \/ Box!Move(m, "reserved", "held", Amount[m])
        \/ Box!Move(m, "held", "closed", 0)
    <2> HIDE DEF phase
    <2> QED BY <1>6 DEF Edges
  <1> QED
    BY <1>7 DEF Box!BoxNext, Box!Deposit, Box!SetAside, Box!Refunded, Box!PutBack, Box!PayOut

\* A step that moves no phase leaves the box alone.
LEMMA NoEdgeIsStutter ==
  ASSUME EscrowInv, EscrowInv', \A n \in Milestones : Phase(n)' = Phase(n)
  PROVE  UNCHANGED Box!boxVars
  <1>1. CashInv /\ CashInv'
    BY CashFollows, CashFollowsNext
  <1>2. escrow \in [Milestones -> Int] /\ escrow' \in [Milestones -> Int]
    BY DEF EscrowInv, TypeOK
  <1>3. escrow' = escrow
    BY <1>1, <1>2 DEF CashInv
  <1> QED BY <1>3 DEF Box!boxVars

\* Every step of the escrow is a step of the box, or leaves the box alone.
LEMMA BoxStep ==
  ASSUME ~Overlap, ~LateCapture, EscrowInv, [Next]_vars
  PROVE  [Box!BoxNext]_(Box!boxVars)
  <1>0. EscrowInv' /\ TypeOK /\ TypeOK' /\ BalanceInv /\ RefundInv /\ FundingInv
    BY EscrowStep DEF EscrowInv
  <1>type. /\ status \in [Milestones -> MilestoneStatus]
           /\ refund \in [Keys -> {"NONE", "PENDING", "SUCCEEDED", "FAILED"}]
           /\ \A n \in Milestones : escrow[n] \in Int
    BY <1>0 DEF TypeOK
  <1>map. /\ \A i \in Intents : IntentOf[i] \in Milestones
          /\ \A k \in Keys : KeyOf[k] \in Milestones
          /\ \A n \in Milestones : Amount[n] \in Int /\ Amount[n] > 0
    BY ConstantsAssumption
  <1> DEFINE Free(m) == \A k \in Keys : KeyOf[k] = m => refund[k] # "PENDING"
             Inside(m) == status[m] \notin {"CREATED", "RELEASED"}
  \* What a step does to statuses and refunds decides what it does to the box.
  <1>1. ASSUME UNCHANGED <<status, refund>>
        PROVE  UNCHANGED Box!boxVars
    <2>1. \A n \in Milestones : Phase(n)' = Phase(n)
      BY <1>1 DEF Phase, PendingRefunds
    <2> QED BY <1>0, <2>1, NoEdgeIsStutter
  <1>2. ASSUME NEW m \in Milestones, NEW s \in MilestoneStatus, UNCHANGED refund,
               status' = [status EXCEPT ![m] = s], Inside(m), s \notin {"CREATED", "RELEASED"}
        PROVE  UNCHANGED Box!boxVars
    <2>1. \A n \in Milestones : n # m => status'[n] = status[n]
      BY <1>type, <1>2
    <2>2. status'[m] = s
      BY <1>type, <1>2
    <2>3. \A n \in Milestones : Phase(n)' = Phase(n)
      BY <1>2, <2>1, <2>2 DEF Phase, PendingRefunds
    <2> QED BY <1>0, <2>3, NoEdgeIsStutter
  <1>3. ASSUME NEW m \in Milestones, UNCHANGED refund, Free(m),
               \/ status[m] = "CREATED" /\ status' = [status EXCEPT ![m] = "FUNDED"]
               \/ Inside(m) /\ status' = [status EXCEPT ![m] = "RELEASED"]
        PROVE  Box!BoxNext
    <2>1. \A n \in Milestones : n # m => status'[n] = status[n]
      BY <1>type, <1>3
    <2>2. \A n \in Milestones : n # m => Phase(n)' = Phase(n)
      BY <1>3, <2>1 DEF Phase, PendingRefunds
    <2>3. \/ status[m] = "CREATED" /\ status'[m] = "FUNDED"
          \/ Inside(m) /\ status'[m] = "RELEASED"
      BY <1>type, <1>3
    <2>4. \A k \in Keys : KeyOf[k] = m => refund'[k] # "PENDING"
      BY <1>3
    <2>5. CASE status[m] = "CREATED" /\ status'[m] = "FUNDED"
      <3>1. Phase(m) = "open" /\ Phase(m)' = "held"
        BY <1>0, <2>4, <2>5, PhaseMeaning, PhaseMeaningNext
      <3> QED BY <1>0, <2>2, <3>1, EdgeIsBoxStep DEF Edges
    <2>6. CASE Inside(m) /\ status'[m] = "RELEASED"
      <3>1. Phase(m) = "held" /\ Phase(m)' = "closed"
        BY <1>0, <1>3, <2>6, PhaseMeaning, PhaseMeaningNext
      <3> QED BY <1>0, <2>2, <3>1, EdgeIsBoxStep DEF Edges
    <2> QED BY <2>3, <2>5, <2>6
  <1>4. ASSUME NEW k \in Keys, NEW s \in {"SUCCEEDED", "FAILED"}, refund[k] = "PENDING",
               refund' = [refund EXCEPT ![k] = s],
               \/ s = "FAILED" /\ UNCHANGED status
               \/ s = "SUCCEEDED" /\ status' = [status EXCEPT ![KeyOf[k]] = "CREATED"]
        PROVE  Box!BoxNext
    <2>1. KeyOf[k] \in Milestones /\ status[KeyOf[k]] \in {"FUNDED", "DISPUTED"}
      BY <1>0, <1>map, <1>4 DEF RefundInv
    <2>2. \A n \in Milestones : n # KeyOf[k] => status'[n] = status[n]
      BY <1>type, <1>4, <2>1
    <2>3. \A j \in Keys : j # k => refund'[j] = refund[j]
      BY <1>type, <1>4
    <2>4. \A n \in Milestones : n # KeyOf[k] => Phase(n)' = Phase(n)
      BY <2>2, <2>3 DEF Phase, PendingRefunds
    <2>5. Phase(KeyOf[k]) = "reserved"
      BY <1>0, <1>4, <2>1, PhaseMeaning
    <2>6. \A j \in Keys : KeyOf[j] = KeyOf[k] => refund'[j] # "PENDING"
      BY <1>0, <1>type, <1>4, <2>3 DEF RefundInv
    <2>7. Phase(KeyOf[k])' \in {"held", "open"}
      <3>1. CASE UNCHANGED status
        BY <1>0, <2>1, <2>6, <3>1, PhaseMeaningNext
      <3>2. CASE status' = [status EXCEPT ![KeyOf[k]] = "CREATED"]
        BY <1>0, <1>type, <2>1, <3>2, PhaseMeaningNext
      <3> QED BY <1>4, <3>1, <3>2
    <2> QED BY <1>0, <2>1, <2>4, <2>5, <2>7, EdgeIsBoxStep DEF Edges
  <1>5. ASSUME NEW k \in Keys, RefundReserve(k)
        PROVE  Box!BoxNext
    <2>1. /\ refund' = [refund EXCEPT ![k] = "PENDING"] /\ status' = status
          /\ status[KeyOf[k]] = "FUNDED" /\ escrow[KeyOf[k]] > 0
      BY <1>5 DEF RefundReserve
    <2>2. Free(KeyOf[k]) /\ KeyOf[k] \in Milestones
      BY <1>0, <1>map, <2>1 DEF BalanceInv
    <2>3. \A j \in Keys : j # k => refund'[j] = refund[j]
      BY <1>type, <2>1
    <2>4. refund'[k] = "PENDING"
      BY <1>type, <2>1
    <2>5. \A n \in Milestones : n # KeyOf[k] => Phase(n)' = Phase(n)
      BY <2>1, <2>3 DEF Phase, PendingRefunds
    <2>6. Phase(KeyOf[k]) = "held" /\ Phase(KeyOf[k])' = "reserved"
      BY <1>0, <2>1, <2>2, <2>4, PhaseMeaning, PhaseMeaningNext
    <2> QED BY <1>0, <2>2, <2>5, <2>6, EdgeIsBoxStep DEF Edges
  <1>6. ASSUME NEW k \in Keys, NEW answer \in Answers, SettleRefund(k, answer), refund[k] = "PENDING"
        PROVE  [Box!BoxNext]_(Box!boxVars)
    <2>1. \/ UNCHANGED <<status, refund>>
          \/ refund' = [refund EXCEPT ![k] = "FAILED"] /\ UNCHANGED status
          \/ /\ refund' = [refund EXCEPT ![k] = "SUCCEEDED"]
             /\ status' = [status EXCEPT ![KeyOf[k]] = "CREATED"]
      BY <1>6 DEF SettleRefund, FailRefund
    <2> QED BY <1>1, <1>4, <1>6, <2>1
  \* One step per group of actions.
  <1>7. ASSUME NEW k \in Keys, RefundSettle(k) PROVE [Box!BoxNext]_(Box!boxVars)
    <2>1. attempt[k] \in Answers /\ SettleRefund(k, attempt[k])
      BY <1>7 DEF RefundSettle
    <2>2. refund[k] = "PENDING"
      BY <1>0, <2>1 DEF RefundInv
    <2> QED BY <1>6, <2>1, <2>2
  <1>8. ASSUME NEW k \in Keys, RefundReplay(k) PROVE [Box!BoxNext]_(Box!boxVars)
    BY <1>1, <1>6, <1>8 DEF RefundReplay
  <1>9. ASSUME NEW m \in Milestones, NEW i \in Intents, CaptureCommit(m, i) PROVE Box!BoxNext
    <2>1. holder[m] = i /\ UNCHANGED refund
      BY <1>9 DEF CaptureCommit, refundVars
    <2>2. IntentOf[i] = m /\ intent[i] = "PENDING"
      BY <1>0, <2>1 DEF FundingInv
    <2>3. status[m] = "CREATED" /\ escrow[m] = 0
      BY <1>0, <2>2 DEF FundingInv, BalanceInv
    <2>4. escrow[m] + Amount[m] = Amount[m]
      BY <1>map, <2>3
    <2>5. status' = [status EXCEPT ![m] = "FUNDED"]
      BY <1>9, <2>4 DEF CaptureCommit
    <2>6. Free(m)
      BY <1>0, <2>3 DEF RefundInv
    <2> QED BY <1>3, <2>1, <2>3, <2>5, <2>6
  <1>10. ASSUME NEW m \in Milestones, ReleaseMilestone(m) PROVE Box!BoxNext
    <2>1. status[m] = "APPROVED" /\ UNCHANGED refund /\ status' = [status EXCEPT ![m] = "RELEASED"]
      BY <1>10 DEF ReleaseMilestone, refundVars
    <2>2. Free(m)
      BY <1>0, <2>1 DEF RefundInv
    <2> QED BY <1>3, <2>1, <2>2
  <1>11. ASSUME NEW m \in Milestones, NEW d \in DecisionKeys, NEW a \in 0..Amount[m],
                ResolveDispute(m, d, a)
         PROVE Box!BoxNext
    <2>1. /\ status[m] = "DISPUTED" /\ escrow[m] = Amount[m] /\ UNCHANGED refund
          /\ status' = [status EXCEPT ![m] = "RELEASED"]
      BY <1>11 DEF ResolveDispute, Resolvable, refundVars
    <2>2. Free(m)
      BY <1>0, <1>map, <2>1 DEF BalanceInv
    <2> QED BY <1>3, <2>1, <2>2
  <1>12. ASSUME NEW m \in Milestones,
                \/ StartMilestone(m) \/ SubmitMilestone(m) \/ RequestChanges(m)
                \/ ApproveMilestone(m) \/ OpenDispute(m)
         PROVE  UNCHANGED Box!boxVars
    <2>1. /\ UNCHANGED refund /\ Inside(m)
          /\ \E s \in MilestoneStatus \ {"CREATED", "RELEASED"} : status' = [status EXCEPT ![m] = s]
      BY <1>12 DEF StartMilestone, FullyFunded, SubmitMilestone, RequestChanges, ApproveMilestone, Transition,
                   OpenDispute, refundVars, MilestoneStatus
    <2> QED BY <1>2, <2>1
  <1>13. ASSUME NEW m \in Milestones,
                \/ FundBegin(m) \/ Rollback(m)
                \/ \E i \in Intents : FundCommit(m, i) \/ FundCrash(m, i)
                \/ \E to \in DisputeStatus : AdminTransition(m, to)
                \/ \E d \in DecisionKeys, a \in 0..Amount[m] : ResolveCrash(m, d, a)
         PROVE  UNCHANGED Box!boxVars
    BY <1>1, <1>13 DEF FundBegin, Rollback, FundCommit, FundCrash, AdminTransition, ResolveCrash,
                       escrowVars, refundVars
  <1>14. ASSUME \/ CancelContract
                \/ \E i \in Intents : ProviderPays(i) \/ CaptureBegin(i) \/ PaymentFailed(i)
                \/ \E k \in Keys : RefundCall(k) \/ RefundCrash(k)
         PROVE  UNCHANGED Box!boxVars
    BY <1>1, <1>14 DEF CancelContract, ProviderPays, CaptureBegin, PaymentFailed, RefundCall,
                       RefundCrash, refundVars
  <1>15. CASE UNCHANGED vars
    BY <1>1, <1>15 DEF vars, escrowVars
  <1> QED
    BY <1>5, <1>7, <1>8, <1>9, <1>10, <1>11, <1>12, <1>13, <1>14, <1>15, ResolutionAmountsRange
    DEF Next, EscrowNext, DisputesNext

\* The escrow of every contract implements the box: whatever requests, webhooks,
\* crashes and retries do, money goes in whole and comes out once.
THEOREM EscrowImplementsBox ==
  ASSUME ~Overlap, ~LateCapture PROVE Spec => ImplementsBox
  <1>1. Init => Box!BoxInit
    BY DEF Init, LedgerInit, EscrowInit, Box!BoxInit, Phase
  <1>2. EscrowInv /\ [Next]_vars => [Box!BoxNext]_(Box!boxVars)
    BY BoxStep
  <1> QED BY <1>1, <1>2, EscrowInvariant, PTL DEF Spec, ImplementsBox, Box!BoxSpec

-----------------------------------------------------------------------------
(* What the provider has paid, against what the books say.                  *)

\* A refund the books call SUCCEEDED, or a first attempt that was told so and
\* has not settled yet, succeeded at the provider.
PaidInv ==
  /\ TypeOK
  /\ \A k \in Keys :
       refund[k] = "SUCCEEDED" \/ attempt[k] = "SUCCEEDED" => provRefund[k] = "succeeded"

\* A refund that succeeded at the provider stays so, and the answer SUCCEEDED is
\* only given of such a refund.
LEMMA SucceededIsFinal ==
  ASSUME NEW k \in Keys, NEW i, NEW answer \in Answers, TypeOK, ProviderRefund(k, i, answer)
  PROVE  /\ \A j \in Keys : provRefund[j] = "succeeded" => provRefund'[j] = "succeeded"
         /\ answer = "SUCCEEDED" => provRefund'[k] = "succeeded"
  <1>1. provRefund \in [Keys -> {"none", "pending", "succeeded", "failed"}]
    BY DEF TypeOK
  <1>2. PICK state \in Outcomes(provRefund[k]) :
          /\ Reports(state, answer)
          /\ provRefund' = [provRefund EXCEPT ![k] = state]
    BY DEF ProviderRefund
  <1>3. answer = "SUCCEEDED" => state = "succeeded"
    BY <1>2 DEF Reports
  <1>4. provRefund[k] = "succeeded" => state = "succeeded"
    BY DEF Outcomes
  <1> QED BY <1>1, <1>2, <1>3, <1>4

\* Settling a refund marks it SUCCEEDED only on the answer SUCCEEDED.
LEMMA SettlesAsAnswered ==
  ASSUME NEW k \in Keys, NEW answer, TypeOK, SettleRefund(k, answer)
  PROVE  \A j \in Keys :
           refund'[j] = "SUCCEEDED" => refund[j] = "SUCCEEDED" \/ (j = k /\ answer = "SUCCEEDED")
  <1>1. refund \in [Keys -> {"NONE", "PENDING", "SUCCEEDED", "FAILED"}]
    BY DEF TypeOK
  <1>2. \/ refund' = refund
        \/ refund' = [refund EXCEPT ![k] = "FAILED"]
        \/ refund' = [refund EXCEPT ![k] = "SUCCEEDED"] /\ answer = "SUCCEEDED"
    BY DEF SettleRefund, FailRefund
  <1> QED BY <1>1, <1>2

\* A step, or a stutter, preserves PaidInv.
LEMMA PaidStep == PaidInv /\ [Next]_vars => PaidInv'
  <1> SUFFICES ASSUME PaidInv, [Next]_vars PROVE PaidInv'
    OBVIOUS
  <1>0. TypeOK /\ TypeOK'
    BY TypeStep DEF PaidInv
  <1>type. /\ refund \in [Keys -> {"NONE", "PENDING", "SUCCEEDED", "FAILED"}]
           /\ attempt \in [Keys -> {"none", "reserved", "done"} \cup Answers]
           /\ provRefund \in [Keys -> {"none", "pending", "succeeded", "failed"}]
    BY <1>0 DEF TypeOK
  <1>inv. \A k \in Keys :
            refund[k] = "SUCCEEDED" \/ attempt[k] = "SUCCEEDED" => provRefund[k] = "succeeded"
    BY DEF PaidInv
  <1>1. ASSUME UNCHANGED <<refund, attempt, provRefund>> PROVE PaidInv'
    BY <1>0, <1>1, <1>inv DEF PaidInv
  <1>2. ASSUME NEW k \in Keys, RefundReserve(k) PROVE PaidInv'
    <2>1. /\ refund' = [refund EXCEPT ![k] = "PENDING"]
          /\ attempt' = [attempt EXCEPT ![k] = "reserved"]
          /\ provRefund' = provRefund
      BY <1>2 DEF RefundReserve
    <2> QED BY <1>0, <1>type, <1>inv, <2>1 DEF PaidInv
  <1>3. ASSUME NEW k \in Keys, RefundCall(k) PROVE PaidInv'
    <2>1. PICK answer \in Answers :
            /\ ProviderRefund(k, refundOf[k], answer)
            /\ attempt' = [attempt EXCEPT ![k] =
                 IF answer = "TEMPORARY" \/ refund[k] # "PENDING" THEN "done" ELSE answer]
      BY <1>3 DEF RefundCall
    <2>2. refund' = refund
      BY <1>3 DEF RefundCall
    <2>3. /\ \A j \in Keys : provRefund[j] = "succeeded" => provRefund'[j] = "succeeded"
          /\ answer = "SUCCEEDED" => provRefund'[k] = "succeeded"
      BY <1>0, <2>1, SucceededIsFinal
    <2>4. \A j \in Keys :
            attempt'[j] = "SUCCEEDED" => attempt[j] = "SUCCEEDED" \/ (j = k /\ answer = "SUCCEEDED")
      BY <1>type, <2>1
    <2> QED BY <1>0, <1>inv, <2>2, <2>3, <2>4 DEF PaidInv
  <1>4. ASSUME NEW k \in Keys, RefundSettle(k) PROVE PaidInv'
    <2>1. /\ SettleRefund(k, attempt[k])
          /\ attempt' = [attempt EXCEPT ![k] = "done"]
          /\ provRefund' = provRefund
      BY <1>4 DEF RefundSettle
    <2>2. \A j \in Keys :
            refund'[j] = "SUCCEEDED" =>
              refund[j] = "SUCCEEDED" \/ (j = k /\ attempt[k] = "SUCCEEDED")
      BY <1>0, <2>1, SettlesAsAnswered
    <2> QED BY <1>0, <1>type, <1>inv, <2>1, <2>2 DEF PaidInv
  <1>5. ASSUME NEW k \in Keys, RefundCrash(k) PROVE PaidInv'
    <2>1. attempt' = [attempt EXCEPT ![k] = "done"] /\ UNCHANGED <<refund, provRefund>>
      BY <1>5 DEF RefundCrash
    <2> QED BY <1>0, <1>type, <1>inv, <2>1 DEF PaidInv
  <1>6. ASSUME NEW k \in Keys, RefundReplay(k) PROVE PaidInv'
    <2>1. PICK i \in Intents, answer \in Answers :
            /\ ProviderRefund(k, i, answer)
            /\ UNCHANGED refund \/ SettleRefund(k, answer)
      BY <1>6 DEF RefundReplay
    <2>2. attempt' = attempt
      BY <1>6 DEF RefundReplay
    <2>3. /\ \A j \in Keys : provRefund[j] = "succeeded" => provRefund'[j] = "succeeded"
          /\ answer = "SUCCEEDED" => provRefund'[k] = "succeeded"
      BY <1>0, <2>1, SucceededIsFinal
    <2>4. \A j \in Keys :
            refund'[j] = "SUCCEEDED" => refund[j] = "SUCCEEDED" \/ (j = k /\ answer = "SUCCEEDED")
      BY <1>0, <2>1, SettlesAsAnswered
    <2> QED BY <1>0, <1>inv, <2>2, <2>3, <2>4 DEF PaidInv
  <1>7. ASSUME NEW m \in Milestones,
               \/ FundBegin(m) \/ Rollback(m) \/ StartMilestone(m) \/ SubmitMilestone(m)
               \/ RequestChanges(m) \/ ApproveMilestone(m) \/ ReleaseMilestone(m)
        PROVE PaidInv'
    BY <1>1, <1>7 DEF FundBegin, Rollback, StartMilestone, SubmitMilestone, RequestChanges,
       ApproveMilestone, ReleaseMilestone, Transition, refundVars
  <1>8. ASSUME NEW m \in Milestones, NEW i \in Intents,
               FundCommit(m, i) \/ FundCrash(m, i) \/ CaptureCommit(m, i)
        PROVE PaidInv'
    BY <1>1, <1>8 DEF FundCommit, FundCrash, CaptureCommit, refundVars
  <1>9. ASSUME NEW i \in Intents, ProviderPays(i) \/ CaptureBegin(i) \/ PaymentFailed(i)
        PROVE PaidInv'
    BY <1>1, <1>9 DEF ProviderPays, CaptureBegin, PaymentFailed, refundVars
  <1>10. ASSUME CancelContract PROVE PaidInv'
    BY <1>1, <1>10 DEF CancelContract, refundVars
  <1>11. ASSUME DisputesNext PROVE PaidInv'
    BY <1>1, <1>11 DEF DisputesNext, OpenDispute, AdminTransition, ResolveDispute, ResolveCrash,
       escrowVars, refundVars
  <1>12. ASSUME UNCHANGED vars PROVE PaidInv'
    BY <1>1, <1>12 DEF vars, escrowVars
  <1> QED BY <1>2, <1>3, <1>4, <1>5, <1>6, <1>7, <1>8, <1>9, <1>10, <1>11, <1>12
         DEF Next, EscrowNext

\* A refund the books call SUCCEEDED was paid by the provider, across the first
\* attempt, its crash, overlapping repeats and late answers.
THEOREM BooksFollowProvider == Spec => []ProviderHasPaid
  <1>1. Init => PaidInv
    <2> SUFFICES ASSUME Init PROVE PaidInv
      OBVIOUS
    <2>1. TypeOK
      BY InitTypeOK
    <2> QED BY <2>1 DEF Init, EscrowInit, PaidInv
  <1>2. PaidInv => ProviderHasPaid
    BY DEF PaidInv, ProviderHasPaid
  <1> QED BY <1>1, <1>2, PaidStep, PTL DEF Spec

-----------------------------------------------------------------------------
(* Decisions, whatever an administrator's failed attempts asked for before. *)

DecisionInv == TypeOK /\ DecisionRefundWasPaid

\* A refund of a decision at the provider is final: its key comes back with it.
LEMMA PaidPartIsFinal ==
  ASSUME TypeOK, NEW m \in Milestones, NEW k \in DecisionKeys, NEW toClient \in Int,
         PayRefundPart(m, k, toClient)
  PROVE  \A n \in Milestones, j \in DecisionKeys :
           disputeRefund'[n][j] = IF n = m /\ j = k /\ disputeRefund[m][k] = 0
                                  THEN toClient ELSE disputeRefund[n][j]
  BY DEF PayRefundPart, TypeOK

\* A step, or a stutter, preserves DecisionInv.
LEMMA DecisionStep == DecisionInv /\ [Next]_vars => DecisionInv'
  <1> SUFFICES ASSUME DecisionInv, [Next]_vars PROVE DecisionInv'
    OBVIOUS
  <1>0. TypeOK /\ TypeOK'
    BY TypeStep DEF DecisionInv
  <1>type. /\ dispute \in [Milestones -> DisputeStatus]
           /\ award \in [Milestones -> Int]
           /\ decisionRefund \in [Milestones -> DecisionKeys \cup {"NONE"}]
    BY <1>0 DEF TypeOK
  <1>amt. \A m \in Milestones : Amount[m] \in Int /\ Amount[m] > 0
    BY ConstantsAssumption
  <1> DEFINE Kept(n) == \A j \in DecisionKeys :
               disputeRefund[n][j] # 0 => disputeRefund'[n][j] = disputeRefund[n][j]
             Recorded(n) == IF award[n] = Amount[n]
                            THEN decisionRefund[n] = "NONE"
                            ELSE /\ decisionRefund[n] \in DecisionKeys
                                 /\ disputeRefund[n][decisionRefund[n]] = Amount[n] - award[n]
  <1>inv. \A n \in Milestones : dispute[n] = "RESOLVED" => Recorded(n)
    BY DEF DecisionInv, DecisionRefundWasPaid
  \* A decision that was recorded stays as it was paid.
  <1>1. ASSUME NEW n \in Milestones, Kept(n), dispute[n] = "RESOLVED",
               award'[n] = award[n], decisionRefund'[n] = decisionRefund[n]
        PROVE  Recorded(n)'
    BY <1>1, <1>inv, <1>type, <1>amt
  <1>2. ASSUME \A n \in Milestones : Kept(n) /\ dispute'[n] = "RESOLVED" =>
                 Recorded(n)' \/ (dispute[n] = "RESOLVED" /\ award'[n] = award[n]
                                   /\ decisionRefund'[n] = decisionRefund[n]),
               \A n \in Milestones : Kept(n)
        PROVE  DecisionInv'
    <2>1. \A n \in Milestones : dispute'[n] = "RESOLVED" => Recorded(n)'
      BY <1>1, <1>2
    <2> QED BY <1>0, <2>1 DEF DecisionInv, DecisionRefundWasPaid
  <1> HIDE DEF Recorded
  <1>3. ASSUME NEW m \in Milestones, NEW to \in DisputeStatus, to # "RESOLVED",
               dispute' = [dispute EXCEPT ![m] = to],
               UNCHANGED <<award, decisionRefund, disputeRefund>>
        PROVE  DecisionInv'
    <2>1. \A n \in Milestones : dispute'[n] = "RESOLVED" => dispute[n] = "RESOLVED"
      BY <1>3, <1>type
    <2> QED BY <1>2, <1>3, <2>1
  <1>4. ASSUME NEW m \in Milestones, OpenDispute(m) PROVE DecisionInv'
    BY <1>3, <1>4 DEF OpenDispute, DisputeStatus
  <1>5. ASSUME NEW m \in Milestones, NEW to \in DisputeStatus, AdminTransition(m, to)
        PROVE DecisionInv'
    <2>1. to # "RESOLVED"
      BY <1>5 DEF AdminTransition, AdminTransitions
    <2> QED BY <1>3, <1>5, <2>1 DEF AdminTransition
  <1>6. ASSUME NEW m \in Milestones, NEW d \in DecisionKeys, NEW a \in 0..Amount[m],
               ResolveDispute(m, d, a)
        PROVE  DecisionInv'
    <2>1. /\ PayRefundPart(m, d, Amount[m] - a) /\ RefundConfirmed(m, d, Amount[m] - a)
          /\ dispute' = [dispute EXCEPT ![m] = "RESOLVED"]
          /\ award' = [award EXCEPT ![m] = a]
          /\ decisionRefund' =
               [decisionRefund EXCEPT ![m] = IF Amount[m] - a = 0 THEN "NONE" ELSE d]
      BY <1>6 DEF ResolveDispute
    <2>2. a \in Int /\ Amount[m] - a \in Int
      BY <1>amt
    <2>3. \A n \in Milestones : Kept(n)
      BY <1>0, <2>1, <2>2, PaidPartIsFinal
    <2>4. /\ award'[m] = a
          /\ decisionRefund'[m] = IF Amount[m] - a = 0 THEN "NONE" ELSE d
      BY <1>type, <2>1
    <2>5. Recorded(m)'
      <3>1. CASE Amount[m] = a
        BY <1>amt, <2>2, <2>4, <3>1 DEF Recorded
      <3>2. CASE Amount[m] # a
        BY <1>amt, <2>1, <2>2, <2>4, <3>2 DEF Recorded, RefundConfirmed
      <3> QED BY <3>1, <3>2
    <2>6. \A n \in Milestones : n # m => /\ dispute'[n] = dispute[n] /\ award'[n] = award[n]
                                         /\ decisionRefund'[n] = decisionRefund[n]
      BY <1>type, <2>1
    <2> QED BY <1>2, <2>3, <2>5, <2>6
  <1>7. ASSUME NEW m \in Milestones, NEW d \in DecisionKeys, NEW a \in 0..Amount[m],
               ResolveCrash(m, d, a)
        PROVE  DecisionInv'
    <2>1. PayRefundPart(m, d, Amount[m] - a) /\ UNCHANGED <<dispute, award, decisionRefund>>
      BY <1>7 DEF ResolveCrash
    <2>2. Amount[m] - a \in Int
      BY <1>amt
    <2>3. \A n \in Milestones : Kept(n)
      BY <1>0, <2>1, <2>2, PaidPartIsFinal
    <2> QED BY <1>2, <2>1, <2>3
  <1>8. ASSUME UNCHANGED disputeVars PROVE DecisionInv'
    BY <1>2, <1>8 DEF disputeVars
  <1>9. CASE UNCHANGED vars
    BY <1>8, <1>9 DEF vars
  <1> QED BY <1>4, <1>5, <1>6, <1>7, <1>8, <1>9, ResolutionAmountsRange DEF Next, DisputesNext

\* The refund row of a resolved dispute stands for a refund of exactly the
\* client's part at the provider, whatever failed attempts asked for before,
\* under the same key or another, and whatever else was decided then.
THEOREM DecisionRefundsWerePaid == Spec => []DecisionRefundWasPaid
  <1>1. Init => DecisionInv
    <2> SUFFICES ASSUME Init PROVE DecisionInv
      OBVIOUS
    <2>1. TypeOK
      BY InitTypeOK
    <2> QED BY <2>1 DEF Init, DisputesInit, DecisionInv, DecisionRefundWasPaid
  <1>2. DecisionInv => DecisionRefundWasPaid
    BY DEF DecisionInv
  <1> QED BY <1>1, <1>2, DecisionStep, PTL DEF Spec

-----------------------------------------------------------------------------
(* Where the captured money is (~Overlap, ~LateCapture).                    *)

\* The captured payments of a milestone, and its refunds that are pending or done.
Captured(m) == {i \in Intents : IntentOf[i] = m /\ intent[i] = "CAPTURED"}
Refunded(m) == {k \in Keys : KeyOf[k] = m /\ refund[k] \in {"PENDING", "SUCCEEDED"}}

\* CapturedMoneyAccounted counts both sets, which stay finite: a step adds one
\* element at most.
AccountInv ==
  /\ EscrowInv
  /\ \A m \in Milestones : IsFiniteSet(Captured(m)) /\ IsFiniteSet(Refunded(m))
  /\ CapturedMoneyAccounted

\* There is money in escrow exactly while the milestone is worked on, or is
\* funded or frozen with no refund pending.
LEMMA HeldByStatus ==
  ASSUME EscrowInv, NEW m \in Milestones
  PROVE  escrow[m] > 0 <=>
           \/ status[m] \in WorkStatus
           \/ /\ status[m] \in {"FUNDED", "DISPUTED"}
              /\ \A k \in Keys : KeyOf[k] = m => refund[k] # "PENDING"
  <1>1. Amount[m] \in Int /\ Amount[m] > 0
    BY ConstantsAssumption
  <1>2. status[m] \in MilestoneStatus
    BY DEF EscrowInv, TypeOK
  <1>3. BalanceInv
    BY DEF EscrowInv
  <1>4. CASE status[m] \in {"CREATED", "RELEASED"}
    BY <1>3, <1>4 DEF BalanceInv, WorkStatus
  <1>5. CASE status[m] \in WorkStatus
    BY <1>1, <1>3, <1>5 DEF BalanceInv
  <1>6. CASE status[m] \in {"FUNDED", "DISPUTED"}
    BY <1>1, <1>3, <1>6 DEF BalanceInv, WorkStatus
  <1> QED BY <1>2, <1>4, <1>5, <1>6 DEF MilestoneStatus, WorkStatus

\* The same of the next state.
LEMMA HeldByStatusNext ==
  ASSUME EscrowInv', NEW m \in Milestones
  PROVE  escrow'[m] > 0 <=>
           \/ status'[m] \in WorkStatus
           \/ /\ status'[m] \in {"FUNDED", "DISPUTED"}
              /\ \A k \in Keys : KeyOf[k] = m => refund'[k] # "PENDING"
  <1>1. Amount[m] \in Int /\ Amount[m] > 0
    BY ConstantsAssumption
  <1>2. status'[m] \in MilestoneStatus
    BY DEF EscrowInv, TypeOK
  <1>3. BalanceInv'
    BY DEF EscrowInv
  <1>4. CASE status'[m] \in {"CREATED", "RELEASED"}
    BY <1>3, <1>4 DEF BalanceInv, WorkStatus
  <1>5. CASE status'[m] \in WorkStatus
    BY <1>1, <1>3, <1>5 DEF BalanceInv
  <1>6. CASE status'[m] \in {"FUNDED", "DISPUTED"}
    BY <1>1, <1>3, <1>6 DEF BalanceInv, WorkStatus
  <1> QED BY <1>2, <1>4, <1>5, <1>6 DEF MilestoneStatus, WorkStatus

\* A step, or a stutter, preserves AccountInv.
LEMMA AccountStep ==
  ASSUME ~Overlap, ~LateCapture, AccountInv, [Next]_vars
  PROVE  AccountInv'
  <1>0. EscrowInv /\ EscrowInv'
    BY EscrowStep DEF AccountInv
  <1>type. /\ status \in [Milestones -> MilestoneStatus]
           /\ intent \in [Intents -> {"NONE", "PENDING", "CAPTURED", "FAILED"}]
           /\ refund \in [Keys -> {"NONE", "PENDING", "SUCCEEDED", "FAILED"}]
    BY <1>0 DEF EscrowInv, TypeOK
  <1>map. /\ \A i \in Intents : IntentOf[i] \in Milestones
          /\ \A k \in Keys : KeyOf[k] \in Milestones
    BY ConstantsAssumption
  <1>inv. \A m \in Milestones :
            /\ IsFiniteSet(Captured(m)) /\ IsFiniteSet(Refunded(m))
            /\ Cardinality(Captured(m)) \in Nat /\ Cardinality(Refunded(m)) \in Nat
            /\ Cardinality(Captured(m)) = Cardinality(Refunded(m))
                 + (IF escrow[m] > 0 THEN 1 ELSE 0) + (IF status[m] = "RELEASED" THEN 1 ELSE 0)
    BY FS_CardinalityType DEF AccountInv, CapturedMoneyAccounted, Captured, Refunded
  <1>ref. RefundInv /\ FundingInv /\ BalanceInv
    BY <1>0 DEF EscrowInv
  \* What has to be shown of each milestone.
  <1>1. ASSUME \A m \in Milestones :
                 /\ IsFiniteSet(Captured(m)') /\ IsFiniteSet(Refunded(m)')
                 /\ Cardinality(Captured(m)') = Cardinality(Refunded(m)')
                      + (IF escrow'[m] > 0 THEN 1 ELSE 0) + (IF status'[m] = "RELEASED" THEN 1 ELSE 0)
        PROVE AccountInv'
    BY <1>0, <1>1 DEF AccountInv, CapturedMoneyAccounted, Captured, Refunded
  \* Nothing happens to the money.
  <1>2. ASSUME \A i \in Intents : intent'[i] = "CAPTURED" <=> intent[i] = "CAPTURED",
               refund' = refund, escrow' = escrow,
               \A m \in Milestones : status'[m] = "RELEASED" <=> status[m] = "RELEASED"
        PROVE AccountInv'
    <2>1. \A m \in Milestones : Captured(m)' = Captured(m) /\ Refunded(m)' = Refunded(m)
      BY <1>2 DEF Captured, Refunded
    <2> QED BY <1>1, <1>2, <1>inv, <2>1
  <1>same. ASSUME UNCHANGED <<intent, refund, escrow, status>> PROVE AccountInv'
    BY <1>2, <1>same
  \* A payment is captured.
  <1>3. ASSUME NEW i \in Intents, intent[i] = "PENDING",
               intent' = [intent EXCEPT ![i] = "CAPTURED"], refund' = refund,
               status' = [status EXCEPT ![IntentOf[i]] = "FUNDED"]
        PROVE AccountInv'
    <2> DEFINE m == IntentOf[i]
    <2>1. m \in Milestones /\ status[m] = "CREATED"
      BY <1>3, <1>map, <1>ref DEF FundingInv
    <2>2. \A k \in Keys : KeyOf[k] = m => refund[k] # "PENDING"
      BY <1>ref, <2>1 DEF RefundInv
    <2>3. ~(escrow[m] > 0) /\ escrow'[m] > 0
      BY <1>0, <1>3, <1>type, <2>1, <2>2, HeldByStatus, HeldByStatusNext DEF WorkStatus
    <2>4. \A n \in Milestones : n # m => (escrow'[n] > 0 <=> escrow[n] > 0)
      BY <1>0, <1>3, <1>type, HeldByStatus, HeldByStatusNext
    <2>5. \A n \in Milestones : Refunded(n)' = Refunded(n)
      BY <1>3 DEF Refunded
    <2>6. \A n \in Milestones : n # m => Captured(n)' = Captured(n)
      BY <1>3, <1>type DEF Captured
    <2>7. Captured(m)' = Captured(m) \cup {i} /\ i \notin Captured(m)
      BY <1>3, <1>type DEF Captured
    <2>8. IsFiniteSet(Captured(m)') /\ Cardinality(Captured(m)') = Cardinality(Captured(m)) + 1
      BY <1>inv, <2>1, <2>7, FS_AddElement
    <2>9. \A n \in Milestones : status'[n] = "RELEASED" <=> status[n] = "RELEASED"
      BY <1>3, <1>type, <2>1
    <2> HIDE DEF m
    <2> QED BY <1>1, <1>inv, <2>1, <2>3, <2>4, <2>5, <2>6, <2>8, <2>9
  \* A refund reserves the escrow.
  <1>4. ASSUME NEW k \in Keys, refund[k] = "NONE", status[KeyOf[k]] = "FUNDED",
               escrow[KeyOf[k]] > 0,
               refund' = [refund EXCEPT ![k] = "PENDING"], UNCHANGED <<intent, status>>
        PROVE AccountInv'
    <2> DEFINE m == KeyOf[k]
    <2>1. m \in Milestones /\ refund'[k] = "PENDING"
      BY <1>4, <1>map, <1>type
    <2>2. ~(escrow'[m] > 0)
      BY <1>0, <1>4, <2>1, HeldByStatusNext DEF WorkStatus
    <2>3. \A n \in Milestones : n # m => (escrow'[n] > 0 <=> escrow[n] > 0)
      BY <1>0, <1>4, <1>type, HeldByStatus, HeldByStatusNext
    <2>4. \A n \in Milestones : Captured(n)' = Captured(n)
      BY <1>4 DEF Captured
    <2>5. \A n \in Milestones : n # m => Refunded(n)' = Refunded(n)
      BY <1>4, <1>type DEF Refunded
    <2>6. Refunded(m)' = Refunded(m) \cup {k} /\ k \notin Refunded(m)
      BY <1>4, <1>type DEF Refunded
    <2>7. IsFiniteSet(Refunded(m)') /\ Cardinality(Refunded(m)') = Cardinality(Refunded(m)) + 1
      BY <1>inv, <2>1, <2>6, FS_AddElement
    <2>8. escrow[m] > 0 /\ status' = status
      BY <1>4
    <2> HIDE DEF m
    <2> QED BY <1>1, <1>inv, <2>1, <2>2, <2>3, <2>4, <2>5, <2>7, <2>8
  \* A pending refund fails and gives its reservation back.
  <1>5. ASSUME NEW k \in Keys, refund[k] = "PENDING",
               refund' = [refund EXCEPT ![k] = "FAILED"], UNCHANGED <<intent, status>>
        PROVE AccountInv'
    <2> DEFINE m == KeyOf[k]
    <2>1. m \in Milestones /\ status[m] \in {"FUNDED", "DISPUTED"}
      BY <1>5, <1>map, <1>ref DEF RefundInv
    <2>2. \A j \in Keys : KeyOf[j] = m => refund'[j] # "PENDING"
      BY <1>5, <1>type, <1>ref DEF RefundInv
    <2>3. ~(escrow[m] > 0)
      BY <1>0, <1>5, <2>1, HeldByStatus DEF WorkStatus
    <2>4. escrow'[m] > 0
      BY <1>0, <1>5, <2>1, <2>2, HeldByStatusNext
    <2>5. \A n \in Milestones : n # m => (escrow'[n] > 0 <=> escrow[n] > 0)
      BY <1>0, <1>5, <1>type, HeldByStatus, HeldByStatusNext
    <2>6. \A n \in Milestones : Captured(n)' = Captured(n)
      BY <1>5 DEF Captured
    <2>7. \A n \in Milestones : n # m => Refunded(n)' = Refunded(n)
      BY <1>5, <1>type DEF Refunded
    <2>8. Refunded(m)' = Refunded(m) \ {k} /\ k \in Refunded(m)
      BY <1>5, <1>type DEF Refunded
    <2>9. IsFiniteSet(Refunded(m)') /\ Cardinality(Refunded(m)') = Cardinality(Refunded(m)) - 1
      BY <1>inv, <2>1, <2>8, FS_RemoveElement
    <2>10. status' = status
      BY <1>5
    <2> HIDE DEF m
    <2> QED BY <1>1, <1>inv, <2>1, <2>3, <2>4, <2>5, <2>6, <2>7, <2>9, <2>10
  \* A pending refund succeeds and reopens the milestone.
  <1>6. ASSUME NEW k \in Keys, refund[k] = "PENDING", status[KeyOf[k]] = "FUNDED",
               refund' = [refund EXCEPT ![k] = "SUCCEEDED"],
               status' = [status EXCEPT ![KeyOf[k]] = "CREATED"], UNCHANGED intent
        PROVE AccountInv'
    <2> DEFINE m == KeyOf[k]
    <2>1. m \in Milestones /\ status'[m] = "CREATED"
      BY <1>6, <1>map, <1>type
    <2>2. ~(escrow[m] > 0)
      BY <1>0, <1>6, <2>1, HeldByStatus DEF WorkStatus
    <2>3. ~(escrow'[m] > 0)
      BY <1>0, <2>1, HeldByStatusNext DEF WorkStatus
    <2>4. \A n \in Milestones : n # m => (escrow'[n] > 0 <=> escrow[n] > 0)
      BY <1>0, <1>6, <1>type, HeldByStatus, HeldByStatusNext
    <2>5. \A n \in Milestones : Captured(n)' = Captured(n) /\ Refunded(n)' = Refunded(n)
      BY <1>6, <1>type DEF Captured, Refunded
    <2>6. \A n \in Milestones : status'[n] = "RELEASED" <=> status[n] = "RELEASED"
      BY <1>6, <1>type, <2>1
    <2> HIDE DEF m
    <2> QED BY <1>1, <1>inv, <2>2, <2>3, <2>4, <2>5, <2>6
  \* The escrow of a milestone is distributed.
  <1>7. ASSUME NEW m \in Milestones, status[m] # "RELEASED", escrow[m] > 0,
               status' = [status EXCEPT ![m] = "RELEASED"], UNCHANGED <<intent, refund>>
        PROVE AccountInv'
    <2>1. status'[m] = "RELEASED" /\ ~(escrow'[m] > 0)
      BY <1>0, <1>7, <1>type, HeldByStatusNext DEF WorkStatus
    <2>2. \A n \in Milestones : n # m => (escrow'[n] > 0 <=> escrow[n] > 0)
      BY <1>0, <1>7, <1>type, HeldByStatus, HeldByStatusNext
    <2>3. \A n \in Milestones : Captured(n)' = Captured(n) /\ Refunded(n)' = Refunded(n)
      BY <1>7 DEF Captured, Refunded
    <2>4. \A n \in Milestones : n # m => status'[n] = status[n]
      BY <1>7, <1>type
    <2> QED BY <1>1, <1>7, <1>inv, <2>1, <2>2, <2>3, <2>4
  \* The settlement of a pending refund.
  <1>8. ASSUME NEW k \in Keys, refund[k] = "PENDING", NEW answer \in Answers,
               SettleRefund(k, answer), UNCHANGED intent
        PROVE AccountInv'
    <2>1. \/ UNCHANGED <<status, refund, ledgerVars>>
          \/ refund' = [refund EXCEPT ![k] = "FAILED"] /\ UNCHANGED status
          \/ /\ status[KeyOf[k]] = "FUNDED" /\ refund' = [refund EXCEPT ![k] = "SUCCEEDED"]
             /\ status' = [status EXCEPT ![KeyOf[k]] = "CREATED"]
      BY <1>8 DEF SettleRefund, FailRefund
    <2>2. CASE UNCHANGED <<status, refund, ledgerVars>>
      BY <1>same, <1>8, <2>2 DEF ledgerVars
    <2> QED BY <1>5, <1>6, <1>8, <2>1, <2>2
  <1>9. ASSUME NEW m \in Milestones, FundBegin(m) \/ Rollback(m) PROVE AccountInv'
    BY <1>same, <1>9 DEF FundBegin, Rollback, refundVars, ledgerVars
  <1>10. ASSUME NEW m \in Milestones, NEW i \in Intents, FundCommit(m, i) \/ FundCrash(m, i)
         PROVE AccountInv'
    <2>1. /\ intent[i] = "NONE" /\ intent' \in {intent, [intent EXCEPT ![i] = "PENDING"]}
          /\ UNCHANGED <<refund, escrow, status>>
      BY <1>10 DEF FundCommit, FundCrash, refundVars, ledgerVars
    <2>2. \A j \in Intents : intent'[j] = "CAPTURED" <=> intent[j] = "CAPTURED"
      BY <1>type, <2>1
    <2> QED BY <1>2, <2>1, <2>2
  <1>11. ASSUME NEW m \in Milestones, NEW i \in Intents, CaptureCommit(m, i) PROVE AccountInv'
    <2>1. /\ holder[m] = i /\ intent' = [intent EXCEPT ![i] = "CAPTURED"]
          /\ status' = [status EXCEPT ![m] = IF escrow[m] + Amount[m] = Amount[m] THEN "FUNDED" ELSE @]
          /\ refund' = refund
      BY <1>11 DEF CaptureCommit, refundVars
    <2>2. IntentOf[i] = m /\ intent[i] = "PENDING"
      BY <1>ref, <2>1 DEF FundingInv
    <2>3. escrow[m] = 0
      BY <1>ref, <2>2 DEF FundingInv, BalanceInv
    <2>4. Amount[m] \in Int
      BY ConstantsAssumption
    <2>5. escrow[m] + Amount[m] = Amount[m]
      BY <2>3, <2>4
    <2>6. status' = [status EXCEPT ![IntentOf[i]] = "FUNDED"]
      BY <2>1, <2>2, <2>5
    <2> QED BY <1>3, <2>1, <2>2, <2>6
  <1>12. ASSUME NEW m \in Milestones,
                StartMilestone(m) \/ SubmitMilestone(m) \/ RequestChanges(m) \/ ApproveMilestone(m)
         PROVE AccountInv'
    <2>1. /\ status[m] # "RELEASED"
          /\ \E to \in WorkStatus : status' = [status EXCEPT ![m] = to]
          /\ UNCHANGED <<intent, refund, escrow>>
      BY <1>12 DEF StartMilestone, SubmitMilestone, RequestChanges, ApproveMilestone, Transition,
         WorkStatus, refundVars, ledgerVars
    <2>2. \A n \in Milestones : status'[n] = "RELEASED" <=> status[n] = "RELEASED"
      BY <1>type, <2>1 DEF WorkStatus
    <2> QED BY <1>2, <2>1, <2>2
  <1>13. ASSUME NEW m \in Milestones, ReleaseMilestone(m) PROVE AccountInv'
    <2>1. /\ status[m] = "APPROVED" /\ escrow[m] = Amount[m]
          /\ status' = [status EXCEPT ![m] = "RELEASED"] /\ UNCHANGED <<intent, refund>>
      BY <1>13 DEF ReleaseMilestone, refundVars
    <2>2. escrow[m] > 0
      BY <2>1, ConstantsAssumption
    <2> QED BY <1>7, <2>1, <2>2
  <1>14. ASSUME NEW i \in Intents, ProviderPays(i) \/ CaptureBegin(i) PROVE AccountInv'
    BY <1>same, <1>14 DEF ProviderPays, CaptureBegin, refundVars, ledgerVars
  <1>15. ASSUME NEW i \in Intents, PaymentFailed(i) PROVE AccountInv'
    <2>1. /\ intent[i] = "PENDING" /\ intent' = [intent EXCEPT ![i] = "FAILED"]
          /\ UNCHANGED <<refund, escrow, status>>
      BY <1>15 DEF PaymentFailed, refundVars, ledgerVars
    <2>2. \A j \in Intents : intent'[j] = "CAPTURED" <=> intent[j] = "CAPTURED"
      BY <1>type, <2>1
    <2> QED BY <1>2, <2>1, <2>2
  <1>16. ASSUME NEW k \in Keys, RefundReserve(k) PROVE AccountInv'
    BY <1>4, <1>16 DEF RefundReserve
  <1>17. ASSUME NEW k \in Keys, RefundCall(k) \/ RefundCrash(k) PROVE AccountInv'
    BY <1>same, <1>17 DEF RefundCall, RefundCrash, ledgerVars
  <1>18. ASSUME NEW k \in Keys, RefundSettle(k) PROVE AccountInv'
    <2>1. attempt[k] \in Answers /\ SettleRefund(k, attempt[k]) /\ UNCHANGED intent
      BY <1>18 DEF RefundSettle
    <2>2. refund[k] = "PENDING"
      BY <1>ref, <2>1 DEF RefundInv
    <2> QED BY <1>8, <2>1, <2>2
  <1>19. ASSUME NEW k \in Keys, RefundReplay(k) PROVE AccountInv'
    <2>1. PICK answer \in Answers :
            UNCHANGED <<status, refund, refundRef, ledgerVars>> \/ SettleRefund(k, answer)
      BY <1>19 DEF RefundReplay
    <2>2. refund[k] = "PENDING" /\ UNCHANGED intent
      BY <1>19 DEF RefundReplay
    <2>3. CASE UNCHANGED <<status, refund, refundRef, ledgerVars>>
      BY <1>same, <2>2, <2>3 DEF ledgerVars
    <2> QED BY <1>8, <2>1, <2>2, <2>3
  <1>20. ASSUME CancelContract PROVE AccountInv'
    BY <1>same, <1>20 DEF CancelContract, refundVars, ledgerVars
  <1>21. ASSUME NEW m \in Milestones, OpenDispute(m) PROVE AccountInv'
    <2>1. /\ status[m] # "RELEASED" /\ status' = [status EXCEPT ![m] = "DISPUTED"]
          /\ UNCHANGED <<intent, refund, escrow>>
      BY <1>21 DEF OpenDispute, refundVars, ledgerVars
    <2>2. \A n \in Milestones : status'[n] = "RELEASED" <=> status[n] = "RELEASED"
      BY <1>type, <2>1
    <2> QED BY <1>2, <2>1, <2>2
  <1>22. ASSUME NEW m \in Milestones, NEW d, NEW a, ResolveDispute(m, d, a) PROVE AccountInv'
    <2>1. /\ status[m] = "DISPUTED" /\ escrow[m] = Amount[m]
          /\ status' = [status EXCEPT ![m] = "RELEASED"] /\ UNCHANGED <<intent, refund>>
      BY <1>22 DEF ResolveDispute, Resolvable, refundVars
    <2>2. escrow[m] > 0
      BY <2>1, ConstantsAssumption
    <2> QED BY <1>7, <2>1, <2>2
  <1>23. ASSUME NEW m \in Milestones, NEW a, AdminTransition(m, a) \/ \E d : ResolveCrash(m, d, a)
         PROVE AccountInv'
    BY <1>same, <1>23 DEF AdminTransition, ResolveCrash, escrowVars, ledgerVars
  <1>24. ASSUME UNCHANGED vars PROVE AccountInv'
    BY <1>same, <1>24 DEF vars, escrowVars, ledgerVars
  <1> QED
    BY <1>9, <1>10, <1>11, <1>12, <1>13, <1>14, <1>15, <1>16, <1>17, <1>18, <1>19, <1>20, <1>21,
       <1>22, <1>23, <1>24
    DEF Next, EscrowNext, DisputesNext

\* Every captured payment of a milestone is in one place: in escrow, with a
\* refund that is pending or done, or distributed, when a client waits for the
\* answer to a refund request and a provider's failure of a payment is final.
THEOREM CapturedMoneyIsAccounted ==
  ASSUME ~Overlap, ~LateCapture
  PROVE  Spec => []CapturedMoneyAccounted
  <1>1. Init => AccountInv
    <2> SUFFICES ASSUME Init PROVE AccountInv
      OBVIOUS
    <2>1. EscrowInv
      BY InitEscrowInv
    <2>2. \A m \in Milestones : Captured(m) = {} /\ Refunded(m) = {}
      BY DEF Init, EscrowInit, Captured, Refunded
    <2>3. \A m \in Milestones : escrow[m] = 0 /\ status[m] = "CREATED"
      BY DEF Init, LedgerInit, EscrowInit
    <2>4. IsFiniteSet({}) /\ Cardinality({}) = 0
      BY FS_EmptySet
    <2>5. ASSUME NEW m \in Milestones
          PROVE  /\ Cardinality(Captured(m)) = 0 /\ Cardinality(Refunded(m)) = 0
                 /\ IsFiniteSet(Captured(m)) /\ IsFiniteSet(Refunded(m))
      BY <2>2, <2>4, Zenon
    <2>6. ASSUME NEW m \in Milestones
          PROVE  Cardinality(Captured(m)) = Cardinality(Refunded(m))
                   + (IF escrow[m] > 0 THEN 1 ELSE 0) + (IF status[m] = "RELEASED" THEN 1 ELSE 0)
      BY <2>3, <2>5
    <2>7. CapturedMoneyAccounted
      BY <2>6, Zenon DEF CapturedMoneyAccounted, Captured, Refunded
    <2> QED BY <2>1, <2>5, <2>7 DEF AccountInv
  <1>2. AccountInv => CapturedMoneyAccounted
    BY DEF AccountInv
  <1>3. AccountInv /\ [Next]_vars => AccountInv'
    BY AccountStep
  <1> QED BY <1>1, <1>2, <1>3, PTL DEF Spec

-----------------------------------------------------------------------------
(* Which payment a refund pays back (~Overlap, ~LateCapture), when the      *)
(* payments and the refunds of a milestone go through one provider.         *)

OneProviderEach ==
  \A i \in Intents, k \in Keys : IntentOf[i] = KeyOf[k] => IntentProvider[i] = KeyProvider[k]

\* A refund pays back a captured payment of its milestone, chosen before its row
\* existed, and the provider knows of no refund before that.
PaybackInv ==
  /\ \A n \in 1..Len(captures) : intent[captures[n]] = "CAPTURED"
  /\ \A k \in Keys : refund[k] = "NONE" => provRefund[k] = "none"
  /\ \A k \in Keys : refund[k] # "NONE" =>
       /\ refundOf[k] \in Intents
       /\ IntentOf[refundOf[k]] = KeyOf[k]
       /\ intent[refundOf[k]] = "CAPTURED"

\* A pending refund pays back the latest payment of its milestone; one that
\* succeeded paid back an earlier one, once the milestone is funded again.
LatestInv ==
  \A k \in Keys, i \in Intents : refundOf[k] = i =>
    /\ refund[k] = "PENDING" => LastFunding(i, KeyOf[k])
    /\ refund[k] = "SUCCEEDED" /\ status[KeyOf[k]] # "CREATED" => ~LastFunding(i, KeyOf[k])

DistinctInv ==
  /\ EscrowInv
  /\ PaybackInv
  /\ LatestInv
  /\ RefundsOfDistinctPayments

\* The payment _captured_funding_intent finds is the milestone's latest.
LEMMA LatestIsLast ==
  ASSUME OneProviderEach, TypeOK, NEW k \in Keys, NEW i \in Intents,
         LatestCapture(i, KeyOf[k], KeyProvider[k])
  PROVE  LastFunding(i, KeyOf[k]) /\ IntentOf[i] = KeyOf[k] /\ \E n \in 1..Len(captures) : captures[n] = i
  <1>1. \A n \in 1..Len(captures) : captures[n] \in Intents
    BY DEF TypeOK
  <1>2. PICK n \in 1..Len(captures) :
          /\ captures[n] = i /\ IntentOf[i] = KeyOf[k]
          /\ \A later \in n + 1..Len(captures) :
               ~(IntentOf[captures[later]] = KeyOf[k] /\ IntentProvider[captures[later]] = KeyProvider[k])
    BY DEF LatestCapture
  <1>3. Len(captures) \in Nat
    BY DEF TypeOK
  <1>4. ASSUME NEW later \in n + 1..Len(captures) PROVE IntentOf[captures[later]] # KeyOf[k]
    <2>1. later \in 1..Len(captures)
      BY <1>3
    <2> QED BY <1>1, <1>2, <2>1 DEF OneProviderEach
  <1> QED BY <1>2, <1>4 DEF LastFunding

\* A milestone has one latest payment.
LEMMA LastIsUnique ==
  ASSUME captures \in Seq(Intents), NEW m, NEW i, NEW j, LastFunding(i, m), LastFunding(j, m)
  PROVE  i = j
  <1>1. PICK a \in 1..Len(captures) :
          /\ captures[a] = i /\ IntentOf[i] = m
          /\ \A later \in a + 1..Len(captures) : IntentOf[captures[later]] # m
    BY DEF LastFunding
  <1>2. PICK b \in 1..Len(captures) :
          /\ captures[b] = j /\ IntentOf[j] = m
          /\ \A later \in b + 1..Len(captures) : IntentOf[captures[later]] # m
    BY DEF LastFunding
  <1>3. Len(captures) \in Nat
    OBVIOUS
  <1>4. ~(a < b) /\ ~(b < a)
    BY <1>1, <1>2, <1>3
  <1> QED BY <1>1, <1>2, <1>3, <1>4

\* A capture becomes the latest payment of its milestone and changes no other's.
LEMMA LastAfterCapture ==
  ASSUME captures \in Seq(Intents), NEW i \in Intents, captures' = Append(captures, i),
         NEW j \in Intents, NEW m
  PROVE  /\ IntentOf[i] = m /\ LastFunding(j, m)' => j = i
         /\ IntentOf[i] # m => (LastFunding(j, m)' <=> LastFunding(j, m))
  <1>2. /\ Len(captures) \in Nat /\ Len(captures') = Len(captures) + 1
        /\ captures'[Len(captures) + 1] = i
        /\ \A n \in 1..Len(captures) : captures'[n] = captures[n]
    OBVIOUS
  <1>3. ASSUME IntentOf[i] = m, LastFunding(j, m)' PROVE j = i
    <2>1. PICK n \in 1..Len(captures') :
            /\ captures'[n] = j
            /\ \A later \in n + 1..Len(captures') : IntentOf[captures'[later]] # m
      BY <1>3 DEF LastFunding
    <2>2. n = Len(captures) + 1
      BY <1>2, <1>3, <2>1
    <2> QED BY <1>2, <2>1, <2>2
  <1>4. ASSUME IntentOf[i] # m, LastFunding(j, m) PROVE LastFunding(j, m)'
    <2>1. PICK n \in 1..Len(captures) :
            /\ captures[n] = j /\ IntentOf[j] = m
            /\ \A later \in n + 1..Len(captures) : IntentOf[captures[later]] # m
      BY <1>4 DEF LastFunding
    <2>2. n \in 1..Len(captures') /\ captures'[n] = j
      BY <1>2, <2>1
    <2>3. ASSUME NEW later \in n + 1..Len(captures') PROVE IntentOf[captures'[later]] # m
      <3>1. CASE later = Len(captures) + 1
        BY <1>2, <1>4, <3>1
      <3>2. CASE later # Len(captures) + 1
        <4>1. later \in n + 1..Len(captures) /\ later \in 1..Len(captures)
          BY <1>2, <2>1, <3>2
        <4> QED BY <1>2, <2>1, <4>1
      <3> QED BY <3>1, <3>2
    <2> QED BY <2>1, <2>2, <2>3 DEF LastFunding
  <1>5. ASSUME IntentOf[i] # m, LastFunding(j, m)' PROVE LastFunding(j, m)
    <2>1. PICK n \in 1..Len(captures') :
            /\ captures'[n] = j /\ IntentOf[j] = m
            /\ \A later \in n + 1..Len(captures') : IntentOf[captures'[later]] # m
      BY <1>5 DEF LastFunding
    <2>2. n # Len(captures) + 1
      BY <1>2, <1>5, <2>1
    <2>3. n \in 1..Len(captures) /\ captures[n] = j
      BY <1>2, <2>1, <2>2
    <2>4. ASSUME NEW later \in n + 1..Len(captures) PROVE IntentOf[captures[later]] # m
      <3>1. later \in n + 1..Len(captures') /\ later \in 1..Len(captures)
        BY <1>2, <2>3
      <3> QED BY <1>2, <2>1, <3>1
    <2> QED BY <2>1, <2>3, <2>4 DEF LastFunding
  <1> QED BY <1>3, <1>4, <1>5

\* A step, or a stutter, preserves DistinctInv.
LEMMA DistinctStep ==
  ASSUME ~Overlap, ~LateCapture, OneProviderEach, DistinctInv, [Next]_vars
  PROVE  DistinctInv'
  <1>0. EscrowInv /\ EscrowInv' /\ TypeOK
    BY EscrowStep DEF DistinctInv, EscrowInv
  <1>type. /\ status \in [Milestones -> MilestoneStatus]
           /\ intent \in [Intents -> {"NONE", "PENDING", "CAPTURED", "FAILED"}]
           /\ refund \in [Keys -> {"NONE", "PENDING", "SUCCEEDED", "FAILED"}]
           /\ provRefund \in [Keys -> {"none", "pending", "succeeded", "failed"}]
           /\ refundOf \in [Keys -> {"NONE"} \cup Intents]
    BY <1>0 DEF TypeOK
  <1>map. /\ \A i \in Intents : IntentOf[i] \in Milestones
          /\ \A k \in Keys : KeyOf[k] \in Milestones
    BY ConstantsAssumption
  <1>seq. /\ captures \in Seq(Intents)
          /\ Len(captures) \in Nat /\ \A n \in 1..Len(captures) : captures[n] \in Intents
    BY <1>0 DEF TypeOK
  <1>inv. PaybackInv /\ LatestInv /\ RefundsOfDistinctPayments
    BY DEF DistinctInv
  <1>esc. RefundInv /\ FundingInv /\ BalanceInv
    BY <1>0 DEF EscrowInv
  \* No payment is captured, no milestone leaves CREATED, no refund moves.
  <1>1. ASSUME UNCHANGED <<captures, refund, provRefund, refundOf>>,
               \A i \in Intents : intent[i] = "CAPTURED" => intent'[i] = "CAPTURED",
               \A m \in Milestones : status[m] = "CREATED" => status'[m] = "CREATED"
        PROVE DistinctInv'
    <2>1. \A i \in Intents, m \in Milestones : LastFunding(i, m)' <=> LastFunding(i, m)
      BY <1>1 DEF LastFunding
    <2>2. PaybackInv'
      BY <1>1, <1>inv, <1>seq DEF PaybackInv
    <2>3. LatestInv'
      BY <1>1, <1>inv, <1>map, <2>1 DEF LatestInv
    <2>4. RefundsOfDistinctPayments'
      BY <1>1, <1>inv DEF RefundsOfDistinctPayments
    <2> QED BY <1>0, <2>2, <2>3, <2>4 DEF DistinctInv
  <1>same. ASSUME UNCHANGED <<captures, refund, provRefund, refundOf, intent, status>>
           PROVE DistinctInv'
    BY <1>1, <1>same
  \* A payment is captured.
  <1>2. ASSUME NEW i \in Intents, intent[i] = "PENDING",
               intent' = [intent EXCEPT ![i] = "CAPTURED"], captures' = Append(captures, i),
               \A m \in Milestones : m # IntentOf[i] => status'[m] = status[m],
               UNCHANGED <<refund, provRefund, refundOf>>
        PROVE DistinctInv'
    <2>1. status[IntentOf[i]] = "CREATED"
      BY <1>2, <1>esc DEF FundingInv
    <2>2. \A j \in Intents, m \in Milestones :
            /\ IntentOf[i] = m /\ LastFunding(j, m)' => j = i
            /\ IntentOf[i] # m => (LastFunding(j, m)' <=> LastFunding(j, m))
      BY <1>2, <1>seq, LastAfterCapture
    <2>3. \A j \in Intents : intent[j] = "CAPTURED" => intent'[j] = "CAPTURED" /\ j # i
      BY <1>2, <1>type
    <2>4. PaybackInv'
      <3>1. /\ Len(captures') = Len(captures) + 1 /\ captures'[Len(captures) + 1] = i
            /\ \A n \in 1..Len(captures) : captures'[n] = captures[n]
        BY <1>0, <1>2 DEF TypeOK
      <3>2. intent'[i] = "CAPTURED"
        BY <1>2, <1>type
      <3>3. \A n \in 1..Len(captures') : intent'[captures'[n]] = "CAPTURED"
        BY <1>inv, <1>seq, <2>3, <3>1, <3>2 DEF PaybackInv
      <3> QED BY <1>2, <1>inv, <2>3, <3>3 DEF PaybackInv
    <2>5. LatestInv'
      <3> SUFFICES ASSUME NEW k \in Keys, NEW j \in Intents, refundOf[k] = j
                   PROVE  /\ refund[k] = "PENDING" => LastFunding(j, KeyOf[k])'
                          /\ refund[k] = "SUCCEEDED" /\ status'[KeyOf[k]] # "CREATED"
                               => ~LastFunding(j, KeyOf[k])'
        BY <1>2 DEF LatestInv
      <3>1. CASE KeyOf[k] = IntentOf[i]
        <4>1. refund[k] # "PENDING"
          BY <1>esc, <2>1, <3>1 DEF RefundInv
        <4>2. refund[k] = "SUCCEEDED" => j # i
          BY <1>inv, <2>3 DEF PaybackInv
        <4> QED BY <1>map, <2>2, <3>1, <4>1, <4>2
      <3>2. CASE KeyOf[k] # IntentOf[i]
        <4>1. LastFunding(j, KeyOf[k])' <=> LastFunding(j, KeyOf[k])
          BY <1>map, <2>2, <3>2
        <4>2. status'[KeyOf[k]] = status[KeyOf[k]]
          BY <1>2, <1>map, <3>2
        <4> QED BY <1>inv, <4>1, <4>2 DEF LatestInv
      <3> QED BY <3>1, <3>2
    <2>6. RefundsOfDistinctPayments'
      BY <1>2, <1>inv DEF RefundsOfDistinctPayments
    <2> QED BY <1>0, <2>4, <2>5, <2>6 DEF DistinctInv
  \* A refund row appears, for the latest payment.
  <1>3. ASSUME NEW k \in Keys, refund[k] = "NONE", refund' = [refund EXCEPT ![k] = "PENDING"],
               NEW i \in Intents, LatestCapture(i, KeyOf[k], KeyProvider[k]),
               refundOf' = [refundOf EXCEPT ![k] = i],
               UNCHANGED <<captures, provRefund, intent, status>>
        PROVE DistinctInv'
    <2>1. \A j \in Intents, m \in Milestones : LastFunding(j, m)' <=> LastFunding(j, m)
      BY <1>3 DEF LastFunding
    <2>2. /\ LastFunding(i, KeyOf[k]) /\ IntentOf[i] = KeyOf[k]
          /\ \E n \in 1..Len(captures) : captures[n] = i
      BY <1>0, <1>3, LatestIsLast
    <2>3. intent[i] = "CAPTURED"
      BY <1>inv, <2>2 DEF PaybackInv
    <2>4. /\ refund'[k] = "PENDING" /\ refundOf'[k] = i
          /\ \A j \in Keys : j # k => refund'[j] = refund[j] /\ refundOf'[j] = refundOf[j]
      BY <1>3, <1>type
    <2>5. PaybackInv'
      BY <1>3, <1>inv, <2>2, <2>3, <2>4 DEF PaybackInv
    <2>6. LatestInv'
      BY <1>3, <1>map, <1>inv, <2>1, <2>2, <2>4 DEF LatestInv
    <2>7. RefundsOfDistinctPayments'
      BY <1>inv, <2>4 DEF RefundsOfDistinctPayments
    <2> QED BY <1>0, <2>5, <2>6, <2>7 DEF DistinctInv
  \* The provider is asked for a pending refund, or the refund settles, or both.
  <1>4. ASSUME NEW k \in Keys, refund[k] = "PENDING",
               \A j \in Keys : j # k => provRefund'[j] = provRefund[j] /\ refundOf'[j] = refundOf[j],
               NEW i \in Intents, refundOf'[k] = i, IntentOf[i] = KeyOf[k],
               intent[i] = "CAPTURED", LastFunding(i, KeyOf[k]),
               UNCHANGED <<captures, intent>>,
               \/ UNCHANGED <<refund, status>>
               \/ refund' = [refund EXCEPT ![k] = "FAILED"] /\ UNCHANGED status
               \/ /\ status[KeyOf[k]] = "FUNDED" /\ refund' = [refund EXCEPT ![k] = "SUCCEEDED"]
                  /\ status' = [status EXCEPT ![KeyOf[k]] = "CREATED"]
        PROVE DistinctInv'
    <2>1. \A j \in Intents, m \in Milestones : LastFunding(j, m)' <=> LastFunding(j, m)
      BY <1>4 DEF LastFunding
    <2>2. /\ \A j \in Keys : j # k => refund'[j] = refund[j]
          /\ refund'[k] \in {"PENDING", "FAILED", "SUCCEEDED"}
          /\ refund'[k] = "SUCCEEDED" =>
               status[KeyOf[k]] = "FUNDED" /\ status'[KeyOf[k]] = "CREATED"
          /\ \A m \in Milestones : status[m] = "CREATED" => status'[m] = "CREATED"
      BY <1>4, <1>type, <1>map
    <2>3. PaybackInv'
      BY <1>4, <1>inv, <2>2 DEF PaybackInv
    <2>4. LatestInv'
      <3> SUFFICES ASSUME NEW j \in Keys, NEW h \in Intents, refundOf'[j] = h
                   PROVE  /\ refund'[j] = "PENDING" => LastFunding(h, KeyOf[j])'
                          /\ refund'[j] = "SUCCEEDED" /\ status'[KeyOf[j]] # "CREATED"
                               => ~LastFunding(h, KeyOf[j])'
        BY DEF LatestInv
      <3>1. CASE j = k
        BY <1>4, <1>map, <2>1, <2>2, <3>1
      <3>2. CASE j # k
        <4>1. refundOf[j] = h /\ refund'[j] = refund[j]
          BY <1>4, <2>2, <3>2
        <4>2. status'[KeyOf[j]] # "CREATED" => status[KeyOf[j]] # "CREATED"
          BY <1>map, <2>2
        <4> QED BY <1>map, <1>inv, <2>1, <4>1, <4>2 DEF LatestInv
      <3> QED BY <3>1, <3>2
    <2>5. ASSUME NEW j \in Keys, j # k, refund[j] = "SUCCEEDED", refund'[k] = "SUCCEEDED"
          PROVE  refundOf[j] # refundOf'[k]
      <3>1. refundOf[j] \in Intents /\ IntentOf[refundOf[j]] = KeyOf[j]
        BY <1>inv, <2>5 DEF PaybackInv
      <3>2. CASE KeyOf[j] = KeyOf[k]
        <4>1. ~LastFunding(refundOf[j], KeyOf[j])
          BY <1>inv, <2>2, <2>5, <3>1, <3>2 DEF LatestInv
        <4> QED BY <1>4, <3>2, <4>1
      <3>3. CASE KeyOf[j] # KeyOf[k]
        BY <1>4, <3>1, <3>3
      <3> QED BY <3>2, <3>3
    <2>6. RefundsOfDistinctPayments'
      BY <1>4, <1>inv, <2>2, <2>5 DEF RefundsOfDistinctPayments
    <2> QED BY <1>0, <2>3, <2>4, <2>6 DEF DistinctInv
  \* A pending refund is of the latest payment, and a call to the provider for
  \* that payment changes nothing of it.
  <1>last. ASSUME NEW k \in Keys, refund[k] = "PENDING"
           PROVE  /\ refundOf[k] \in Intents /\ IntentOf[refundOf[k]] = KeyOf[k]
                  /\ intent[refundOf[k]] = "CAPTURED" /\ LastFunding(refundOf[k], KeyOf[k])
    BY <1>last, <1>inv DEF PaybackInv, LatestInv
  <1>5. ASSUME NEW k \in Keys, refund[k] = "PENDING", NEW answer,
               ProviderRefund(k, refundOf[k], answer)
        PROVE  /\ \A j \in Keys : j # k => provRefund'[j] = provRefund[j] /\ refundOf'[j] = refundOf[j]
               /\ refundOf'[k] = refundOf[k]
    BY <1>5, <1>type DEF ProviderRefund
  <1>6. ASSUME NEW k \in Keys, NEW answer, SettleRefund(k, answer)
        PROVE  \/ UNCHANGED <<refund, status>>
               \/ refund' = [refund EXCEPT ![k] = "FAILED"] /\ UNCHANGED status
               \/ /\ status[KeyOf[k]] = "FUNDED" /\ refund' = [refund EXCEPT ![k] = "SUCCEEDED"]
                  /\ status' = [status EXCEPT ![KeyOf[k]] = "CREATED"]
    BY <1>6 DEF SettleRefund, FailRefund
  <1>7. ASSUME NEW m \in Milestones, FundBegin(m) \/ Rollback(m) PROVE DistinctInv'
    BY <1>same, <1>7 DEF FundBegin, Rollback, refundVars
  <1>8. ASSUME NEW m \in Milestones, NEW i \in Intents, FundCommit(m, i) \/ FundCrash(m, i)
        PROVE DistinctInv'
    <2>1. /\ intent[i] = "NONE" /\ intent' \in {intent, [intent EXCEPT ![i] = "PENDING"]}
          /\ UNCHANGED <<captures, refund, provRefund, refundOf, status>>
      BY <1>8 DEF FundCommit, FundCrash, refundVars
    <2>2. \A j \in Intents : intent[j] = "CAPTURED" => intent'[j] = "CAPTURED"
      BY <1>type, <2>1
    <2> QED BY <1>1, <2>1, <2>2
  <1>9. ASSUME NEW m \in Milestones, NEW i \in Intents, CaptureCommit(m, i) PROVE DistinctInv'
    <2>1. /\ holder[m] = i /\ intent' = [intent EXCEPT ![i] = "CAPTURED"]
          /\ captures' = Append(captures, i)
          /\ status' = [status EXCEPT ![m] = IF escrow[m] + Amount[m] = Amount[m] THEN "FUNDED" ELSE @]
          /\ UNCHANGED <<refund, provRefund, refundOf>>
      BY <1>9 DEF CaptureCommit, refundVars
    <2>2. IntentOf[i] = m /\ intent[i] = "PENDING"
      BY <1>esc, <2>1 DEF FundingInv
    <2>3. \A n \in Milestones : n # IntentOf[i] => status'[n] = status[n]
      BY <1>type, <2>1, <2>2
    <2> QED BY <1>2, <2>1, <2>2, <2>3
  <1>10. ASSUME NEW m \in Milestones,
                \/ StartMilestone(m) \/ SubmitMilestone(m) \/ RequestChanges(m)
                \/ ApproveMilestone(m) \/ ReleaseMilestone(m) \/ OpenDispute(m)
                \/ \E d \in DecisionKeys, a \in ResolutionAmounts(m) : ResolveDispute(m, d, a)
         PROVE DistinctInv'
    <2>1. /\ status[m] # "CREATED" /\ \E to : status' = [status EXCEPT ![m] = to]
          /\ UNCHANGED <<captures, refund, provRefund, refundOf, intent>>
      BY <1>10 DEF StartMilestone, SubmitMilestone, RequestChanges, ApproveMilestone, Transition,
         ReleaseMilestone, OpenDispute, ResolveDispute, Resolvable, refundVars
    <2>2. \A n \in Milestones : status[n] = "CREATED" => status'[n] = "CREATED"
      BY <1>type, <2>1
    <2> QED BY <1>1, <2>1, <2>2
  <1>11. ASSUME NEW i \in Intents, ProviderPays(i) \/ CaptureBegin(i) PROVE DistinctInv'
    BY <1>same, <1>11 DEF ProviderPays, CaptureBegin, refundVars
  <1>12. ASSUME NEW i \in Intents, PaymentFailed(i) PROVE DistinctInv'
    <2>1. /\ intent[i] = "PENDING" /\ intent' = [intent EXCEPT ![i] = "FAILED"]
          /\ UNCHANGED <<captures, refund, provRefund, refundOf, status>>
      BY <1>12 DEF PaymentFailed, refundVars
    <2>2. \A j \in Intents : intent[j] = "CAPTURED" => intent'[j] = "CAPTURED"
      BY <1>type, <2>1
    <2> QED BY <1>1, <2>1, <2>2
  <1>13. ASSUME NEW k \in Keys, RefundReserve(k) PROVE DistinctInv'
    <2>1. PICK i \in Intents : /\ LatestCapture(i, KeyOf[k], KeyProvider[k])
                               /\ refundOf' = [refundOf EXCEPT ![k] = i]
      BY <1>13 DEF RefundReserve
    <2> QED BY <1>3, <1>13, <2>1 DEF RefundReserve
  <1>14. ASSUME NEW k \in Keys, RefundCall(k) PROVE DistinctInv'
    <2>1. PICK answer \in Answers : ProviderRefund(k, refundOf[k], answer)
      BY <1>14 DEF RefundCall
    <2>2. attempt[k] = "reserved" /\ UNCHANGED <<captures, intent, refund, status>>
      BY <1>14 DEF RefundCall
    <2>3. refund[k] = "PENDING"
      BY <1>esc, <2>2 DEF RefundInv
    <2> QED BY <1>4, <1>5, <1>last, <2>1, <2>2, <2>3
  <1>15. ASSUME NEW k \in Keys, RefundSettle(k) PROVE DistinctInv'
    <2>1. /\ attempt[k] \in Answers /\ SettleRefund(k, attempt[k])
          /\ UNCHANGED <<captures, intent, provRefund, refundOf>>
      BY <1>15 DEF RefundSettle
    <2>2. refund[k] = "PENDING"
      BY <1>esc, <2>1 DEF RefundInv
    <2> QED BY <1>4, <1>6, <1>last, <2>1, <2>2
  <1>16. ASSUME NEW k \in Keys, RefundReplay(k) PROVE DistinctInv'
    <2>1. PICK i \in Intents, answer \in Answers :
            /\ LatestCapture(i, KeyOf[k], KeyProvider[k])
            /\ ProviderRefund(k, i, answer)
            /\ UNCHANGED <<status, refund>> \/ SettleRefund(k, answer)
      BY <1>16 DEF RefundReplay
    <2>2. refund[k] = "PENDING" /\ UNCHANGED <<captures, intent>>
      BY <1>16 DEF RefundReplay
    <2>3. i = refundOf[k]
      BY <1>0, <1>last, <1>seq, <2>1, <2>2, LatestIsLast, LastIsUnique
    <2> QED BY <1>4, <1>5, <1>6, <1>last, <2>1, <2>2, <2>3
  <1>17. ASSUME NEW k \in Keys, RefundCrash(k) PROVE DistinctInv'
    BY <1>same, <1>17 DEF RefundCrash
  <1>18. ASSUME CancelContract PROVE DistinctInv'
    BY <1>same, <1>18 DEF CancelContract, refundVars
  <1>19. ASSUME NEW m \in Milestones, NEW a, AdminTransition(m, a) \/ \E d : ResolveCrash(m, d, a)
         PROVE DistinctInv'
    BY <1>same, <1>19 DEF AdminTransition, ResolveCrash, escrowVars
  <1>20. ASSUME UNCHANGED vars PROVE DistinctInv'
    BY <1>same, <1>20 DEF vars, escrowVars
  <1> QED
    BY <1>7, <1>8, <1>9, <1>10, <1>11, <1>12, <1>13, <1>14, <1>15, <1>16, <1>17, <1>18, <1>19, <1>20
    DEF Next, EscrowNext, DisputesNext

\* Two refunds that succeeded paid back two different payments, when the
\* payments and refunds of a milestone go through one provider, a client waits
\* for the answer to a refund request and a provider's failure of a payment is
\* final: _captured_funding_intent takes the latest captured payment of the
\* provider that the request names, and a new one was captured in between.
THEOREM RefundsPayDistinctPayments ==
  ASSUME ~Overlap, ~LateCapture, OneProviderEach
  PROVE  Spec => []RefundsOfDistinctPayments
  <1>1. Init => DistinctInv
    <2> SUFFICES ASSUME Init PROVE DistinctInv
      OBVIOUS
    <2>1. TypeOK /\ EscrowInv
      BY InitTypeOK, InitEscrowInv
    <2>2. Len(captures) = 0
      BY DEF Init, EscrowInit
    <2>3. PaybackInv
      BY <2>2 DEF Init, EscrowInit, PaybackInv
    <2>4. LatestInv /\ RefundsOfDistinctPayments
      BY DEF Init, EscrowInit, LatestInv, RefundsOfDistinctPayments
    <2> QED BY <2>1, <2>3, <2>4 DEF DistinctInv
  <1>2. DistinctInv => RefundsOfDistinctPayments
    BY DEF DistinctInv
  <1>3. DistinctInv /\ [Next]_vars => DistinctInv'
    BY DistinctStep
  <1> QED BY <1>1, <1>2, <1>3, PTL DEF Spec

-----------------------------------------------------------------------------
(***************************************************************************)
(* Sums.  MapThenSumSet takes the elements of a set one by one, in the     *)
(* order of CHOOSE.  Whatever that order, an element more is its value     *)
(* more; by the least counterexample, since induction is out of reach.     *)
(***************************************************************************)

\* g gives the sum of f over every subset of T, the way MapThenFoldSet does.
IsSum(g, f, T) ==
  g = [s \in SUBSET T |->
         IF s = {} THEN 0 ELSE f[CHOOSE x \in s : TRUE] + g[s \ {CHOOSE x \in s : TRUE}]]

Less == {ss \in Nat \X Nat : ss[1] < ss[2]}
\* A set of natural numbers has a least one.
LEMMA LeastNatural ==
  ASSUME NEW S \in SUBSET Nat, S # {} PROVE \E x \in S : \A y \in S : x <= y
  <1>1. IsWellFoundedOn(Less, Nat)
    BY NatLessThanWellFounded DEF OpToRel, Less
  <1>2. PICK x \in S : \A y \in S : ~(<<y, x>> \in Less)
    BY <1>1, WFMin
  <1>3. \A y \in S : ~(y < x)
    BY <1>2 DEF Less
  <1> QED BY <1>3

\* Two sums of functions that agree on a finite set agree on it.
LEMMA SumsAgree ==
  ASSUME NEW T1, NEW T2, NEW f1, NEW f2, NEW g1, NEW g2, IsSum(g1, f1, T1), IsSum(g2, f2, T2),
         NEW S, S \subseteq T1, S \subseteq T2, IsFiniteSet(S), \A x \in S : f1[x] = f2[x]
  PROVE  g1[S] = g2[S]
  <1> DEFINE Bad == {s \in SUBSET S : g1[s] # g2[s]}
      Sizes == {Cardinality(s) : s \in Bad}
  <1>0. \A s \in SUBSET S : IsFiniteSet(s) /\ Cardinality(s) \in Nat
    BY FS_Subset, FS_CardinalityType
  <1>1. SUFFICES ASSUME Bad # {} PROVE FALSE
    OBVIOUS
  <1>2. Sizes \in SUBSET Nat /\ Sizes # {}
    BY <1>0, <1>1
  <1>3. PICK s \in Bad : \A t \in Bad : Cardinality(s) <= Cardinality(t)
    <2>1. PICK n \in Sizes : \A k \in Sizes : n <= k
      BY <1>2, LeastNatural
    <2> QED BY <2>1
  <1>4. s \in SUBSET S /\ g1[s] # g2[s]
    BY <1>3
  <1>5. s # {}
    BY <1>4 DEF IsSum
  <1> DEFINE x == CHOOSE x \in s : TRUE
  <1>6. x \in s
    BY <1>5
  <1>7. g1[s] = f1[x] + g1[s \ {x}] /\ g2[s] = f2[x] + g2[s \ {x}]
    BY <1>4, <1>5 DEF IsSum
  <1> HIDE DEF x
  <1>8. s \ {x} \in SUBSET S /\ Cardinality(s \ {x}) = Cardinality(s) - 1
    BY <1>0, <1>4, <1>6, FS_RemoveElement
  <1>9. g1[s \ {x}] = g2[s \ {x}]
    BY <1>0, <1>3, <1>4, <1>8
  <1> QED BY <1>4, <1>6, <1>7, <1>9

\* A finite set has a sum.
LEMMA SumExists ==
  ASSUME NEW T, IsFiniteSet(T), NEW f, \A x \in T : f[x] \in Int
  PROVE  \E g \in [SUBSET T -> Int] : IsSum(g, f, T)
  <1> DEFINE Level(n) == {s \in SUBSET T : Cardinality(s) <= n}
      first(s) == CHOOSE x \in s : TRUE
      Partial(g, n) ==
        /\ g \in [Level(n) -> Int]
        /\ \A s \in Level(n) : g[s] = IF s = {} THEN 0 ELSE f[first(s)] + g[s \ {first(s)}]
      Bad == {n \in Nat : ~\E g : Partial(g, n)}
  <1>0. \A s \in SUBSET T : IsFiniteSet(s) /\ Cardinality(s) \in Nat
    BY FS_Subset, FS_CardinalityType
  <1>first. \A s \in SUBSET T : s # {} => first(s) \in s /\ first(s) \in T
    OBVIOUS
  <1> HIDE DEF first
  <1>1. Bad = {}
    <2> SUFFICES ASSUME Bad # {} PROVE FALSE
      OBVIOUS
    <2>1. PICK n \in Bad : \A k \in Bad : n <= k
      BY LeastNatural
    <2>nat. n \in Nat
      OBVIOUS
    <2>2. CASE n = 0
      <3> DEFINE g == [s \in Level(0) |-> 0]
      <3>1. \A s \in Level(0) : s = {}
        BY <1>0, FS_EmptySet
      <3>2. Partial(g, 0)
        BY <3>1
      <3> QED BY <2>1, <2>2, <3>2
    <2>3. CASE n # 0
      <3>1. n - 1 \in Nat /\ ~(n <= n - 1)
        BY <2>nat, <2>3
      <3>less. n - 1 \notin Bad
        <4> HIDE DEF Bad
        <4> QED BY <2>1, <3>1
      <3>2. PICK g : Partial(g, n - 1)
        BY <3>1, <3>less
      <3> DEFINE h == [s \in Level(n) |-> IF s = {} THEN 0 ELSE f[first(s)] + g[s \ {first(s)}]]
      <3>3. ASSUME NEW s \in Level(n), s # {} PROVE s \ {first(s)} \in Level(n - 1)
        <4>1. s \in SUBSET T /\ first(s) \in s /\ IsFiniteSet(s) /\ Cardinality(s) \in Nat
          BY <1>0, <1>first, <3>3
        <4>2. Cardinality(s \ {first(s)}) = Cardinality(s) - 1
          BY <4>1, FS_RemoveElement
        <4>3. s \ {first(s)} \in SUBSET T
          BY <4>1
        <4> QED BY <2>nat, <3>3, <4>1, <4>2, <4>3
      <3>4. Level(n - 1) \subseteq Level(n)
        BY <1>0, <2>nat
      <3>5. \A s \in Level(n - 1) : h[s] = g[s]
        BY <3>2, <3>4
      <3>6. \A s \in Level(n) : h[s] \in Int
        <4> SUFFICES ASSUME NEW s \in Level(n), s # {} PROVE f[first(s)] + g[s \ {first(s)}] \in Int
          OBVIOUS
        <4>1. g[s \ {first(s)}] \in Int
          BY <3>2, <3>3
        <4>2. f[first(s)] \in Int
          BY <1>first
        <4> QED BY <4>1, <4>2
      <3>7. h \in [Level(n) -> Int]
        BY <3>6
      <3>8. \A s \in Level(n) : h[s] = IF s = {} THEN 0 ELSE f[first(s)] + h[s \ {first(s)}]
        BY <3>3, <3>5
      <3> HIDE DEF h
      <3>9. Partial(h, n)
        BY <3>7, <3>8
      <3> QED BY <2>nat, <3>9
    <2> QED BY <2>2, <2>3
  <1>2. PICK g : Partial(g, Cardinality(T))
    BY <1>0, <1>1
  <1>3. Level(Cardinality(T)) = SUBSET T
    <2>1. \A s \in SUBSET T : Cardinality(s) <= Cardinality(T)
      BY FS_Subset
    <2> QED BY <2>1
  <1>4. /\ g \in [SUBSET T -> Int]
        /\ \A s \in SUBSET T : g[s] = IF s = {} THEN 0 ELSE f[first(s)] + g[s \ {first(s)}]
    BY <1>2, <1>3
  <1>5. g = [s \in SUBSET T |-> IF s = {} THEN 0 ELSE f[first(s)] + g[s \ {first(s)}]]
    BY <1>4
  <1>6. IsSum(g, f, T)
    BY <1>5 DEF IsSum, first
  <1> QED BY <1>4, <1>6

\* g is the sum of the integers f over the finite set T.
SumOf(g, f, T) ==
  IsFiniteSet(T) /\ (\A x \in T : f[x] \in Int) /\ g \in [SUBSET T -> Int] /\ IsSum(g, f, T)

\* The sum of a set is the sum without an element, plus the element.
LEMMA SumSplit ==
  ASSUME NEW T, NEW f, NEW g, SumOf(g, f, T), NEW U \in SUBSET T, NEW e \in U
  PROVE  g[U] = f[e] + g[U \ {e}]
  <1> USE DEF SumOf
  <1> DEFINE Bad == {s \in SUBSET T : \E x \in s : g[s] # f[x] + g[s \ {x}]}
      Sizes == {Cardinality(s) : s \in Bad}
  <1>0. \A s \in SUBSET T : IsFiniteSet(s) /\ Cardinality(s) \in Nat
    BY FS_Subset, FS_CardinalityType
  <1> SUFFICES ASSUME Bad # {} PROVE FALSE
    OBVIOUS
  <1>1. Sizes \in SUBSET Nat /\ Sizes # {}
    BY <1>0
  <1>2. PICK s \in Bad : \A t \in Bad : Cardinality(s) <= Cardinality(t)
    <2>1. PICK n \in Sizes : \A k \in Sizes : n <= k
      BY <1>1, LeastNatural
    <2> QED BY <2>1
  <1>3. PICK x \in s : g[s] # f[x] + g[s \ {x}]
    BY <1>2
  <1> DEFINE c == CHOOSE y \in s : TRUE
  <1>4. c \in s /\ g[s] = f[c] + g[s \ {c}]
    BY <1>2, <1>3 DEF IsSum
  <1> HIDE DEF c
  <1>5. c # x /\ s \in SUBSET T
    BY <1>2, <1>3, <1>4
  <1>6. ASSUME NEW d \in s PROVE s \ {d} \in SUBSET T /\ s \ {d} \notin Bad
    <2>1. Cardinality(s \ {d}) = Cardinality(s) - 1 /\ s \ {d} \in SUBSET T
      BY <1>0, <1>5, <1>6, FS_RemoveElement
    <2>2. Cardinality(s) \in Nat
      BY <1>0, <1>5
    <2> HIDE DEF Bad
    <2> QED BY <1>2, <2>1, <2>2
  <1>7. g[s \ {c}] = f[x] + g[(s \ {c}) \ {x}]
    BY <1>3, <1>4, <1>5, <1>6
  <1>8. g[s \ {x}] = f[c] + g[(s \ {x}) \ {c}]
    BY <1>3, <1>4, <1>5, <1>6
  <1>9. (s \ {c}) \ {x} = (s \ {x}) \ {c}
    OBVIOUS
  <1>10. PICK rest \in Int : rest = g[(s \ {c}) \ {x}]
    BY <1>5
  <1>11. PICK fc \in Int, fx \in Int : fc = f[c] /\ fx = f[x]
    BY <1>3, <1>4, <1>5
  <1>12. g[s \ {c}] = fx + rest /\ g[s \ {x}] = fc + rest
    BY <1>7, <1>8, <1>9, <1>10, <1>11, Zenon
  <1>13. g[s] = fc + (fx + rest) /\ g[s] # fx + (fc + rest)
    BY <1>3, <1>4, <1>11, <1>12, Zenon
  <1> QED BY <1>13

\* The sum of f over S.
Total(f, S) == (CHOOSE g : IsSum(g, f, S))[S]

\* Total is the value of any sum over a larger finite set.
LEMMA TotalIsSum ==
  ASSUME NEW T, IsFiniteSet(T), NEW f, \A x \in T : f[x] \in Int, NEW S \in SUBSET T,
         NEW g, IsSum(g, f, T)
  PROVE  Total(f, S) = g[S]
  <1>1. IsFiniteSet(S) /\ \A x \in S : f[x] \in Int
    BY FS_Subset
  <1>2. \E h : IsSum(h, f, S)
    BY <1>1, SumExists
  <1>3. IsSum(CHOOSE h : IsSum(h, f, S), f, S)
    BY <1>2, Zenon
  <1>4. PICK h : h = CHOOSE i : IsSum(i, f, S)
    OBVIOUS
  <1>5. IsSum(h, f, S) /\ Total(f, S) = h[S]
    BY <1>3, <1>4 DEF Total
  <1> QED BY <1>1, <1>5, SumsAgree

\* The sum over no element.
LEMMA TotalEmpty ==
  ASSUME NEW f PROVE Total(f, {}) = 0
  <1>1. IsFiniteSet({})
    BY FS_EmptySet
  <1>2. PICK g : IsSum(g, f, {})
    BY <1>1, SumExists
  <1>3. Total(f, {}) = g[{}]
    BY <1>1, <1>2, TotalIsSum
  <1> QED BY <1>2, <1>3 DEF IsSum

\* An element more is its value more.
LEMMA TotalSplit ==
  ASSUME NEW S, IsFiniteSet(S), NEW f, \A x \in S : f[x] \in Int, NEW x \in S
  PROVE  /\ Total(f, S) \in Int /\ Total(f, S \ {x}) \in Int
         /\ Total(f, S) = f[x] + Total(f, S \ {x})
  <1>1. PICK g \in [SUBSET S -> Int] : IsSum(g, f, S)
    BY SumExists
  <1>2. S \in SUBSET S /\ S \ {x} \in SUBSET S
    OBVIOUS
  <1>3. Total(f, S) = g[S] /\ Total(f, S \ {x}) = g[S \ {x}]
    BY <1>1, <1>2, TotalIsSum
  <1>4. SumOf(g, f, S)
    BY <1>1 DEF SumOf
  <1>5. g[S] = f[x] + g[S \ {x}]
    BY <1>2, <1>4, SumSplit
  <1> QED BY <1>1, <1>2, <1>3, <1>5

\* A sum of integers is an integer.
LEMMA TotalType ==
  ASSUME NEW S, IsFiniteSet(S), NEW f, \A x \in S : f[x] \in Int
  PROVE  Total(f, S) \in Int
  <1>1. PICK g \in [SUBSET S -> Int] : IsSum(g, f, S)
    BY SumExists
  <1>2. S \in SUBSET S
    OBVIOUS
  <1> QED BY <1>1, <1>2, TotalIsSum

\* A new element adds its value.
LEMMA TotalAdd ==
  ASSUME NEW S, IsFiniteSet(S), NEW f, NEW x, x \notin S, \A y \in S \cup {x} : f[y] \in Int
  PROVE  /\ IsFiniteSet(S \cup {x})
         /\ Total(f, S \cup {x}) = Total(f, S) + f[x]
         /\ Total(f, S) \in Int
  <1>1. IsFiniteSet(S \cup {x})
    BY FS_AddElement
  <1>2. (S \cup {x}) \ {x} = S /\ x \in S \cup {x}
    OBVIOUS
  <1> DEFINE U == S \cup {x}
  <1>3. U \ {x} = S /\ x \in U /\ IsFiniteSet(U) /\ \A y \in U : f[y] \in Int
    BY <1>1, <1>2
  <1> HIDE DEF U
  <1>4. /\ Total(f, U) \in Int /\ Total(f, U \ {x}) \in Int
        /\ Total(f, U) = f[x] + Total(f, U \ {x})
    BY <1>3, TotalSplit
  <1>5. Total(f, U \ {x}) = Total(f, S) /\ f[x] \in Int
    BY <1>3, Zenon
  <1>6. Total(f, U) = Total(f, S) + f[x] /\ Total(f, S) \in Int
    BY <1>4, <1>5
  <1> QED BY <1>1, <1>6, Zenon DEF U

\* Functions that agree on a set have one sum over it.
LEMMA TotalSame ==
  ASSUME NEW S, IsFiniteSet(S), NEW f, NEW h, \A x \in S : f[x] \in Int /\ f[x] = h[x]
  PROVE  Total(f, S) = Total(h, S)
  <1>1. PICK g : IsSum(g, f, S)
    BY SumExists
  <1>2. PICK k : IsSum(k, h, S)
    BY SumExists
  <1>3. Total(f, S) = g[S] /\ Total(h, S) = k[S]
    BY <1>1, <1>2, TotalIsSum
  <1> QED BY <1>1, <1>2, <1>3, SumsAgree

\* Changing one value of the function changes the sum by as much.
LEMMA TotalChange ==
  ASSUME NEW S, IsFiniteSet(S), NEW f, NEW h, NEW x \in S,
         \A y \in S : f[y] \in Int /\ h[y] \in Int /\ (y # x => f[y] = h[y])
  PROVE  /\ Total(f, S) \in Int
         /\ Total(h, S) = Total(f, S) - f[x] + h[x]
  <1>1. /\ Total(f, S) \in Int /\ Total(f, S \ {x}) \in Int
        /\ Total(f, S) = f[x] + Total(f, S \ {x})
    BY TotalSplit
  <1>2. Total(h, S) = h[x] + Total(h, S \ {x})
    BY TotalSplit
  <1>3. IsFiniteSet(S \ {x})
    BY FS_RemoveElement
  <1>4. Total(f, S \ {x}) = Total(h, S \ {x})
    BY <1>3, TotalSame
  <1> QED BY <1>1, <1>2, <1>4

\* x is new to S, and h is f on S.
NewEntry(x, S, f, h) ==
  /\ IsFiniteSet(S) /\ x \notin S /\ h[x] \in Int
  /\ \A y \in S : f[y] \in Int /\ f[y] = h[y]

\* A set grows by an element whose value may just have been set.
LEMMA TotalGrows ==
  ASSUME NEW S, NEW f, NEW h, NEW x, NewEntry(x, S, f, h)
  PROVE  /\ Total(f, S) \in Int
         /\ Total(h, S \cup {x}) = Total(f, S) + h[x]
  <1>1. /\ IsFiniteSet(S) /\ x \notin S /\ h[x] \in Int
        /\ \A y \in S : f[y] \in Int /\ f[y] = h[y]
    BY DEF NewEntry
  <1>2. \A y \in S \cup {x} : h[y] \in Int
    BY <1>1
  <1>3. Total(h, S \cup {x}) = Total(h, S) + h[x]
    BY <1>1, <1>2, TotalAdd
  <1>4. Total(f, S) = Total(h, S) /\ Total(f, S) \in Int
    BY <1>1, TotalSame, TotalType
  <1> QED BY <1>3, <1>4, Zenon

\* A set shrinks by an element.
LEMMA TotalShrinks ==
  ASSUME NEW S, IsFiniteSet(S), NEW f, \A y \in S : f[y] \in Int, NEW x \in S
  PROVE  /\ Total(f, S) \in Int
         /\ Total(f, S \ {x}) = Total(f, S) + (-f[x])
  <1>1. /\ Total(f, S) \in Int /\ Total(f, S \ {x}) \in Int
        /\ Total(f, S) = f[x] + Total(f, S \ {x})
    BY TotalSplit
  <1>2. PICK t \in Int, u \in Int, v \in Int : t = Total(f, S) /\ u = Total(f, S \ {x}) /\ v = f[x]
    BY <1>1
  <1>3. t = v + u
    BY <1>1, <1>2, Zenon
  <1>4. u = t + (-v)
    BY <1>3
  <1> QED BY <1>1, <1>2, <1>4, Zenon

\* A sum of zeros.
LEMMA TotalZero ==
  ASSUME NEW S, IsFiniteSet(S), NEW f, \A x \in S : f[x] = 0
  PROVE  Total(f, S) = 0
  <1> DEFINE g == [s \in SUBSET S |-> 0]
  <1>1. \A s \in SUBSET S : s # {} => f[CHOOSE x \in s : TRUE] + g[s \ {CHOOSE x \in s : TRUE}] = 0
    OBVIOUS
  <1>2. g = [s \in SUBSET S |->
               IF s = {} THEN 0 ELSE f[CHOOSE x \in s : TRUE] + g[s \ {CHOOSE x \in s : TRUE}]]
    BY <1>1
  <1>3. IsSum(g, f, S) /\ g[S] = 0
    BY <1>2 DEF IsSum
  <1> HIDE DEF g
  <1>4. S \in SUBSET S /\ \A x \in S : f[x] \in Int
    OBVIOUS
  <1> QED BY <1>3, <1>4, TotalIsSum

\* The community modules' sum of f over S, when f is a function.
SumBy(f, S) == MapThenSumSet(LAMBDA x : f[x], S)

\* It is the total.
LEMMA SumByIsTotal ==
  ASSUME NEW S, IsFiniteSet(S), NEW f, \A x \in S : f[x] \in Int
  PROVE  SumBy(f, S) = Total(f, S)
  <1> DEFINE P(g) == g = [s \in SUBSET S |->
        IF s = {} THEN 0 ELSE f[CHOOSE x \in s : TRUE] + g[s \ {CHOOSE x \in s : TRUE}]]
      I == CHOOSE g : P(g)
  <1>1. SumBy(f, S) = I[S]
    BY DEF SumBy, MapThenSumSet, MapThenFoldSet
  <1> HIDE DEF I
  <1>2. PICK h : IsSum(h, f, S)
    BY SumExists
  <1>3. P(h)
    BY <1>2 DEF IsSum
  <1>4. P(I)
    BY <1>3 DEF I
  <1>5. IsSum(I, f, S)
    BY <1>4 DEF IsSum
  <1>6. S \in SUBSET S
    OBVIOUS
  <1> QED BY <1>1, <1>5, <1>6, TotalIsSum

-----------------------------------------------------------------------------
(* What the freelancer has earned, whatever clients, administrators and     *)
(* providers do.                                                            *)

\* Earned, and the commission on it, as functions.
EarnedOf == [m \in Milestones |-> Earned(m)]
FeeOf == [m \in Milestones |-> Fee(Earned(m))]

\* What the accounts of freelancer and platform depend on: a frozen milestone
\* stays frozen until its end, and a milestone whose escrow was distributed is
\* RELEASED.  Nothing is said of the rest of the ledger.
EarningInv ==
  /\ wallet \in Int /\ commission \in Int
  /\ status \in [Milestones -> MilestoneStatus]
  /\ dispute \in [Milestones -> DisputeStatus]
  /\ award \in [Milestones -> Int]
  /\ \A m \in Milestones : dispute[m] # "NONE" => status[m] \in {"DISPUTED", "RELEASED"}
  /\ ReleaseInv

\* What post_journal does to the accounts of freelancer and platform.
LEMMA PostJournalEarnings ==
  ASSUME NEW op, NEW ref, NEW m, NEW p, NEW a, NEW b, NEW c \in Int, NEW d \in Int,
         wallet \in Int, commission \in Int, PostJournal(op, ref, m, p, a, b, c, d)
  PROVE  /\ posted' = posted \cup {<<op, ref>>}
         /\ <<op, ref>> \in posted => UNCHANGED <<wallet, commission>>
         /\ <<op, ref>> \notin posted => wallet' = wallet + c /\ commission' = commission + d
         /\ c = 0 /\ d = 0 => UNCHANGED <<wallet, commission>>
  <1>1. CASE <<op, ref>> \in posted
    BY <1>1 DEF PostJournal, ledgerVars
  <1>2. CASE <<op, ref>> \notin posted
    BY <1>2 DEF PostJournal
  <1> QED BY <1>1, <1>2

\* Earned and its commission are integers.
LEMMA EarnedType ==
  ASSUME EarningInv, NEW m \in Milestones
  PROVE  EarnedOf[m] = Earned(m) /\ FeeOf[m] = Fee(Earned(m)) /\ Earned(m) \in Int /\ Fee(Earned(m)) \in Int
  <1>1. Amount[m] \in Int
    BY ConstantsAssumption
  <1>2. Earned(m) \in Int
    BY <1>1 DEF EarningInv, Earned
  <1>3. Fee(Earned(m)) \in Int
    BY <1>2, FeeType
  <1> QED BY <1>2, <1>3 DEF EarnedOf, FeeOf

\* The same of the next state.
LEMMA EarnedTypeNext ==
  ASSUME EarningInv', NEW m \in Milestones
  PROVE  /\ EarnedOf'[m] = Earned(m)' /\ FeeOf'[m] = Fee(Earned(m)')
         /\ Earned(m)' \in Int /\ Fee(Earned(m)') \in Int
  <1>1. Amount[m] \in Int
    BY ConstantsAssumption
  <1>2. Earned(m)' \in Int
    BY <1>1 DEF EarningInv, Earned
  <1>3. Fee(Earned(m)') \in Int
    BY <1>2, FeeType
  <1> QED BY <1>2, <1>3 DEF EarnedOf, FeeOf, Fee

\* A step of the escrow credits freelancer and platform together with what it
\* makes a milestone earn, and the platform with the commission on it.
LEMMA EarningStep ==
  ASSUME EarningInv, Next
  PROVE  /\ EarningInv'
         /\ wallet' + commission' - Total(EarnedOf', Milestones)
              = wallet + commission - Total(EarnedOf, Milestones)
         /\ commission' - Total(FeeOf', Milestones) = commission - Total(FeeOf, Milestones)
  <1> DEFINE Goal ==
        /\ EarningInv'
        /\ wallet' + commission' - Total(EarnedOf', Milestones)
             = wallet + commission - Total(EarnedOf, Milestones)
        /\ commission' - Total(FeeOf', Milestones) = commission - Total(FeeOf, Milestones)
      Distributed(m, books) ==
        <<"MILESTONE_RELEASE", m>> \in books \/ <<"DISPUTE_RESOLUTION", m>> \in books
  <1>type. /\ wallet \in Int /\ commission \in Int
           /\ status \in [Milestones -> MilestoneStatus]
           /\ dispute \in [Milestones -> DisputeStatus]
           /\ award \in [Milestones -> Int]
    BY DEF EarningInv
  <1>inv. /\ \A m \in Milestones : dispute[m] # "NONE" => status[m] \in {"DISPUTED", "RELEASED"}
          /\ \A m \in Milestones : Distributed(m, posted) => status[m] = "RELEASED"
    BY DEF EarningInv, ReleaseInv
  <1>amt. \A m \in Milestones : Amount[m] \in Nat
    BY ConstantsAssumption
  <1>map. \A k \in Keys : KeyOf[k] \in Milestones
    BY ConstantsAssumption
  \* Nothing is earned.
  <1>1. ASSUME UNCHANGED <<wallet, commission, award>>,
               \A m \in Milestones : Distributed(m, posted') => Distributed(m, posted),
               status' \in [Milestones -> MilestoneStatus],
               dispute' \in [Milestones -> DisputeStatus],
               \A m \in Milestones : dispute'[m] # "NONE" => status'[m] \in {"DISPUTED", "RELEASED"},
               \A m \in Milestones : status'[m] = "RELEASED" <=> status[m] = "RELEASED",
               \A m \in Milestones : dispute'[m] = "RESOLVED" <=> dispute[m] = "RESOLVED"
        PROVE Goal
    <2>1. EarningInv'
      BY <1>1, <1>type, <1>inv DEF EarningInv, ReleaseInv
    <2>2. \A m \in Milestones : Earned(m)' = Earned(m)
      BY <1>1 DEF Earned
    <2>3. EarnedOf' = EarnedOf /\ FeeOf' = FeeOf
      BY <2>2 DEF EarnedOf, FeeOf, Fee
    <2> QED BY <1>1, <2>1, <2>3
  <1>same. ASSUME UNCHANGED <<wallet, commission, posted, status, dispute, award>> PROVE Goal
    BY <1>1, <1>same, <1>type, <1>inv
  \* Milestone m is distributed and earns e.
  <1>2. ASSUME NEW m \in Milestones, NEW e \in Int, status[m] # "RELEASED",
               status' = [status EXCEPT ![m] = "RELEASED"],
               \A n \in Milestones : Distributed(n, posted') => Distributed(n, posted) \/ n = m,
               wallet' = wallet + (e - Fee(e)), commission' = commission + Fee(e),
               dispute' \in [Milestones -> DisputeStatus], award' \in [Milestones -> Int],
               \A n \in Milestones : n # m => dispute'[n] = dispute[n] /\ award'[n] = award[n],
               e = IF dispute'[m] = "RESOLVED" THEN award'[m] ELSE Amount[m]
        PROVE Goal
    <2>1. /\ status' \in [Milestones -> MilestoneStatus] /\ status'[m] = "RELEASED"
          /\ \A n \in Milestones : n # m => status'[n] = status[n]
      BY <1>2, <1>type DEF MilestoneStatus
    <2>2. Fee(e) \in Int /\ Fee(0) = 0
      BY <1>2, FeeType, ConstantsAssumption DEF Fee
    <2>3. EarningInv'
      <3>1. wallet' \in Int /\ commission' \in Int
        BY <1>2, <1>type, <2>2
      <3>2. ReleaseInv'
        BY <1>2, <1>inv, <2>1 DEF ReleaseInv
      <3>3. \A n \in Milestones : dispute'[n] # "NONE" => status'[n] \in {"DISPUTED", "RELEASED"}
        BY <1>2, <1>inv, <2>1
      <3> QED BY <1>2, <2>1, <3>1, <3>2, <3>3 DEF EarningInv
    <2>4. Earned(m) = 0 /\ Earned(m)' = e
      BY <1>2, <2>1 DEF Earned
    <2>5. \A n \in Milestones : n # m => Earned(n)' = Earned(n)
      BY <1>2, <2>1 DEF Earned
    <2>6. ASSUME NEW n \in Milestones
          PROVE  /\ EarnedOf[n] \in Int /\ EarnedOf'[n] \in Int
                 /\ FeeOf[n] \in Int /\ FeeOf'[n] \in Int
                 /\ n # m => EarnedOf[n] = EarnedOf'[n] /\ FeeOf[n] = FeeOf'[n]
      <3>1. EarnedOf[n] = Earned(n) /\ FeeOf[n] = Fee(Earned(n)) /\ Earned(n) \in Int /\ Fee(Earned(n)) \in Int
        BY EarnedType
      <3>2. /\ EarnedOf'[n] = Earned(n)' /\ FeeOf'[n] = Fee(Earned(n)')
            /\ Earned(n)' \in Int /\ Fee(Earned(n)') \in Int
        BY <2>3, EarnedTypeNext
      <3>3. n # m => Earned(n)' = Earned(n)
        BY <2>5
      <3>4. n # m => Fee(Earned(n)') = Fee(Earned(n))
        BY <3>3 DEF Fee
      <3> QED BY <3>1, <3>2, <3>3, <3>4
    <2>7. EarnedOf[m] = 0 /\ EarnedOf'[m] = e /\ FeeOf[m] = 0 /\ FeeOf'[m] = Fee(e)
      <3>1. EarnedOf[m] = Earned(m) /\ FeeOf[m] = Fee(Earned(m))
        BY EarnedType
      <3>2. EarnedOf'[m] = Earned(m)' /\ FeeOf'[m] = Fee(Earned(m)')
        BY <2>3, EarnedTypeNext
      <3>3. Fee(Earned(m)) = 0 /\ Fee(Earned(m)') = Fee(e)
        BY <2>2, <2>4 DEF Fee
      <3> QED BY <2>4, <3>1, <3>2, <3>3
    <2>8. PICK f, h : f = EarnedOf /\ h = EarnedOf'
      OBVIOUS
    <2>9. Total(f, Milestones) \in Int /\ Total(h, Milestones) = Total(f, Milestones) - f[m] + h[m]
      <3>1. \A n \in Milestones : f[n] \in Int /\ h[n] \in Int /\ (n # m => f[n] = h[n])
        BY <2>6, <2>8, Zenon
      <3> QED BY <3>1, FiniteMilestones, TotalChange
    <2>10. PICK f1, h1 : f1 = FeeOf /\ h1 = FeeOf'
      OBVIOUS
    <2>11. Total(f1, Milestones) \in Int /\ Total(h1, Milestones) = Total(f1, Milestones) - f1[m] + h1[m]
      <3>1. \A n \in Milestones : f1[n] \in Int /\ h1[n] \in Int /\ (n # m => f1[n] = h1[n])
        BY <2>6, <2>10, Zenon
      <3> QED BY <3>1, FiniteMilestones, TotalChange
    <2>12. f[m] = 0 /\ h[m] = e /\ f1[m] = 0 /\ h1[m] = Fee(e)
      BY <2>7, <2>8, <2>10
    <2>13. /\ wallet' + commission' - Total(h, Milestones) = wallet + commission - Total(f, Milestones)
           /\ commission' - Total(h1, Milestones) = commission - Total(f1, Milestones)
      BY <1>2, <1>type, <2>2, <2>9, <2>11, <2>12
    <2> QED BY <2>3, <2>8, <2>10, <2>13
  <1>3. ASSUME NEW m \in Milestones, NEW i \in Intents, CaptureCommit(m, i), UNCHANGED disputeVars PROVE Goal
    <2>1. PostJournal("MILESTONE_FUND", i, m, IntentProvider[i], Amount[m], -Amount[m], 0, 0)
      BY <1>3 DEF CaptureCommit
    <2>2. posted' = posted \cup {<<"MILESTONE_FUND", i>>} /\ UNCHANGED <<wallet, commission>>
      BY <1>type, <2>1 DEF PostJournal, ledgerVars
    <2>3. \A n \in Milestones : Distributed(n, posted') => Distributed(n, posted)
      BY <2>2
    <2>4. /\ status[m] \in {"CREATED", "FUNDED"} /\ UNCHANGED <<dispute, award>>
          /\ \E to \in {"FUNDED", status[m]} : status' = [status EXCEPT ![m] = to]
      BY <1>3 DEF CaptureCommit, disputeVars
    <2>5. /\ status' \in [Milestones -> MilestoneStatus]
          /\ \A n \in Milestones : status'[n] = "RELEASED" <=> status[n] = "RELEASED"
          /\ \A n \in Milestones : n # m => status'[n] = status[n]
      BY <1>type, <2>4 DEF MilestoneStatus
    <2>6. \A n \in Milestones : dispute'[n] # "NONE" => status'[n] \in {"DISPUTED", "RELEASED"}
      BY <1>inv, <2>4, <2>5
    <2> QED BY <1>1, <1>type, <2>2, <2>3, <2>4, <2>5, <2>6
  <1>4. ASSUME NEW m \in Milestones, ReleaseMilestone(m), UNCHANGED disputeVars PROVE Goal
    <2> DEFINE a == Amount[m]
    <2>1. /\ status[m] = "APPROVED" /\ status' = [status EXCEPT ![m] = "RELEASED"]
          /\ UNCHANGED <<dispute, award>>
      BY <1>4 DEF ReleaseMilestone, disputeVars
    <2>2. PICK p \in Providers :
            PostJournal("MILESTONE_RELEASE", m, m, p, -a, 0, a - Fee(a), Fee(a))
      BY <1>4 DEF ReleaseMilestone
    <2>3. a \in Int /\ Fee(a) \in Int /\ a - Fee(a) \in Int
      BY <1>amt, FeeType
    <2>4. <<"MILESTONE_RELEASE", m>> \notin posted /\ dispute[m] = "NONE"
      BY <1>inv, <2>1
    <2> HIDE DEF a
    <2>5. /\ posted' = posted \cup {<<"MILESTONE_RELEASE", m>>}
          /\ wallet' = wallet + (a - Fee(a)) /\ commission' = commission + Fee(a)
      BY <1>type, <2>2, <2>3, <2>4, PostJournalEarnings
    <2>6. \A n \in Milestones : Distributed(n, posted') => Distributed(n, posted) \/ n = m
      BY <2>5
    <2>7. a = IF dispute'[m] = "RESOLVED" THEN award'[m] ELSE Amount[m]
      BY <2>1, <2>4 DEF a
    <2> QED BY <1>2, <1>type, <2>1, <2>3, <2>5, <2>6, <2>7
  <1>5. ASSUME NEW m \in Milestones, NEW d \in DecisionKeys, NEW a \in 0..Amount[m],
               ResolveDispute(m, d, a)
        PROVE Goal
    <2>1. /\ status[m] = "DISPUTED" /\ status' = [status EXCEPT ![m] = "RELEASED"]
          /\ dispute' = [dispute EXCEPT ![m] = "RESOLVED"] /\ award' = [award EXCEPT ![m] = a]
      BY <1>5 DEF ResolveDispute, Resolvable
    <2>2. PICK i \in Intents :
            PostJournal("DISPUTE_RESOLUTION", m, m, IntentProvider[i], -Amount[m], Amount[m] - a,
                        a - Fee(a), Fee(a))
      BY <1>5 DEF ResolveDispute
    <2>3. a \in Int /\ Fee(a) \in Int /\ a - Fee(a) \in Int
      BY <1>amt, FeeType
    <2>4. <<"DISPUTE_RESOLUTION", m>> \notin posted
      BY <1>inv, <2>1
    <2>5. /\ posted' = posted \cup {<<"DISPUTE_RESOLUTION", m>>}
          /\ wallet' = wallet + (a - Fee(a)) /\ commission' = commission + Fee(a)
      BY <1>type, <2>2, <2>3, <2>4, PostJournalEarnings
    <2>6. \A n \in Milestones : Distributed(n, posted') => Distributed(n, posted) \/ n = m
      BY <2>5
    <2>7. /\ dispute' \in [Milestones -> DisputeStatus] /\ award' \in [Milestones -> Int]
          /\ dispute'[m] = "RESOLVED" /\ award'[m] = a
          /\ \A n \in Milestones : n # m => dispute'[n] = dispute[n] /\ award'[n] = award[n]
      BY <1>type, <2>1, <2>3 DEF DisputeStatus
    <2> QED BY <1>2, <2>1, <2>3, <2>5, <2>6, <2>7
  <1>6. ASSUME NEW k \in Keys, RefundReserve(k), UNCHANGED disputeVars PROVE Goal
    <2>1. PostJournal("MILESTONE_REFUND", k, KeyOf[k], KeyProvider[k],
                      -escrow[KeyOf[k]], escrow[KeyOf[k]], 0, 0)
      BY <1>6 DEF RefundReserve
    <2>2. posted' = posted \cup {<<"MILESTONE_REFUND", k>>} /\ UNCHANGED <<wallet, commission>>
      BY <1>type, <2>1 DEF PostJournal, ledgerVars
    <2>3. \A n \in Milestones : Distributed(n, posted') => Distributed(n, posted)
      BY <2>2
    <2>4. UNCHANGED <<status, dispute, award>>
      BY <1>6 DEF RefundReserve, disputeVars
    <2> QED BY <1>1, <1>type, <1>inv, <2>2, <2>3, <2>4
  <1>7. ASSUME NEW k \in Keys, NEW answer, SettleRefund(k, answer), UNCHANGED disputeVars PROVE Goal
    <2>0. UNCHANGED <<dispute, award>>
      BY <1>7 DEF disputeVars
    <2>1. CASE FailRefund(k)
      <3>1. PostJournal("REVERSAL", k, KeyOf[k], KeyProvider[k], refundAmount[k], -refundAmount[k], 0, 0)
        BY <2>1 DEF FailRefund
      <3>2. posted' = posted \cup {<<"REVERSAL", k>>} /\ UNCHANGED <<wallet, commission>>
        BY <1>type, <3>1 DEF PostJournal, ledgerVars
      <3>3. \A n \in Milestones : Distributed(n, posted') => Distributed(n, posted)
        BY <3>2
      <3>4. UNCHANGED status
        BY <2>1 DEF FailRefund
      <3> QED BY <1>1, <1>type, <1>inv, <2>0, <3>2, <3>3, <3>4
    <2>2. CASE UNCHANGED <<status, ledgerVars>>
      BY <1>same, <2>0, <2>2 DEF ledgerVars
    <2>3. CASE /\ status[KeyOf[k]] = "FUNDED" /\ UNCHANGED ledgerVars
               /\ status' = [status EXCEPT ![KeyOf[k]] = "CREATED"]
      <3>1. /\ status' \in [Milestones -> MilestoneStatus]
            /\ \A n \in Milestones : status'[n] = "RELEASED" <=> status[n] = "RELEASED"
            /\ \A n \in Milestones : status'[n] = status[n] \/ status[n] = "FUNDED"
        BY <1>type, <1>map, <2>3 DEF MilestoneStatus
      <3>2. \A n \in Milestones : dispute'[n] # "NONE" => status'[n] \in {"DISPUTED", "RELEASED"}
        BY <1>inv, <2>0, <3>1
      <3>3. UNCHANGED <<wallet, commission, posted>>
        BY <2>3 DEF ledgerVars
      <3> QED BY <1>1, <1>type, <2>0, <3>1, <3>2, <3>3
    <2> QED BY <1>7, <2>1, <2>2, <2>3 DEF SettleRefund
  <1>8. ASSUME NEW k \in Keys, RefundSettle(k), UNCHANGED disputeVars PROVE Goal
    BY <1>7, <1>8 DEF RefundSettle
  <1>9. ASSUME NEW k \in Keys, RefundReplay(k), UNCHANGED disputeVars PROVE Goal
    <2>1. PICK answer \in Answers :
            UNCHANGED <<status, refund, refundRef, ledgerVars>> \/ SettleRefund(k, answer)
      BY <1>9 DEF RefundReplay
    <2>2. CASE UNCHANGED <<status, refund, refundRef, ledgerVars>>
      BY <1>same, <1>9, <2>2 DEF ledgerVars, disputeVars
    <2> QED BY <1>7, <1>9, <2>1, <2>2
  <1>10. ASSUME NEW m \in Milestones, UNCHANGED disputeVars,
                StartMilestone(m) \/ SubmitMilestone(m) \/ RequestChanges(m) \/ ApproveMilestone(m)
         PROVE Goal
    <2>1. /\ status[m] \in {"FUNDED"} \cup WorkStatus
          /\ \E to \in WorkStatus : status' = [status EXCEPT ![m] = to]
          /\ UNCHANGED <<wallet, commission, posted, dispute, award>>
      BY <1>10 DEF StartMilestone, SubmitMilestone, RequestChanges, ApproveMilestone, Transition,
         WorkStatus, ledgerVars, disputeVars
    <2>2. /\ status' \in [Milestones -> MilestoneStatus]
          /\ \A n \in Milestones : status'[n] = "RELEASED" <=> status[n] = "RELEASED"
          /\ \A n \in Milestones : status'[n] = status[n] \/ status[n] \in {"FUNDED"} \cup WorkStatus
      BY <1>type, <2>1 DEF MilestoneStatus, WorkStatus
    <2>3. \A n \in Milestones : dispute'[n] # "NONE" => status'[n] \in {"DISPUTED", "RELEASED"}
      BY <1>inv, <2>1, <2>2 DEF WorkStatus
    <2> QED BY <1>1, <1>type, <2>1, <2>2, <2>3
  <1>11. ASSUME NEW m \in Milestones, OpenDispute(m) PROVE Goal
    <2>1. /\ status[m] # "RELEASED" /\ dispute[m] = "NONE"
          /\ status' = [status EXCEPT ![m] = "DISPUTED"] /\ dispute' = [dispute EXCEPT ![m] = "OPEN"]
          /\ UNCHANGED <<wallet, commission, posted, award>>
      BY <1>11 DEF OpenDispute, ledgerVars
    <2>2. /\ status' \in [Milestones -> MilestoneStatus] /\ dispute' \in [Milestones -> DisputeStatus]
          /\ \A n \in Milestones : status'[n] = "RELEASED" <=> status[n] = "RELEASED"
          /\ \A n \in Milestones : dispute'[n] = "RESOLVED" <=> dispute[n] = "RESOLVED"
      BY <1>type, <2>1 DEF MilestoneStatus, DisputeStatus
    <2>3. \A n \in Milestones : dispute'[n] # "NONE" => status'[n] \in {"DISPUTED", "RELEASED"}
      BY <1>type, <1>inv, <2>1
    <2> QED BY <1>1, <2>1, <2>2, <2>3
  <1>12. ASSUME NEW m \in Milestones, NEW to \in DisputeStatus, AdminTransition(m, to) PROVE Goal
    <2>1. /\ dispute[m] \notin {"NONE", "RESOLVED"} /\ to \notin {"NONE", "RESOLVED"}
          /\ dispute' = [dispute EXCEPT ![m] = to]
          /\ UNCHANGED <<wallet, commission, posted, award, status>>
      BY <1>12 DEF AdminTransition, AdminTransitions, ledgerVars, escrowVars
    <2>2. /\ dispute' \in [Milestones -> DisputeStatus]
          /\ \A n \in Milestones : dispute'[n] = "RESOLVED" <=> dispute[n] = "RESOLVED"
      BY <1>type, <2>1
    <2>3. \A n \in Milestones : dispute'[n] # "NONE" => status'[n] \in {"DISPUTED", "RELEASED"}
      BY <1>type, <1>inv, <2>1
    <2> QED BY <1>1, <1>type, <2>1, <2>2, <2>3
  <1>13. ASSUME NEW m \in Milestones, UNCHANGED disputeVars,
                \/ FundBegin(m) \/ Rollback(m)
                \/ \E i \in Intents : FundCommit(m, i) \/ FundCrash(m, i)
         PROVE Goal
    BY <1>same, <1>13 DEF FundBegin, Rollback, FundCommit, FundCrash, ledgerVars, disputeVars
  <1>14. ASSUME UNCHANGED disputeVars,
                \/ CancelContract
                \/ \E i \in Intents : ProviderPays(i) \/ CaptureBegin(i) \/ PaymentFailed(i)
                \/ \E k \in Keys : RefundCall(k) \/ RefundCrash(k)
         PROVE Goal
    BY <1>same, <1>14 DEF CancelContract, ProviderPays, CaptureBegin, PaymentFailed, RefundCall,
       RefundCrash, ledgerVars, disputeVars
  <1>15. ASSUME NEW m \in Milestones, NEW d, NEW a, ResolveCrash(m, d, a) PROVE Goal
    BY <1>same, <1>15 DEF ResolveCrash, ledgerVars, escrowVars
  <1> HIDE DEF Goal
  <1>16. Goal
    BY <1>3, <1>4, <1>5, <1>6, <1>8, <1>9, <1>10, <1>11, <1>12, <1>13, <1>14, <1>15,
       ResolutionAmountsRange
    DEF Next, EscrowNext, DisputesNext
  <1> QED BY <1>16 DEF Goal
\* The sums FreelancerPaidOnce states are totals.
LEMMA EarnedIsTotal ==
  ASSUME EarningInv
  PROVE  MapThenSumSet(Earned, Milestones) = Total(EarnedOf, Milestones)
  <1> DEFINE P(g) == g = [s \in SUBSET Milestones |->
        IF s = {} THEN 0 ELSE Earned(CHOOSE x \in s : TRUE) + g[s \ {CHOOSE x \in s : TRUE}]]
      I == CHOOSE g : P(g)
  <1>1. MapThenSumSet(Earned, Milestones) = I[Milestones]
    BY DEF MapThenSumSet, MapThenFoldSet
  <1> HIDE DEF I
  <1>2. \A m \in Milestones : EarnedOf[m] = Earned(m) /\ EarnedOf[m] \in Int
    BY EarnedType
  <1>3. \A s \in SUBSET Milestones :
          s # {} => EarnedOf[CHOOSE x \in s : TRUE] = Earned(CHOOSE x \in s : TRUE)
    BY <1>2
  <1>4. \A g : P(g) <=> IsSum(g, EarnedOf, Milestones)
    BY <1>3 DEF IsSum
  <1>5. \E g : P(g)
    <2>1. PICK h : IsSum(h, EarnedOf, Milestones)
      BY <1>2, FiniteMilestones, SumExists
    <2>2. P(h)
      BY <1>4, <2>1
    <2> QED BY <2>2
  <1>6. P(I)
    BY <1>5 DEF I
  <1>7. IsSum(I, EarnedOf, Milestones)
    BY <1>4, <1>6
  <1>8. Milestones \in SUBSET Milestones
    OBVIOUS
  <1> QED BY <1>1, <1>2, <1>7, <1>8, FiniteMilestones, TotalIsSum

\* The same of the commission.
LEMMA FeeIsTotal ==
  ASSUME EarningInv
  PROVE  MapThenSumSet(LAMBDA m : Fee(Earned(m)), Milestones) = Total(FeeOf, Milestones)
  <1> DEFINE P(g) == g = [s \in SUBSET Milestones |->
        IF s = {} THEN 0 ELSE Fee(Earned(CHOOSE x \in s : TRUE)) + g[s \ {CHOOSE x \in s : TRUE}]]
      I == CHOOSE g : P(g)
  <1>1. MapThenSumSet(LAMBDA m : Fee(Earned(m)), Milestones) = I[Milestones]
    BY DEF MapThenSumSet, MapThenFoldSet
  <1> HIDE DEF I
  <1>2. \A m \in Milestones : FeeOf[m] = Fee(Earned(m)) /\ FeeOf[m] \in Int
    BY EarnedType
  <1>3. \A s \in SUBSET Milestones :
          s # {} => FeeOf[CHOOSE x \in s : TRUE] = Fee(Earned(CHOOSE x \in s : TRUE))
    BY <1>2
  <1>4. \A g : P(g) <=> IsSum(g, FeeOf, Milestones)
    BY <1>3 DEF IsSum
  <1>5. \E g : P(g)
    <2>1. PICK h : IsSum(h, FeeOf, Milestones)
      BY <1>2, FiniteMilestones, SumExists
    <2>2. P(h)
      BY <1>4, <2>1
    <2> QED BY <2>2
  <1>6. P(I)
    BY <1>5 DEF I
  <1>7. IsSum(I, FeeOf, Milestones)
    BY <1>4, <1>6
  <1>8. Milestones \in SUBSET Milestones
    OBVIOUS
  <1> QED BY <1>1, <1>2, <1>7, <1>8, FiniteMilestones, TotalIsSum

\* Nothing is earned initially.
LEMMA InitEarnings ==
  ASSUME Init
  PROVE  /\ EarningInv
         /\ wallet = 0 /\ commission = 0
         /\ Total(EarnedOf, Milestones) = 0 /\ Total(FeeOf, Milestones) = 0
  <1>1. EarningInv
    BY DEF Init, LedgerInit, EscrowInit, DisputesInit, EarningInv, ReleaseInv, MilestoneStatus,
       DisputeStatus
  <1>2. Fee(0) = 0
    BY ConstantsAssumption DEF Fee
  <1>3. \A m \in Milestones : Earned(m) = 0
    BY DEF Earned, Init, EscrowInit
  <1>4. \A m \in Milestones : EarnedOf[m] = 0 /\ FeeOf[m] = 0
    BY <1>2, <1>3 DEF EarnedOf, FeeOf
  <1>5. wallet = 0 /\ commission = 0
    BY DEF Init, LedgerInit
  <1>6. Total(EarnedOf, Milestones) = 0
    BY <1>4, FiniteMilestones, TotalZero
  <1>7. Total(FeeOf, Milestones) = 0
    BY <1>4, FiniteMilestones, TotalZero
  <1> QED BY <1>1, <1>5, <1>6, <1>7

\* The inductive invariant: the two accounts and the totals.
PaidOnceInv ==
  /\ EarningInv
  /\ wallet + commission - Total(EarnedOf, Milestones) = 0
  /\ commission - Total(FeeOf, Milestones) = 0

\* A milestone pays its freelancer once, the contracted amount or the award,
\* and the platform the commission on it: release_milestone and
\* resolve_dispute credit the accounts once per milestone, under requests that
\* overlap, late captures and changed decisions, and nothing else ever does.
THEOREM FreelancersPaidOnce == Spec => []FreelancerPaidOnce
  <1>1. Init => PaidOnceInv
    BY InitEarnings DEF PaidOnceInv
  <1>2. ASSUME PaidOnceInv, Next PROVE PaidOnceInv'
    <2>1. /\ EarningInv'
          /\ wallet' + commission' - Total(EarnedOf', Milestones)
               = wallet + commission - Total(EarnedOf, Milestones)
          /\ commission' - Total(FeeOf', Milestones) = commission - Total(FeeOf, Milestones)
      BY <1>2, EarningStep DEF PaidOnceInv
    <2>2. /\ wallet + commission - Total(EarnedOf, Milestones) = 0
          /\ commission - Total(FeeOf, Milestones) = 0
      BY <1>2 DEF PaidOnceInv
    <2>3. /\ wallet' + commission' - Total(EarnedOf', Milestones) = 0
          /\ commission' - Total(FeeOf', Milestones) = 0
      BY <2>1, <2>2, Zenon
    <2> QED BY <2>1, <2>3, Zenon DEF PaidOnceInv
  <1>3. ASSUME PaidOnceInv, UNCHANGED vars PROVE PaidOnceInv'
    <2>1. UNCHANGED <<wallet, commission, posted, status, dispute, award>>
      BY <1>3 DEF vars, escrowVars, ledgerVars, disputeVars
    <2>2. EarnedOf' = EarnedOf /\ FeeOf' = FeeOf
      BY <2>1 DEF EarnedOf, FeeOf, Earned, Fee
    <2> QED BY <1>3, <2>1, <2>2 DEF PaidOnceInv, EarningInv, ReleaseInv
  <1>4. ASSUME PaidOnceInv PROVE FreelancerPaidOnce
    <2>1. \A m \in Milestones : EarnedOf[m] \in Int /\ FeeOf[m] \in Int
      BY <1>4, EarnedType DEF PaidOnceInv
    <2>2. Total(EarnedOf, Milestones) \in Int /\ Total(FeeOf, Milestones) \in Int
      BY <2>1, FiniteMilestones, TotalType
    <2>3. wallet \in Int /\ commission \in Int
      BY <1>4 DEF PaidOnceInv, EarningInv
    <2>4. wallet + commission = Total(EarnedOf, Milestones) /\ commission = Total(FeeOf, Milestones)
      <3>1. \A t \in Int : wallet + commission - t = 0 => wallet + commission = t
        BY <2>3
      <3>2. \A t \in Int : commission - t = 0 => commission = t
        BY <2>3
      <3> QED BY <1>4, <2>2, <3>1, <3>2, Zenon DEF PaidOnceInv
    <2>5. /\ MapThenSumSet(Earned, Milestones) = Total(EarnedOf, Milestones)
          /\ MapThenSumSet(LAMBDA m : Fee(Earned(m)), Milestones) = Total(FeeOf, Milestones)
      BY <1>4, EarnedIsTotal, FeeIsTotal DEF PaidOnceInv
    <2> QED BY <2>4, <2>5 DEF FreelancerPaidOnce
  <1> QED BY <1>1, <1>2, <1>3, <1>4, PTL DEF Spec
=============================================================================
