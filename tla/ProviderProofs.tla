--------------------------- MODULE ProviderProofs ---------------------------
(***************************************************************************)
(* Proofs about Provider for any number of idempotency keys and of faults: *)
(* what the platform believes of a payment is true at Stripe, and the      *)
(* employer is charged once.                                               *)
(***************************************************************************)
EXTENDS Provider, FiniteSetTheorems, TLAPS

EventTypes == {"completed", "async_payment_succeeded", "async_payment_failed", "expired"}

\* The variables the safety properties depend on have the types of the
\* columns and of Stripe's objects; the job of reconciliation only reads them.
ProviderTypeOK ==
  /\ session \in [Keys -> {"none", "open", "processing", "paid", "failed", "expired"}]
  /\ emitted \subseteq [key : Keys, type : EventTypes, paid : BOOLEAN]
  /\ stripeRefund \in [Keys -> {"none", "pending", "succeeded", "failed"}]
  /\ funding \in Keys \cup {None}
  /\ intent \in [Keys -> {"NONE", "PENDING", "CAPTURED", "FAILED"}]
  /\ answered \subseteq Keys
  /\ refund \in [Keys -> {"NONE", "RESERVED", "PENDING", "SUCCEEDED", "FAILED"}]

\* What an event says stays true of its session, however late it is delivered.
EventsTrue ==
  \A e \in emitted :
    /\ Translate(e) = "payment.captured" => session[e.key] = "paid"
    /\ Translate(e) = "payment.failed" => session[e.key] \in {"failed", "expired"}

\* The payment may still bring money into escrow or has brought it there.
Active(k) == intent[k] = "PENDING" \/ (intent[k] = "CAPTURED" /\ refund[k] # "SUCCEEDED")

\* A payment is active alone, and none is while a request is on its way to
\* Stripe with a key that has not been answered.
FundedOnce ==
  /\ \A j, k \in Keys : Active(j) /\ Active(k) => j = k
  /\ funding # None => \A k \in Keys : ~Active(k)
  /\ funding \notin answered
  /\ \A k \in Keys : intent[k] # "NONE" => k \in answered

\* Only the address of a stored payment can be paid, and a refund the platform
\* holds for done is done.
MoneyMoved ==
  \A k \in Keys :
    /\ session[k] \in {"processing", "paid", "failed"} => intent[k] # "NONE"
    /\ refund[k] = "SUCCEEDED" => stripeRefund[k] = "succeeded"

ProviderInv == ProviderTypeOK /\ EventsTrue /\ StatusIsTrue /\ FundedOnce /\ MoneyMoved

\* What an event is taken for.
LEMMA TranslateCases ==
  ASSUME NEW e
  PROVE  /\ e.type = "completed" /\ e.paid = FALSE => Translate(e) = "payment.ignored"
         /\ e.type = "completed" /\ e.paid = TRUE => Translate(e) = "payment.captured"
         /\ e.type = "async_payment_succeeded" => Translate(e) = "payment.captured"
         /\ e.type = "async_payment_failed" => Translate(e) = "payment.failed"
         /\ e.type = "expired" => Translate(e) = "payment.failed"
  BY DEF Translate

\* Stripe changes a session: the event it emits is true, and no event spoke of
\* the state it leaves.
LEMMA BecomeStep ==
  ASSUME ProviderInv, NEW k \in Keys, NEW from, NEW to, NEW type, NEW paid \in BOOLEAN,
         Become(k, from, to, Event(k, type, paid)),
         from = "open" => intent[k] # "NONE" \/ to = "expired",
         \/ from = "open" /\ to = "paid" /\ type = "completed" /\ paid = TRUE
         \/ from = "open" /\ to = "processing" /\ type = "completed" /\ paid = FALSE
         \/ from = "processing" /\ to = "paid" /\ type = "async_payment_succeeded" /\ paid = TRUE
         \/ from = "processing" /\ to = "failed" /\ type = "async_payment_failed" /\ paid = FALSE
         \/ from = "open" /\ to = "expired" /\ type = "expired" /\ paid = FALSE
  PROVE  ProviderInv'
  <1> DEFINE event == [key |-> k, type |-> type, paid |-> paid]
  <1>1. /\ session[k] = from /\ session' = [session EXCEPT ![k] = to]
        /\ emitted' = emitted \cup {event}
        /\ UNCHANGED <<stripeRefund, funding, intent, answered, refund>>
    BY DEF Become, Event, localVars
  <1>2. /\ from \in {"open", "processing"} /\ type \in EventTypes
        /\ to \in {"paid", "processing", "failed", "expired"}
    BY DEF EventTypes
  <1>3. event \in [key : Keys, type : EventTypes, paid : BOOLEAN]
    BY <1>2
  <1>4. ProviderTypeOK'
    BY <1>1, <1>2, <1>3 DEF ProviderInv, ProviderTypeOK
  <1>5. session \in [Keys -> {"none", "open", "processing", "paid", "failed", "expired"}]
    BY DEF ProviderInv, ProviderTypeOK
  <1>6. EventsTrue'
    <2>1. ASSUME NEW e \in emitted
          PROVE  /\ Translate(e) = "payment.captured" => session'[e.key] = "paid"
                 /\ Translate(e) = "payment.failed" => session'[e.key] \in {"failed", "expired"}
      <3>1. e.key \in Keys
        BY DEF ProviderInv, ProviderTypeOK
      <3> QED BY <1>1, <1>2, <1>5, <3>1 DEF ProviderInv, EventsTrue
    <2>2. /\ Translate(event) = "payment.captured" => session'[event.key] = "paid"
          /\ Translate(event) = "payment.failed" => session'[event.key] \in {"failed", "expired"}
      <3>1. session'[event.key] = to
        BY <1>1, <1>5
      <3>2. event.type = type /\ event.paid = paid
        OBVIOUS
      <3>3. /\ Translate(event) = "payment.captured" => to = "paid"
            /\ Translate(event) = "payment.failed" => to \in {"failed", "expired"}
        BY <3>2, TranslateCases
      <3> QED BY <3>1, <3>3
    <2> QED BY <1>1, <2>1, <2>2 DEF EventsTrue, Translate
  <1>7. StatusIsTrue' /\ FundedOnce' /\ MoneyMoved'
    BY <1>1, <1>2, <1>5 DEF ProviderInv, StatusIsTrue, FundedOnce, Active, MoneyMoved
  <1> QED BY <1>4, <1>6, <1>7 DEF ProviderInv

\* A refund that ends at Stripe was not booked as done before.
LEMMA SettleStripeRefundStep ==
  ASSUME ProviderInv, NEW k \in Keys, SettleStripeRefund(k) PROVE ProviderInv'
  BY DEF SettleStripeRefund, ProviderInv, ProviderTypeOK, EventsTrue, StatusIsTrue, FundedOnce,
         Active, MoneyMoved, Translate, localVars

\* A funding request begins when no payment of the milestone is active.
LEMMA FundBeginStep ==
  ASSUME ProviderInv, NEW k \in Keys, FundBegin(k) PROVE ProviderInv'
  BY ProviderAssumption
  DEF FundBegin, MilestoneCreated, ProviderInv, ProviderTypeOK, EventsTrue, StatusIsTrue,
      FundedOnce, Active, MoneyMoved, Translate, stripeVars

\* A pending payment is answered again, and no new one is made.
LEMMA FundReuseStep ==
  ASSUME ProviderInv, NEW k \in Keys, FundReuse(k) PROVE ProviderInv'
  BY ProviderAssumption
  DEF FundReuse, ProviderInv, ProviderTypeOK, EventsTrue, StatusIsTrue,
      FundedOnce, Active, MoneyMoved, Translate, stripeVars

\* The answer of a funding request: the session may be an old one of the same
\* key, whose answer was lost, but nobody can have paid it.
LEMMA FundCommitStep ==
  ASSUME ProviderInv, NEW k \in Keys, FundCommit(k) PROVE ProviderInv'
  <1>1. ProviderTypeOK'
    BY DEF FundCommit, CreatePayment, ProviderInv, ProviderTypeOK
  <1>2. k # None /\ k \notin answered /\ intent[k] = "NONE"
    BY ProviderAssumption DEF FundCommit, ProviderInv, FundedOnce
  <1>3. session[k] \in {"none", "open", "expired"}
    BY <1>2 DEF ProviderInv, ProviderTypeOK, MoneyMoved
  <1>4. EventsTrue'
    BY <1>3 DEF FundCommit, CreatePayment, ProviderInv, ProviderTypeOK, EventsTrue, Translate
  <1>5. StatusIsTrue' /\ MoneyMoved'
    BY <1>2, <1>3 DEF FundCommit, CreatePayment, ProviderInv, ProviderTypeOK, StatusIsTrue, MoneyMoved
  <1>6. FundedOnce'
    BY <1>2, ProviderAssumption DEF FundCommit, ProviderInv, ProviderTypeOK, FundedOnce, Active
  <1> QED BY <1>1, <1>4, <1>5, <1>6 DEF ProviderInv

\* The answer is lost: Stripe has a session the platform does not know.
LEMMA FundCrashStep ==
  ASSUME ProviderInv, NEW k \in Keys, FundCrash(k) PROVE ProviderInv'
  <1>1. ProviderTypeOK'
    BY DEF FundCrash, CreatePayment, ProviderInv, ProviderTypeOK
  <1>2. EventsTrue' /\ StatusIsTrue' /\ MoneyMoved'
    BY DEF FundCrash, CreatePayment, ProviderInv, ProviderTypeOK, EventsTrue, Translate,
           StatusIsTrue, MoneyMoved
  <1>3. FundedOnce'
    BY ProviderAssumption DEF FundCrash, ProviderInv, ProviderTypeOK, FundedOnce, Active
  <1> QED BY <1>1, <1>2, <1>3 DEF ProviderInv

\* A webhook, however late and however often delivered, moves the payment only
\* where its session is.
LEMMA WebhookStep ==
  ASSUME ProviderInv, NEW e \in emitted, Webhook(e) PROVE ProviderInv'
  <1>1. e.key \in Keys
    BY DEF ProviderInv, ProviderTypeOK
  <1>2. UNCHANGED <<session, emitted, stripeRefund, funding, answered, refund>>
    BY DEF Webhook, stripeVars
  <1>3. CASE Translate(e) = "payment.captured" /\ Capture(e.key)
    <2>1. session[e.key] = "paid" /\ intent[e.key] \in {"PENDING", "CAPTURED"}
      BY <1>1, <1>3 DEF ProviderInv, ProviderTypeOK, EventsTrue, StatusIsTrue, Capture
    <2>2. ProviderTypeOK' /\ EventsTrue' /\ StatusIsTrue' /\ MoneyMoved'
      BY <1>1, <1>2, <1>3, <2>1
      DEF ProviderInv, ProviderTypeOK, EventsTrue, Translate, StatusIsTrue, MoneyMoved, Capture
    <2>3. FundedOnce'
      BY <1>1, <1>2, <1>3, <2>1 DEF ProviderInv, ProviderTypeOK, FundedOnce, Active, Capture
    <2> QED BY <2>2, <2>3 DEF ProviderInv
  <1>4. CASE Translate(e) = "payment.failed" /\ Fail(e.key)
    <2>1. session[e.key] \in {"failed", "expired"}
      BY <1>1, <1>4 DEF ProviderInv, EventsTrue
    <2>2. ProviderTypeOK' /\ EventsTrue' /\ StatusIsTrue' /\ MoneyMoved'
      BY <1>1, <1>2, <1>4, <2>1
      DEF ProviderInv, ProviderTypeOK, EventsTrue, Translate, StatusIsTrue, MoneyMoved, Fail
    <2>3. FundedOnce'
      BY <1>1, <1>2, <1>4 DEF ProviderInv, ProviderTypeOK, FundedOnce, Active, Fail
    <2> QED BY <2>2, <2>3 DEF ProviderInv
  <1>5. CASE UNCHANGED intent
    BY <1>2, <1>5 DEF ProviderInv, ProviderTypeOK, EventsTrue, Translate, StatusIsTrue,
                      FundedOnce, Active, MoneyMoved
  <1> QED BY <1>3, <1>4, <1>5 DEF Webhook

\* A refund asked for, for the first time or again: what Stripe holds for
\* refunded stays refunded, and the platform stores what Stripe says.
LEMMA RefundStep ==
  ASSUME ProviderInv, NEW k \in Keys, Refund(k) \/ RetryRefund(k) PROVE ProviderInv'
  <1>1. UNCHANGED <<session, emitted, funding, intent, answered>> /\ funding = None
    BY DEF Refund, RetryRefund
  <1>2. AskRefund(k) \/ UNCHANGED stripeRefund
    BY DEF Refund, RetryRefund
  <1>3. /\ stripeRefund' \in [Keys -> {"none", "pending", "succeeded", "failed"}]
        /\ \A j \in Keys : stripeRefund[j] = "succeeded" => stripeRefund'[j] = "succeeded"
    BY <1>2 DEF AskRefund, ProviderInv, ProviderTypeOK
  <1>4. refund' = [refund EXCEPT ![k] = "RESERVED"] \/ Settle(k)
    BY DEF Refund, RetryRefund
  <1>5. PICK s \in {"RESERVED", "PENDING", "SUCCEEDED", "FAILED"} :
          /\ refund' = [refund EXCEPT ![k] = s]
          /\ s = "SUCCEEDED" => stripeRefund'[k] = "succeeded"
    BY <1>4 DEF Settle, RefundStatus
  <1>6. refund[k] # "SUCCEEDED"
    BY DEF Refund, RetryRefund
  <1>7. ProviderTypeOK' /\ EventsTrue' /\ StatusIsTrue' /\ MoneyMoved'
    BY <1>1, <1>3, <1>5
    DEF ProviderInv, ProviderTypeOK, EventsTrue, Translate, StatusIsTrue, MoneyMoved
  <1>8. FundedOnce'
    BY <1>1, <1>5, <1>6 DEF ProviderInv, ProviderTypeOK, FundedOnce, Active
  <1> QED BY <1>7, <1>8 DEF ProviderInv

\* The reconciliation job changes none of the two sides it compares.
LEMMA JobReads ==
  ASSUME ProviderInv, UNCHANGED <<stripeVars, localVars>> PROVE ProviderInv'
  BY DEF ProviderInv, ProviderTypeOK, EventsTrue, Translate, StatusIsTrue, FundedOnce, Active,
         MoneyMoved, stripeVars, localVars

\* The inductive invariant holds in every behaviour.
THEOREM ProviderInvariant == ProviderFairSpec => []ProviderInv
  <1>1. ProviderInit => ProviderInv
    BY ProviderAssumption
    DEF ProviderInit, ProviderInv, ProviderTypeOK, EventsTrue, StatusIsTrue, FundedOnce, Active,
        MoneyMoved
  <1>2. ProviderInv /\ [ProviderNext]_providerVars => ProviderInv'
    <2> SUFFICES ASSUME ProviderInv, [ProviderNext]_providerVars PROVE ProviderInv'
      OBVIOUS
    <2>1. ASSUME NEW k \in Keys, Pay(k) PROVE ProviderInv'
      BY <2>1, BecomeStep DEF Pay, PaymentAction
    <2>2. ASSUME NEW k \in Keys, DelayedPayment(k) PROVE ProviderInv'
      BY <2>2, BecomeStep DEF DelayedPayment
    <2>3. ASSUME NEW k \in Keys, Expire(k) PROVE ProviderInv'
      BY <2>3, BecomeStep DEF Expire
    <2>4. ASSUME JobStep \/ LoseRun PROVE ProviderInv'
      BY <2>4, JobReads
      DEF JobStep, LoseRun, BeginRun, Inspect, ListRefunds, CommitCaptured, Merge
    <2>5. CASE UNCHANGED providerVars
      BY <2>5, JobReads DEF providerVars
    <2> QED
      BY <2>1, <2>2, <2>3, <2>4, <2>5, SettleStripeRefundStep, FundBeginStep, FundReuseStep,
         FundCommitStep, FundCrashStep, WebhookStep, RefundStep DEF ProviderNext
  <1> QED BY <1>1, <1>2, PTL DEF ProviderFairSpec

\* A payment the platform holds for captured was paid at Stripe, and one it gave
\* up can never be paid any more, for any number of keys and of lost answers and
\* in whatever order webhooks are delivered and repeated.
THEOREM StatusIsTrueHolds == ProviderFairSpec => []StatusIsTrue
  <1>1. ProviderInv => StatusIsTrue
    BY DEF ProviderInv
  <1> QED BY <1>1, ProviderInvariant, PTL

\* The employer is charged at most once for the milestone: the payments that
\* took money and were not refunded are active, and one payment is active.
THEOREM ChargedOnceHolds == ProviderFairSpec => []ChargedOnce
  <1>1. ProviderInv => ChargedOnce
    <2> SUFFICES ASSUME ProviderInv PROVE ChargedOnce
      OBVIOUS
    <2> DEFINE charged == {k \in Keys : session[k] \in {"processing", "paid"}
                                        /\ stripeRefund[k] # "succeeded"}
    <2>1. \A k \in charged : Active(k)
      BY DEF ProviderInv, ProviderTypeOK, StatusIsTrue, MoneyMoved, Active
    <2>2. \A j, k \in charged : j = k
      BY <2>1 DEF ProviderInv, FundedOnce
    <2>3. CASE charged = {}
      BY <2>3, FS_EmptySet DEF ChargedOnce
    <2>4. CASE charged # {}
      <3>1. PICK k \in charged : TRUE
        BY <2>4
      <3>2. charged = {k}
        BY <2>2, <3>1
      <3> HIDE DEF charged
      <3>3. Cardinality(charged) = 1
        BY <3>2, FS_Singleton
      <3> QED BY <3>3 DEF ChargedOnce, charged
    <2> QED BY <2>3, <2>4
  <1> QED BY <1>1, ProviderInvariant, PTL

=============================================================================
