------------------------------ MODULE Provider ------------------------------
(***************************************************************************)
(* The payment provider as the platform sees it: the Stripe adapter        *)
(* (payments/providers/stripe.py), the funding request and the webhooks    *)
(* that use it, and the reconciliation job that compares both sides        *)
(* (payments/reconciliation.py).  One milestone is funded through one      *)
(* provider; every funding request is named by its idempotency key.        *)
(* Escrow says what a capture and a refund do to the money; here is which  *)
(* of the provider's states and events the platform takes for which.       *)
(***************************************************************************)
EXTENDS Naturals, FiniteSets

CONSTANTS Keys,       \* idempotency keys of funding requests
          None,       \* no key
          MaxFaults   \* how often a process dies or the provider is unreachable

ASSUME ProviderAssumption == None \notin Keys /\ MaxFaults \in Nat

VARIABLES
  session,    \* external: per key, the Checkout session
  emitted,    \* external: the session events Stripe delivers, any number of times
  stripeRefund, \* external: per key, the refund of its payment
  funding,    \* the key whose request holds the milestone's row lock
  intent,     \* PaymentIntent.status per key
  answered,   \* keys whose idempotency record has its response
  processed,  \* ProviderEvent rows
  refund,     \* Refund.status of a payment; RESERVED is PENDING without a reference
  job,        \* where the reconciliation job is
  todo,       \* the rows it listed and has not compared yet
  found,      \* the discrepancies it holds in memory
  reported,   \* the discrepancies in reconciliation_runs
  faults

stripeVars == <<session, emitted, stripeRefund>>
localVars == <<funding, intent, answered, processed, refund>>
jobVars == <<job, todo, found, reported>>
providerVars == <<stripeVars, localVars, jobVars, faults>>

ProviderInit ==
  /\ session = [k \in Keys |-> "none"]
  /\ emitted = {} /\ processed = {}
  /\ stripeRefund = [k \in Keys |-> "none"]
  /\ funding = None
  /\ intent = [k \in Keys |-> "NONE"]
  /\ answered = {}
  /\ refund = [k \in Keys |-> "NONE"]
  /\ job = "idle" /\ todo = {} /\ found = {} /\ reported = {}
  /\ faults = 0
-----------------------------------------------------------------------------
(* External: Stripe.  A session is open until it is paid at once, completed  *)
(* with a delayed payment method, or expired.                              *)

Event(k, type, paid) == [key |-> k, type |-> type, paid |-> paid]

Become(k, from, to, event) ==
  /\ session[k] = from
  /\ session' = [session EXCEPT ![k] = to]
  /\ emitted' = emitted \cup {event}
  /\ UNCHANGED <<stripeRefund, localVars, jobVars, faults>>

\* get_payment_action: the address of an open session, of a stored intent.
PaymentAction(k) == intent[k] # "NONE" /\ session[k] = "open"

\* The employer pays at that address.
Pay(k) ==
  /\ PaymentAction(k)
  /\ \/ Become(k, "open", "paid", Event(k, "completed", TRUE))
     \/ Become(k, "open", "processing", Event(k, "completed", FALSE))

DelayedPayment(k) ==
  \/ Become(k, "processing", "paid", Event(k, "async_payment_succeeded", TRUE))
  \/ Become(k, "processing", "failed", Event(k, "async_payment_failed", FALSE))

Expire(k) == Become(k, "open", "expired", Event(k, "expired", FALSE))

\* A refund the bank had not settled is settled.
SettleStripeRefund(k) ==
  /\ stripeRefund[k] = "pending"
  /\ \E outcome \in {"succeeded", "failed"} :
       stripeRefund' = [stripeRefund EXCEPT ![k] = outcome]
  /\ UNCHANGED <<session, emitted, localVars, jobVars, faults>>
-----------------------------------------------------------------------------
(* The adapter: what the platform makes of Stripe's states and events.      *)

\* _checkout_status.  A delayed payment that failed leaves the session complete
\* and unpaid, which reads like one that is still under way.
CheckoutStatus(k) ==
  CASE session[k] = "paid"    -> "CAPTURED"
    [] session[k] = "expired" -> "CANCELLED"
    [] OTHER                  -> "PENDING"

\* _refund_status.
RefundStatus(k) ==
  CASE stripeRefund[k] = "succeeded" -> "SUCCEEDED"
    [] stripeRefund[k] = "failed"    -> "FAILED"
    [] OTHER                         -> "PENDING"

\* Mutant: a completed session counts as paid.
TranslateCompleted(e) ==
  IF e.type \in {"completed", "async_payment_succeeded"}
  THEN "payment.captured" ELSE "payment.failed"

\* verify_webhook, for an event whose signature is Stripe's.
Translate(e) ==
  IF e.type \in {"completed", "async_payment_succeeded"}
  THEN IF e.type = "completed" /\ ~e.paid THEN "payment.ignored" ELSE "payment.captured"
  ELSE "payment.failed"
-----------------------------------------------------------------------------
(* Funding: fund_milestone with claim_idempotency.                          *)

\* A milestone goes back to CREATED when its refund succeeded.
MilestoneCreated ==
  \A k \in Keys : intent[k] = "CAPTURED" => refund[k] = "SUCCEEDED"

\* Mutant: the request does not look for a pending payment.
FundBeginAlways(k) ==
  /\ funding = None
  /\ k \notin answered
  /\ MilestoneCreated
  /\ funding' = k
  /\ UNCHANGED <<stripeVars, intent, answered, processed, refund, jobVars, faults>>

\* The milestone is locked, the key is new or unanswered, and there is no
\* pending payment: the request goes on to the provider.
FundBegin(k) ==
  /\ funding = None
  /\ k \notin answered
  /\ MilestoneCreated
  /\ \A j \in Keys : intent[j] # "PENDING"
  /\ funding' = k
  /\ UNCHANGED <<stripeVars, intent, answered, processed, refund, jobVars, faults>>

\* There is one: it is the answer.
FundReuse(k) ==
  /\ funding = None
  /\ k \notin answered
  /\ MilestoneCreated
  /\ \E j \in Keys : intent[j] = "PENDING"
  /\ answered' = answered \cup {k}
  /\ UNCHANGED <<stripeVars, funding, intent, processed, refund, jobVars, faults>>

\* create_payment: Stripe answers a repeated key with the session it made for it.
CreatePayment(k) ==
  session' = [session EXCEPT ![k] = IF @ = "none" THEN "open" ELSE @]

FundCommit(k) ==
  /\ funding = k
  /\ CreatePayment(k)
  /\ intent' = [intent EXCEPT ![k] = "PENDING"]
  /\ answered' = answered \cup {k}
  /\ funding' = None
  /\ UNCHANGED <<emitted, stripeRefund, processed, refund, jobVars, faults>>

\* Stripe's answer is lost, or the transaction dies with it: nothing is stored.
FundCrash(k) ==
  /\ funding = k
  /\ faults < MaxFaults
  /\ faults' = faults + 1
  /\ CreatePayment(k)
  /\ funding' = None
  /\ UNCHANGED <<emitted, stripeRefund, intent, answered, processed, refund, jobVars>>
-----------------------------------------------------------------------------
(* process_provider_webhook.                                                *)

Capture(k) ==
  /\ intent[k] # "NONE"           \* unknown: 404, and the event row is rolled back
  /\ funding = None               \* _capture_intent locks the milestone
  /\ \A j \in Keys \ {k} :        \* the escrow has room for the amount
       intent[j] = "CAPTURED" => refund[j] \notin {"NONE", "FAILED"}
  /\ intent' = [intent EXCEPT ![k] = "CAPTURED"]

\* An unknown payment is ignored, and the event is processed.
Fail(k) ==
  intent' = [intent EXCEPT ![k] = IF @ = "PENDING" THEN "FAILED" ELSE @]

Webhook(e) ==
  /\ e \notin processed
  /\ \/ Translate(e) = "payment.captured" /\ Capture(e.key)
     \/ Translate(e) = "payment.failed" /\ Fail(e.key)
     \/ Translate(e) = "payment.ignored" /\ UNCHANGED intent
  /\ processed' = processed \cup {e}
  /\ UNCHANGED <<stripeVars, funding, answered, refund, jobVars, faults>>
-----------------------------------------------------------------------------
(* refund_milestone, as far as its provider calls go.                       *)

Settle(k) ==
  refund' = [refund EXCEPT ![k] = RefundStatus(k)']

\* provider.refund or verify_refund: a request with the same key, or with the
\* stored reference, finds the refund there is.
AskRefund(k) ==
  IF stripeRefund[k] = "none"
  THEN \E outcome \in {"pending", "succeeded", "failed"} :
         stripeRefund' = [stripeRefund EXCEPT ![k] = outcome]
  ELSE UNCHANGED stripeRefund

\* The refund is reserved and the provider called; the call or its answer may
\* be lost.
Refund(k) ==
  /\ funding = None
  /\ intent[k] = "CAPTURED" /\ refund[k] = "NONE"
  /\ \/ AskRefund(k) /\ Settle(k) /\ UNCHANGED faults
     \/ /\ faults < MaxFaults
        /\ faults' = faults + 1
        /\ AskRefund(k) \/ UNCHANGED stripeRefund
        /\ refund' = [refund EXCEPT ![k] = "RESERVED"]
  /\ UNCHANGED <<session, emitted, funding, intent, answered, processed, jobVars>>

\* The request is repeated.
RetryRefund(k) ==
  /\ funding = None
  /\ refund[k] \in {"RESERVED", "PENDING"}
  /\ AskRefund(k)
  /\ Settle(k)
  /\ UNCHANGED <<session, emitted, funding, intent, answered, processed, jobVars, faults>>
-----------------------------------------------------------------------------
(* reconcile_provider, started by the beat.                                 *)

\* _inspect_pending_provider_state lists the pending payments, asks for each,
BeginRun ==
  /\ job = "idle"
  /\ job' = "payments"
  /\ todo' = {k \in Keys : intent[k] = "PENDING"}
  /\ UNCHANGED <<stripeVars, localVars, found, reported, faults>>

Inspect ==
  /\ job \in {"payments", "refunds"}
  /\ \E k \in todo :
       /\ todo' = todo \ {k}
       /\ found' = IF (IF job = "payments" THEN CheckoutStatus(k) ELSE RefundStatus(k)) # "PENDING"
                   THEN found \cup {<<job, k>>} ELSE found
  /\ UNCHANGED <<stripeVars, localVars, job, reported, faults>>

\* then does the same with the pending refunds whose reference it has.
ListRefunds ==
  /\ job = "payments" /\ todo = {}
  /\ job' = "refunds"
  /\ todo' = {k \in Keys : refund[k] = "PENDING"}
  /\ UNCHANGED <<stripeVars, localVars, found, reported, faults>>

\* The captured payments are compared, and the run is committed with what that
\* finds.
CommitCaptured ==
  /\ job = "refunds" /\ todo = {}
  /\ job' = "merge"
  /\ reported' = reported \cup
       {<<"captured", k>> : k \in {c \in Keys :
          intent[c] = "CAPTURED" /\ CheckoutStatus(c) # "CAPTURED"}}
  /\ UNCHANGED <<stripeVars, localVars, todo, found, faults>>

\* Mutant: the discrepancies found first are left out of the committed run.
MergeForgotten ==
  /\ job = "merge"
  /\ job' = "idle"
  /\ found' = {}
  /\ UNCHANGED <<stripeVars, localVars, todo, reported, faults>>

\* A second transaction adds the discrepancies found before it.
Merge ==
  /\ job = "merge"
  /\ job' = "idle"
  /\ reported' = reported \cup found
  /\ found' = {}
  /\ UNCHANGED <<stripeVars, localVars, todo, faults>>

\* ProviderTemporaryError, or the worker dies; the task is started again.
LoseRun ==
  /\ job # "idle"
  /\ faults < MaxFaults
  /\ faults' = faults + 1
  /\ job' = "idle" /\ todo' = {} /\ found' = {}
  /\ UNCHANGED <<stripeVars, localVars, reported>>

JobStep == BeginRun \/ Inspect \/ ListRefunds \/ CommitCaptured \/ Merge
-----------------------------------------------------------------------------
ProviderNext ==
  \/ \E k \in Keys : \/ Pay(k) \/ DelayedPayment(k) \/ Expire(k) \/ SettleStripeRefund(k)
                     \/ FundBegin(k) \/ FundReuse(k) \/ FundCommit(k) \/ FundCrash(k)
                     \/ Refund(k) \/ RetryRefund(k)
  \/ \E e \in emitted : Webhook(e)
  \/ JobStep
  \/ LoseRun

\* The beat starts the job again and again, and a started one goes on.  Nothing
\* is assumed of the webhooks: any of them may stay away for ever.
ProviderFairSpec == ProviderInit /\ [][ProviderNext]_providerVars /\ WF_providerVars(JobStep)
-----------------------------------------------------------------------------
\* Whatever the order of the webhooks: a payment the platform holds for captured
\* was paid at Stripe, and one it gave up can never be paid any more.
StatusIsTrue ==
  \A k \in Keys :
    /\ intent[k] = "CAPTURED" => session[k] = "paid"
    /\ intent[k] = "FAILED" => session[k] \in {"failed", "expired"}

\* The employer is never charged twice for one milestone: of the payments made
\* for it through lost answers, retries and new keys, all but one are refunded.
ChargedOnce ==
  Cardinality({k \in Keys : session[k] \in {"processing", "paid"}
                            /\ stripeRefund[k] # "succeeded"}) =< 1

\* A payment or refund that Stripe reports as settled while the platform still
\* waits for it (its webhook lost, its request never repeated) ends up in a
\* reconciliation run, unless the platform learns of it first.
DriftFound ==
  \A k \in Keys :
    /\ (intent[k] = "PENDING" /\ CheckoutStatus(k) # "PENDING")
         ~> (intent[k] # "PENDING" \/ <<"payments", k>> \in reported)
    /\ (refund[k] = "PENDING" /\ RefundStatus(k) # "PENDING")
         ~> (refund[k] # "PENDING" \/ <<"refunds", k>> \in reported)
=============================================================================
