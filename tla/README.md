# A TLA+ model of the freelancing platform

This directory models the core of the platform's backend (`src/app`), a Flask
application over PostgreSQL, and checks and proves what makes it correct: how a
client's payment gets into escrow, what may happen to it there, and how it leaves - by
release, refund or a dispute's decision - for the client or for a freelancer's bank
account; what the platform takes from Stripe's events for that; how the contract behind it
comes about, from proposals to signatures; and around it logins and recovery codes,
messages and notifications, calls, scanned files and the search projection.

* [The system](#the-system) and its parts
* [The modules](#the-modules) and how they correspond to the code
* [The runs](#the-runs): what TLC checks, with which bounds
* [The theorems](#the-theorems): what TLAPS proves, and how
* [Where code and documents disagree](#where-code-and-documents-disagree)
* [What is left out](#what-is-left-out) and [the plan](#the-plan)

`PROJECT.json` lists components, runs, mutants, hazards and theorems, and maps each
definition to the source lines it stands for.

## The system

Every HTTP request runs in one process with one SQLAlchemy session, which is one
database transaction (READ COMMITTED) unless the handler commits in the middle.
Three facts about this shape most of the behaviour:

* **Row locks.** A handler locks with `SELECT ... FOR UPDATE`. Two handlers on one
  milestone are serialised by the milestone's row.
* **The session does not refresh.** An object that is already loaded keeps its
  attributes when a later locking query returns its row, unless the query says
  `populate_existing` or a commit expired the object. A status read early is the one
  the handler acts on.
* **The provider is outside.** Payment, refund and transfer happen at Stripe (or in the
  sandbox), under an idempotency key. An answer may be lost; a process may die at any
  point; a rollback undoes rows, never what the provider did.

| part | state | operations | who it talks to | what must hold |
| --- | --- | --- | --- | --- |
| ledger | accounts, journals, entries | `post_journal`, balances | called by all money handlers | balanced journals, each identity posted once |
| payments | payment intents, escrows, refunds, provider events | fund, webhook, release, refund, reconcile | ledger, milestones, provider | escrow agrees with status; no money twice |
| milestones | status | start, submit, request changes, approve | payments (funding check) | work only on funded milestones |
| contracts | status, versions, signatures | create, sign, cancel | proposals, milestones | cancelled means nothing in escrow |
| disputes | case, evidence, decision | open, evidence, administration, resolve | milestones, ledger, provider | freeze excludes release; provider agrees with decision |
| payouts | provider accounts, payouts | configure, disable, pay out | ledger (wallet), provider | wallet never overdrawn; never redirected |
| projects, proposals | status, versions | create, revise, transition, close | contracts | one accepted proposal, of the accepted version |
| identity | users, sessions, MFA | register, login, refresh, revoke, enrol | all | lockout, one live refresh token per session |
| outbox, notifications, search | events, receipts, notifications, index | drain | Celery workers, Redis, Elasticsearch | each event once; index never goes back |
| files | objects, scan receipts | upload, complete, scan, download | object store, scanner | only scanned content is served |
| messaging, realtime, calls | conversations, receipts, call sessions, presence | send, deliver, read, invite, accept, end | Socket.IO, Redis | gap-free order, monotone receipts, one live call |
| fraud, recommendations, reviews, gigs, portfolios, profiles, audit | rows | edits, scoring | - | single-transaction edits |

What is hard here: a refund and a payout span two transactions with a provider call
between them (crash, lost answer, repeated request, stale row); webhooks come late,
repeatedly and concurrently with requests; funding and cancellation lock the same two
rows in an order that lets one overlook the other; proposals are changed and accepted
without any lock; a dispute may freeze a milestone
whose money a refund has set aside; a decision's refund is paid inside a transaction
that may still fail; profile edits count versions without a lock; workers take the same
outbox rows and die at any point; sockets drop between a commit and its broadcast; events
of two calls reach a page in any order. `PROJECT.json` lists each hazard at its line with the properties that
would catch it.

## The modules

    Ledger ── Escrow ── Disputes ── EscrowSystem ──┬── MCEscrow          (TLC)
                                     │  │          └── EscrowProofs      (TLAPS)
                        EscrowBox ───┘  │                   │
               Payouts ─────────────────┴─ MoneySystem ──┬──┼─ MCMoney   (TLC)
                                                         └──┴─ MoneyProofs (TLAPS)
    Conversation ── Communication ── MCCommunication, CommunicationProofs
    Provider ── MCProvider, ProviderProofs
    Identity ── MCIdentity, IdentityProofs
    Calls ── MCCalls, CallsProofs
    Files ── MCFiles, FilesProofs
    Hiring ── MCHiring ──────────┬── MarketplaceProofs
    SearchProjection ── MCSearch ┘   (extends Hiring and SearchProjection)

**Ledger** (`app/ledger`). Balances per account (credits minus debits) and the set of
journal identities. `PostJournal` is `post_journal`: it is disabled for an unbalanced
journal, does nothing for an identity that exists, and otherwise adds the entries. The
balances stand for the sums `account_balance_minor` computes; since journals are only
added, the sum and the running balance are the same number. Currency is one and fixed.

**Escrow** (`app/payments/service.py`, `app/milestones/service.py`, `cancel_contract`). One
active contract with any number of milestones. A handler that is one transaction is one
action; a refusal changes nothing and is no step. Three handlers are split:

* *Funding* and *capture* lock the milestone (reading the contract's status with it) and
  then the contract, whose refreshed status they do not look at. `FundBegin`/`FundCommit`
  and `CaptureBegin`/`CaptureCommit` have everything else in between; `holder[m]` is the
  row lock. `FundCrash` is the transaction that dies after the provider created the
  payment, `Rollback` every other way to end without effect.
* *A refund's first attempt* is `RefundReserve` (which chooses the payment, `refundOf`, and
  commits), `RefundCall` (no lock, the refund row read before it), `RefundSettle` (second transaction, on the status read before the
  call). `RefundCrash` is a death before the second commit.
* *A replay* (same key, refund still PENDING) looks for the payment again and calls the
  provider with the locks held: `RefundReplay`, one action.

The provider's side is explicit: `payment`, `provRefund`, `refundOf`. `Outcomes` says what
a provider may make of a refund (pending ones may turn out either way, ended ones do not
change, a repeated key is the same refund) and `Reports` which answers a state allows.
`TEMPORARY` is `ProviderTemporaryError`; `ERROR` is any other exception of the adapter and,
like `TEMPORARY`, says nothing of what happened there; `MISMATCH` is an answer with
another amount, currency or reference. An exception of `verify_refund` leaves the handler
without settling, which `TEMPORARY` stands for. Providers, `Outcomes`, `Reports` and
`ProviderPays` are external: they are written from how the adapters in
`app/payments/providers` are used.

**Disputes** (`app/disputes/service.py`). `OpenDispute` freezes, `AdminTransition` walks
`_ADMIN_TRANSITIONS`, `ResolveDispute` distributes the escrow in one transaction whose refund
part the provider pays before the commit; `ResolveCrash` is that transaction failing after
the provider was asked. The provider's key is a digest of the dispute and of the request's own
`Idempotency-Key`, so `disputeRefund[m][k]` is what the provider has refunded for `m` under key `k`
of `DecisionKeys`: the same key again is the same refund, another key another refund, whatever the
decision is each time. `decisionRefund[m]` is the key of the refund row the decision refers to.

**EscrowBox** is the promise: a milestone's box is open, held, reserved or closed; money
goes in whole, is set aside whole for a refund, and leaves once. **EscrowSystem** composes
the three modules above, states the properties, and implements the box under the mapping
`phase` (from status and pending refunds), `cash` (the escrow balance).

**Payouts** (`app/payouts`). `ConfigureAccount`, `DisableAccount`, and a payout in the same
shape as a refund: reserve with a snapshot of the destination, call, settle, crash,
replay. **MoneySystem** puts escrow and payouts over one ledger: the wallet is where they meet.

**Hiring** (`app/proposals/service.py`, creation, signing and cancellation in
`app/contracts/service.py`, `close_project`). One project, a proposal per freelancer. The
proposal handlers lock no row: a request reads and checks (`ReadForCreate`, `ReadForVersion`,
`ReadForTransition`), and writes at its commit (`CommitCreate`, `CommitVersion`,
`CommitTransition`, `CommitAccept`), where only the unique constraints are looked at again;
`AbortRequest` is a request that fails on one, or dies. `request[r]` holds what a request
wants and the version it has read; the status it has read is not used after the
check. The contract's handlers take its row lock and are one action each. The terms of a
version are its number: what matters is which version a contract snapshots. `work` stands
for the milestones of the contract (module Escrow has them in detail): not started, under
way or all released; one that was funded and refunded again is not started. `CloseProject`
reads without a lock but is one step, since a released milestone stays released and keeps its
contract from being cancelled.

**Provider** (`payments/providers/stripe.py`, `payments/reconciliation.py`, the webhook's and
funding's use of both). Escrow takes it as given that the provider's word is true; here is
why it is. Stripe's side is external: a Checkout session is open, paid at once, processing a
delayed payment method, paid or failed later, or expired, and emits an event with each
change; `emitted` is a set any member of which may be delivered at any time and any number of
times, or never. `Translate` is `verify_webhook`, `CheckoutStatus` and `RefundStatus` are the
adapter's mappings of what it retrieves, `Webhook` is `process_provider_webhook` with its
`ProviderEvent` row. A funding request holds the milestone's lock over the provider call
(`FundBegin`, `CreatePayment`, `FundCommit`), or finds a pending payment (`FundReuse`), or loses
the answer (`FundCrash`). The reconciliation job lists pending payments, asks for each, does
the same with refunds, compares the captured ones and commits, and adds what it had found
first in a second transaction: `BeginRun`, `Inspect`, `ListRefunds`, `CommitCaptured`, `Merge`,
and `LoseRun` anywhere between.

**Identity** (`app/identity`). One user. `login_user` locks the user's row (`holder`), the
other handlers do not: `request[r]` holds what a request has read, and its `Commit...`
action writes the columns SQLAlchemy found changed and no others, which is what keeps a
refresh from undoing a revocation. A recovery code is a row that is locked while it is used;
the deletion of old codes waits for it. Tokens, seeds and codes are numbers: only whether two
are the same matters. `LockExpires`, `SessionExpires` and `StepUpExpires` are time passing.

**Conversation** and **Communication** (`app/messaging`, `app/notifications`, the message
handlers of `app/realtime/socket.py`, and the conversation page). Conversation has the
server's rows and threads, and a page per member: a call travels to a thread, the thread locks
the conversation (`Lock`), commits (`CommitMessage`, `RepeatMessage`, `CommitReceipts`) and
then answers and broadcasts (`Answer`), and each arrow may break (`Crash`, `Drop`). The page
lists, merges, keeps `latestSequence` and the id of an unacknowledged send, and sends it again
by REST. Communication adds the outbox and the notification workers: `Collect` (a listing
without locks), `TakeEvent` (row lock), `Consume` (the second look, notification, receipt,
commit), `Announce`, `WorkerDies`. `roles` fixes at the start who writes, who sits at a page
and which workers run, so that one run covers several mixes.

**Calls** (`app/calls`, its socket handlers, `rtc-controller.ts`). `work` is the set of
handlers under way, each at SENT, LOCKED, COMMITTED or PUBLISHED; `inbox` what the socket has
still to deliver, answers and events in the order they were emitted. The page's handlers act on
the call they believe in. `invite_call` locks the conversation, `accept_call` and `end_call`
the call; signalling locks nothing. A page does not serialise its handlers either. Those that
wait are in `tasks`: after `call.accept` (`OnAccept`) and `webrtc.offer` (`OnOffer`) the page waits for
camera and microphone (`MediaReady`) and for the list of ICE servers (`IceReady`), and only then
stores the connection (`peer`), sets the description (`remote`) and signals (`Negotiate`), or throws
(`HandlerThrows`); events, answers and other handlers of the same page come in between.
`start` and `accept` wait for the media prompt before they send anything (`Start`/`Invite`,
`Accept`/`SendAccept`, `PromptDenied`). `interrupted` is a history variable: the pages whose
last `CleanUp` came while a handler of theirs was waiting. What is awaited once the connection is there
(`createOffer`, `createAnswer`, `setLocalDescription`) is part of the request's way to the server.
`restore`, which a page calls when it is opened, is not modelled.

**Files** (`app/files`, `_validated_attachments`, `add_evidence`). Two files, an object each that the presigned
URL may overwrite until it expires, completion, the scan event and its workers, the verdict
with the digest of what was read, and the use of a SAFE file: as a message's attachment
(`Attach`) or, with the file's row locked, as a dispute's evidence (`AddEvidence`).

**SearchProjection** (`app/search`, and the handlers that call `touch_search_projection`). An
edit reads the profile (`BeginEdit`) and commits one more than the version it has read, with an
outbox event. A drain takes the unpublished events it can lock (`Take`), loads the profile once
(`Load`), builds and sends a document per event (`Build`, `Send`, versioned by
`external_gte`), and publishes them all (`CommitDrain`), or meets a conflict and rolls back
(`Conflict`). A document has the profile's columns as loaded and the rows beside it as they are.

Three constants say what the environment may do; the code does not exclude any of them,
and each is a separate question:

| constant | TRUE means | why FALSE is a case of its own |
| --- | --- | --- |
| `Overlap` | a client repeats a refund request while the first is being served | a client that waits for its answer, as `docs/stripe-payments.md` describes |
| `LateCapture` | a provider captures a payment it has reported as failed | Stripe's checkout failures are final |
| `PayoutOverlap` | as `Overlap`, for payouts | as `Overlap` |

A fourth, `DecisionKeys`, is the set of `Idempotency-Key`s that administrators send with a
decision: with one, a decision that failed is tried again under its own key; with two, also under
a new one. In both cases it may be another decision, since a request that fails leaves no row.

Definitions named after a handler with a suffix (`StartMilestoneUnfunded`,
`FailRefundNoReversal`, ...) and introduced by "Mutant:" are plausible mistakes in that
handler. They are used by no specification; each is there to show that a property notices
when the handler is replaced by it.

## The runs

All runs but `provider` switch deadlock checking off: a contract that is released or
cancelled, a conversation whose messages are all delivered, a file in use are done.

**escrow_core** (`MCEscrow.cfg`, 106,056 states, `FairSpec`). One milestone of amount 2 with
commission 5000 bps (so that `Fee` rounds: 1 of 2 and 0 of 1), two payments and two refund keys:
enough to fund, refund, fund again and refund again, with a crash, a lost answer or a replay at
every point, and with disputes and cancellation in between; two decision keys, so that a decision
that failed comes again under its key or the other. `Overlap` and `LateCapture` are FALSE, which is
where the exact statements hold. Checks:

* `EscrowMatchesStatus` - balance, status and pending refunds agree in every state;
* `CapturedMoneyAccounted` - each captured payment is in exactly one place;
* `RefundsOfDistinctPayments` - the second refund is of the second payment;
* `ProviderHasPaid` - what the books call refunded was refunded;
* `DecisionRefundWasPaid` - the refund row of a decision stands for a refund of exactly the client's
  part, under the key the row has, although earlier requests may have refunded other amounts;
* `FreelancerPaidOnce` - wallet and commission are the earnings, rounded per milestone;
* `CancelledIsEmpty`, `FreezeExcludesRelease` - races between cancellation and a capture that has read
  the contract before, between release and dispute;
* `RefundCommitsOnce` (action property) - FUNDED goes back to CREATED only by a pending
  refund's success;
* `ImplementsBox` - refinement of EscrowBox;
* `RefundSettles` - a reserved refund is settled unless a dispute is opened over it;
* `CapturedReachesEscrow` - a captured payment with a pending intent reaches escrow unless the
  contract is cancelled.

The fairness behind the last two: transactions end (WF of `Rollback`, and of
`RefundCall`/`RefundCrash`); clients repeat a pending refund with its key and the provider
does not answer "pending" for ever (SF of an answered replay; `docs/stripe-payments.md` makes
the retry the client's duty, and nothing in the platform polls); webhooks are redelivered until
accepted (SF of `CaptureBegin` and `CaptureCommit`). Strong fairness, because the row locks
these steps need are taken and released again and again by others. That balances of two
milestones stay apart is not checked on an instance of its own: the theorems have any number.

`MCEscrowOverlap.cfg` (1,452,475 states), to be run by hand, opens the environment: clients repeat
requests that are being served (`Overlap`) and providers capture payments they have reported as
failed (`LateCapture`). There `EscrowMatchesStatus` is false - a stale attempt may reopen a milestone on
a refund that was already settled - and the instance shows what survives: `ProviderHasPaid`,
`DecisionRefundWasPaid`, `FreelancerPaidOnce`, `FreezeExcludesRelease`, and `WorkIsFunded`: nobody works on
a milestone without its money, since a stale attempt never takes it. All five are proved for
that environment below.

**money** (`MCMoney.cfg`, 465,024 states). One milestone of 5, a refund key, two payouts of 2
and 3 through different providers against a wallet that cannot cover both once the commission
is off, two accounts to configure and disable at any time. `WalletNeverNegative`, `WalletAccounted`
(earnings less payouts that are pending or done), `ClearingAccounted` (each provider's
account explained by what went through it), `PayoutHasPaid` (to the snapshotted account) and
`NotRedirected` (no step pays another account than the one active at the reservation).

**hiring** (`MCHiring.cfg`, 563,051 states). Two freelancers, two requests in flight at any
time, up to three versions of a proposal. Freelancers and requests are symmetric: no
definition tells them apart. `VersionsGapFree` - concurrent revisions leave versions numbered
1 to `current_version`; `AcceptedHasContract` - an accepted proposal is the one the
contract was made from; `ContractIsSound` - the snapshot is a version the proposal has, and
ACTIVE needs both signatures.

**provider** (`MCProvider.cfg`, 127,504 states). Two keys, so that a second payment can be asked
for while, before and after the first is settled; two faults. `StatusIsTrue` - whatever the
order of webhooks, a captured payment was paid and a failed one can never be; `ChargedOnce` -
of all sessions ever paid for the milestone at most one is not refunded; `DriftFound` - what
Stripe settled and the platform did not hear of ends up in a reconciliation run. Fairness:
only the job (WF of `JobStep`; Celery beat starts it every five minutes). Nothing is assumed of webhooks.

**identity** (`MCIdentity.cfg`, 241,908 states). Two requests in flight, two sessions, a lockout
after three failures, two seeds and two batches of one code each. `LockedInTime` - no wrong
password is lost between the read of the counter and its write; `RecoveryUsedOnce` - a code
verifies one session, and codes of one batch at most are valid; `RevokedIsFinal` (action
property) - a session is never live again after its revocation.

**communication** (`MCCommunication.cfg`, 271,358 states, `FairSpec`). Four mixes of roles
with two messages (one with the workers), two threads, two workers, a fault. `SequencesGapFree`
- numbers without gaps and one message per client id; `ReadMeansReceipts` - cursor and receipts
agree; `SentAsWritten` (action property) - a page told that its message is stored finds its
own words there; `AnnouncedOnce` and `RecipientNotified` - exactly one notification in the end.
Fairness: the drains that Celery beat starts every few seconds (WF of one worker's `Drain`).

**calls** (`MCCalls.cfg`, 4,079,876 states). Two calls, one lost socket or throwing handler, members and
calls symmetric. `OneLiveCall`; `CallAdvances` (action property) - never from ENDED back, nor from
ACTIVE to INVITED; `ConnectedToPeer` - the description a page's peer connection was given is of a call
that was accepted and, at the caller's, answered, and of the call the page is in unless a handler
of the page was waiting when its last call was cleaned up. That exception is what the code does
(DocInterrupted, below): a handler goes on with the call it started with.

**files** (`MCFiles.cfg`, 388,072 states). Two files (digest declared or not), contents clean,
infected or unfit, two workers, a fault. `UsedWasScanned` - a file in use was scanned to the end
and bears that content's digest; `VerdictIsFinal` (action property); `VerdictReached` under
WF of the scans.

**search** (`MCSearch.cfg`, 34,132 states). Two edits of the profile's columns and one of a row
beside it, two drains, a fault. `FreshWhenDrained` and `EditReachesIndex` - without unpublished
events the document has every edit, and events are worked off - both for edits that wrote
distinct versions (`SerialEdits`); what happens otherwise is doc_event_delivered. Fairness: WF
of each worker's steps, no edit is obliged to happen.

**doc_\*** : three runs that TLC refutes, see below.

Why the bounds are enough for what they are for: handlers relate one milestone, at most one
live refund and the payment before it, so two of each give every overlap of an old and a
new one; amounts matter through rounding and through zero, which 2, 3 and 5 exercise
(awards range over 0..Amount). A lost update needs two requests, a lost version number two
revisions of one version: two requests and three versions give both. The other races are of two
actors over one row, file, call or event; a second session, message, call or file is there so
that something old can meet something new. One or two faults suffice where a retry starts from
the same state as the first attempt. The proofs remove the bounds for the statements they cover.

## The theorems

The proofs use only the definitions of the modules above. No theorem assumes anything but
the constants' `ASSUME`s and what its statement says. The `ASSUME`s give
the constants their types, keep names of different things apart, and say that a contract has
finitely many milestones and a call two members. Payments, refund
keys, payouts, freelancers, requests, sessions, workers, messages, files, edits and faults are
any number, amounts any positive integers. TLC finds the inductive invariants true on the
instances above (their totals, which it cannot evaluate, in the form the runs check), and the proof that a step preserves it has a step, or a lemma, per
action. Every invariant and every action property that a passing run checks is the
statement of a theorem here.

### Escrow and disputes (`EscrowProofs`)

For every environment - requests that overlap, late captures, any number of decision keys:

* `TypeCorrect`: `Spec => []TypeOK`.
* `WorkAlwaysFunded` (`WorkIsFunded`) and `ReleaseOrDispute` (`FreezeExcludesRelease`). Neither
  is inductive. `FreezeInv` adds what the handlers rely on without saying so: a milestone
  with a dispute is DISPUTED or RELEASED, a release journal exists only for a RELEASED
  milestone without a dispute, and no refund has a negative amount, so that a reversal only
  adds money. This is why a stale refund attempt, which does break `EscrowMatchesStatus` under
  `Overlap`, cannot take money from started work.
* `BooksFollowProvider` (`ProviderHasPaid`). `PaidInv` carries the claim from the provider's
  answer, which an attempt remembers, to the row it settles; `SucceededIsFinal` says that the
  provider does not take it back in between.
* `DecisionRefundsWerePaid` (`DecisionRefundWasPaid`). What the provider has refunded under a key stays
  (`PaidPartIsFinal`), and a resolved dispute is not resolved again; so the
  amount that `RefundConfirmed` compared when the decision was committed is the one there for good.
* `FreelancersPaidOnce` (`FreelancerPaidOnce`). `EarningInv` says that a journal of a release or
  a decision is of a RELEASED milestone, so each milestone moves into the totals once, with
  exactly the money its journal books.

Assuming `~Overlap` and `~LateCapture`:

* `EscrowInvariant`: `EscrowInv` is an invariant. Its parts: `BalanceInv` (status, pending refunds
  and balance agree), `ReversedIffFailed`, `RefundInv` (at most one pending refund per
  milestone, of the whole amount, and only a pending one has an attempt under way),
  `FundingInv` (a pending intent is the only one of a CREATED milestone, a failed one
  failed at the provider, a capture under way is of a pending intent of an active contract),
  `ReleaseInv` (a distributed milestone is RELEASED) and `CancelInv`.
* `EscrowAlwaysMatchesStatus`, `ReversalsMatchFailures`, `CancelledStaysEmpty` and the action
  property `RefundsCommitOnce` follow from it.
* `EscrowImplementsBox`: `Spec => ImplementsBox`. The invariant fixes the balance that goes with
  each phase (`CashFollows`), so a step is a step of the box once it moves the phase of one
  milestone along one of the box's five edges (`EdgeIsBoxStep`) and a stutter when it moves
  none; `BoxStep` sorts the actions by what they do to statuses and refunds.
* `CapturedMoneyIsAccounted` (`CapturedMoneyAccounted`): the payments captured for a milestone
  outnumber its refunds by the one whose money is in escrow, set aside or distributed. `AccountInv` adds
  that the two sets are finite, so that a step that adds an element adds one to the count.
* `RefundsPayDistinctPayments` (`RefundsOfDistinctPayments`), also assuming `OneProviderEach`: the
  payments and refunds of a milestone go through one provider. `LatestInv` is the argument:
  a pending refund pays back the latest payment, and by the time there is another
  one, the refund before it is of an older payment. The hypothesis is needed:
  `_captured_funding_intent` (`app/payments/service.py:520`) looks for the latest captured payment
  *of the request's provider*, so with a payment through each of two providers a second refund
  through the first one finds the payment that was already paid back; TLC shows it on an
  instance with two providers. That it is refused is then left to the provider.

### Wallets, payouts and clearing (`MoneyProofs`)

* `WalletNeverOverdrawn` (`WalletNeverNegative`), for every environment: `FeeBound` says that a
  commission never exceeds its amount, so only a reservation takes from the wallet, and it has
  looked.
* `PayoutsReachDestination` (`PayoutHasPaid`) and `PayoutsNeverRedirected` (`NotRedirected`), for
  every environment, from `PayoutInv`: nothing is paid before the reservation or to another
  account than the snapshot, and an answer naming a transfer, while an attempt remembers it or once
  it is booked, was a transfer.
* `WalletAlwaysAccounted` (`WalletAccounted`), assuming `~PayoutOverlap` and nothing of escrow:
  `PayoutBooksInv` ties each payout's two journals to its status, so that the payouts pending or
  done are exactly those booked and not reversed.
* `ClearingAlwaysAccounted` (`ClearingAccounted`), assuming `~Overlap` and `~PayoutOverlap` (late
  captures and repeated decisions are allowed): four sums - payments captured, refunds
  pending or done, decisions, payouts - explain each provider's account. `JournalInv` ties each
  journal to its row, `CourseInv` says that what is under way is not settled yet.
  `EscrowMoves` and `PayoutMoves` reduce every action to what matters: it changes at most one of
  the four sums, at one provider, by what its journal books there.

**Sums.** The checked properties sum over sets with `MapThenSumSet`, and what a fold computes is
proved by induction, which the prover cannot do. `EscrowProofs` goes round it: `Total(f, T)` is the
value at `T` of the one function that satisfies the fold's equation on all subsets of `T`
(`IsSum`). That there is one (`SumExists`) and only one (`SumsAgree`) is proved by a
least counterexample, whose cardinality `LeastNatural` gives; `SumByIsTotal` shows that it is
what `MapThenSumSet` computes; and the proofs use `Total` through a few lemmas: it changes by
the difference where one element changes or is added, and not at all elsewhere.

### What the provider says (`ProviderProofs`)

`StatusIsTrueHolds` and `ChargedOnceHolds`. Events are delivered in any order, so `EventsTrue` says that
what an event means stays true of its session for ever; `FundedOnce` that one payment at
most is active, and none while a request is at Stripe with a new key; `MoneyMoved` that
only a session whose address was stored can be paid. The proof showed that the guards of the first version of
`Translate` overlapped; they are now in the code's order.

### Identity, communication, calls, files

* `IdentityProofs`: `LockedInTimeHolds`, `RecoveryUsedOnceHolds`, and the action property
  `RevokedIsFinalHolds`. `LoginsSerial`: the one login under way holds the user's row and has read
  the counter as it still is. `CodesSerial`: a request that uses a code holds its row, unconsumed, and
  nobody else does. `RequestsNameRows` says what a request that will write has read.
* `CommunicationProofs`: `SequencesGapFreeHolds`, `ReadMeansReceiptsHolds`, `AnnouncedOnceHolds` and the
  action property `SentAsWrittenHolds`. `LockHeld` (the thread at the lock has read the number that is
  still next), `RowsNumbered`, `ReceiptsBehind`, `AnswerIsStored` (an answer on its way is of a row
  with the sender's words) and `ConsumedOnce` (one worker consumes an event, and announces
  it afterwards).
* `CallsProofs`: `OneLiveCallHolds`, `ConnectedToPeerHolds` and the action property `CallAdvancesHolds`.
  `ConnectedToPeer` is about what pages believe, so its invariant follows every message from
  handler to page: `EventTrue` and `AnswerTrue` say what is still true when it is read, however
  late; `OneAnswer` that a page waits for one; `AcceptedOnce` that an acceptance is announced once and
  before every signal; `TaskTrue` what a waiting handler still relies on when it goes on; `PageTrue`
  that a page out of its call has neither connection nor waiting handler, unless it was interrupted;
  `Waits` and `Quiet` that a page on its way into another call gets no connection in the old one.
* `FilesProofs`: `UsedWasScannedHolds` and the action property `VerdictIsFinalHolds`, from `ScanExclusive`,
  `ScanHasObject`, `SafeWasScanned` and `UsedIsSafe`: a worker with the row's lock has it alone, and
  the verdict is on the content it has read.

### Hiring and search (`MarketplaceProofs`)

* `VersionsStayGapFree`, `AcceptedIsHired`, `ContractsAreSound` and `ClosedProjectsAreDone` (a
  closed project's contract is active with all milestones released) follow from
  `HiringInvariant`. `HiringInv` adds to the checked invariants what a request remembers
  (`RequestInv`: a revision or transition in flight has read a version the proposal really had,
  so its number is at most one past the last), and that a contract and a hired freelancer come
  together.
* `SerialTransitionsEnforced` and `SerialSnapshotIsCurrent` prove the two statements that TLC
  refutes for concurrent requests, for one request at a time (`Serial`): it is the missing lock,
  and nothing else, that breaks them. `SerialInv` says that what the request has read is still so.
* `SearchIsFresh` (`FreshWhenDrained`). While no two edits wrote the same version, versions count
  edits (`VersionsInOrder`); a drain that loads the profile after it took its events has every edit up
  to the version it will send (`DrainsCurrent`), and so has the document (`IndexCurrent`), of
  whichever drain comes last. A lost version stays lost, so the invariant is stated under
  `SerialEdits` rather than for a specification in which edits take turns.

### Only model-checked

The liveness properties `RefundSettles`, `CapturedReachesEscrow`, `DriftFound`, `RecipientNotified`,
`VerdictReached` and `EditReachesIndex`: fairness and ENABLED are beyond the prover. That the
hypotheses `~Overlap`, `~LateCapture`, `~PayoutOverlap` and `Serial` cannot simply be
dropped is shown by the refuted runs and configurations of the next section.

## Where code and documents disagree

Each is refuted by TLC, on the sentence of the repository it is about. The first three are
runs of `PROJECT.json`, which quotes the lines. The others are configurations to run by hand
(`tlc -config DocTransitions.cfg MCHiring`); the table names the sentence.

| configuration | what happens |
| --- | --- |
| DocRefundOnce (MCEscrow) | A repeated refund request overtakes the first. The first re-reads the refund for update but keeps the PENDING it loaded before the provider call, and settles it a second time. |
| DocDelivery (MCSearch) | An edit that read the profile before two others writes a version below the document's. Every drain of its event ends in the same conflict, for the other events of the batch too, until a later edit passes the document's version. |
| DocShown (MCCommunication) | A message is broadcast while a page's socket is down; the socket is back before the page's eight-second poll, and nothing lists the message again. |
| DocDecision (MCEscrow) | The refund of a decision is made and its request fails, or its answer is pending or lost: nothing is stored. A request with a new `Idempotency-Key`, for the same decision or another, is a second refund at the provider, and only that one is recorded. The trace refunds the whole amount twice, as the sandbox lets it; at Stripe, which stops at what was paid, two shares of a split add up the same way (`docs/adr/0016-dispute-arbitration.md:30`, "The confirmed refund is persisted alongside the same resolution journal"). |
| DocRefundStaysFunded (MCEscrow) | A dispute is opened over a milestone whose refund is pending; the refund's success then always raises (`app/payments/service.py:477`, "Pending refund milestone left the FUNDED state"), and the dispute finds no money. |
| DocFundCancelled (MCEscrow) | `cancel_contract` commits between funding's two locks; the stale contract status lets a pending payment in (`app/contracts/service.py:292`, "An active contract cannot be cancelled while a funding payment is pending"). |
| DocRestoredEarly (MCEscrow) | An unusable answer (another amount, an unexpected exception) counts as a terminal failure although the refund exists (`docs/stripe-payments.md:76`, "escrow is restored only after a terminal provider failure"). |
| DocTransitions (MCHiring) | Two transitions of one proposal read the same status; the second overwrites the first's final status: a proposal with a contract becomes WITHDRAWN (`README.md:23`, "enforced negotiation transitions"). |
| DocSnapshot (MCHiring) | A revision and an acceptance both read UNDER_NEGOTIATION; the accepted proposal's last version is not the one in the contract (`README.md:29`). |
| DocSecret (MCIdentity) | Two enrollments both read no seed and show two secrets, and one that was started before can replace a confirmed seed (`docs/identity-security.md:33`, "returns the same pending enrollment secret"). |
| DocEnded (MCCalls) | The end of a call overtakes the answer to the request that made it; the page takes the ended call up again and refuses new ones until the user hangs up. No document speaks of it. |
| DocInterrupted (MCCalls) | A call ends while `acceptOffer` waits for media or ICE servers. The handler goes on: the page is left with the connection and description of the ended call, and its next call, finding a connection, uses it (`rtc-controller.ts:304`). No document speaks of it. |

Payouts share the code's shape with refunds and so DocRefundOnce and DocRestoredEarly: with `PayoutOverlap` a
settled payout is settled again, and an unusable answer restores the wallet although the
transfer was made.

Three things found while modelling Provider need no run. A session whose delayed payment failed
is retrieved as `complete` and unpaid, which `_checkout_status` maps to PENDING, so the job does not
see a lost failure event; the intent then stays PENDING and a request with a new key is
answered with it. The same holds for an expired session until the job reports it. A job that
dies between its two commits leaves a SUCCEEDED run without what it had found first
(`docs/stripe-payments.md:106`, "Mismatches are persisted"); a later run finds them again.

## What is left out

* Amounts in several currencies, and the checks that a request's currency is the contract's.
* Stripe's transfers and the sandbox provider; what a payout call may do and answer is
  taken as the environment. Signatures of webhooks.
* `IdempotencyRecord` rows: a key is bound to one request, so a key reused for another
  request (409) is no step.
* Upgrading sandbox payouts written before destinations were stored.
* Two providers for one milestone: the refund request may name the provider of an older
  payment; that it was refunded already is left to the provider to refuse.
* Deadlocks between the lock orders of webhook, funding and refund: PostgreSQL aborts one,
  which is `Rollback` or `RefundCrash`; the waiting is not modelled.
* Evidence of disputes (beyond the use of its files) and audit records: they change no state
  that a modelled handler reads.
* Reading and muting notifications, presence, typing and the broadcasts of receipts: single-row
  edits, or nothing is decided on them. ICE candidates, which carry no state of the call; of the list of
  ICE servers only the waiting for it is modelled.
* Registration and email verification, token formats and clocks: expiry is a step that may
  happen at any time.
* Search queries, document fields and their weights.
* Edits of a project's text, budget and skills (`update_project`); proposals' currencies.
* Fraud scores, recommendations and model governance, gigs, configuration, metrics, the rest of
  the frontend, migrations and deployment: no protocol to check, or numeric scoring.

## The plan

Done: Ledger, Escrow, Disputes, EscrowBox, EscrowSystem, Payouts, MoneySystem, Hiring, Provider,
Identity, Conversation, Communication, Calls, Files, SearchProjection, each with its run, and a
theorem for every safety property the passing runs check. What is left:

1. Weaker hypotheses. What of `EscrowInv` remains under `LateCapture` alone, and what of
   `RefundsOfDistinctPayments` when only the refunds of a milestone share a provider.
2. A promise for the payout, in the manner of `EscrowBox` (requested, in transit, paid or returned,
   to one account), and that `MoneySystem` implements it.
3. Further properties: what a page that lists and merges has shown (`Conversation`), the
   balance of the whole ledger as a theorem over any set of accounts.
