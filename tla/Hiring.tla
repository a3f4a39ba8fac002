------------------------------- MODULE Hiring -------------------------------
(***************************************************************************)
(* Hiring for one project: app/proposals/service, the creation, signing    *)
(* and cancellation of its contract in app/contracts/service, and          *)
(* close_project.                                                          *)
(*                                                                         *)
(* The handlers of proposals lock no row.  Each reads the proposal and the *)
(* project, checks what it read, and writes at its commit; the database's  *)
(* unique constraints are all that a commit looks at again.  Such a        *)
(* request is two actions, with any other request in between.  The         *)
(* handlers of contracts lock the contract row and are one action each.    *)
(***************************************************************************)
EXTENDS Integers

CONSTANTS
  Freelancers,   \* one proposal each: uq_proposal_project_freelancer
  Requests,      \* proposal requests that may be in flight at the same time
  MaxVersion     \* bound on the versions of a proposal

ASSUME HiringAssumption ==
  /\ MaxVersion \in Nat \ {0}
  /\ "NONE" \notin Freelancers

VARIABLES
  project,    \* projects.status
  proposal,   \* proposals.status, "NONE" before the row exists
  current,    \* proposals.current_version, 0 before the row exists
  versions,   \* version numbers of the proposal's versions
  request,    \* what a request in flight wants and has read, or Idle
  deal,       \* contracts.status, "NONE" before the row exists
  hired,      \* the freelancer of contracts.accepted_proposal_id, or "NONE"
  snapshot,   \* the proposal version in contract version 1, 0 before it exists
  signed,     \* the parties that have signed
  work        \* the contract's milestones: untouched, under way or all released

hiringVars == <<project, proposal, current, versions, request, deal, hired, snapshot, signed, work>>

ProposalStatus == {"NONE", "DRAFT", "SUBMITTED", "UNDER_NEGOTIATION",
                   "WITHDRAWN", "REJECTED", "ACCEPTED"}

Targets == {"SUBMITTED", "UNDER_NEGOTIATION", "WITHDRAWN", "REJECTED", "ACCEPTED"}

Parties == {"EMPLOYER", "FREELANCER"}

\* A request that is not there: it wants nothing.
Idle == [wants |-> "NOTHING", of |-> "NONE", version |-> 0]

HiringInit ==
  /\ project = "OPEN"
  /\ proposal = [f \in Freelancers |-> "NONE"]
  /\ current = [f \in Freelancers |-> 0]
  /\ versions = [f \in Freelancers |-> {}]
  /\ request = [r \in Requests |-> Idle]
  /\ deal = "NONE" /\ hired = "NONE" /\ snapshot = 0
  /\ signed = {} /\ work = "CREATED"

\* ALLOWED_TRANSITIONS.
AllowedTransitions(from) ==
  CASE from = "DRAFT" -> {"SUBMITTED"}
    [] from = "SUBMITTED" -> {"UNDER_NEGOTIATION", "WITHDRAWN", "REJECTED", "ACCEPTED"}
    [] from = "UNDER_NEGOTIATION" -> {"WITHDRAWN", "REJECTED", "ACCEPTED"}
    [] OTHER -> {}
-----------------------------------------------------------------------------
(* Proposals: every request reads, and passes its checks on what it read.   *)

Read(r, f, wants) ==
  /\ request[r].wants = "NOTHING"
  /\ request' = [request EXCEPT ![r] =
       [wants |-> wants, of |-> f, version |-> current[f]]]
  /\ UNCHANGED <<project, proposal, current, versions, deal, hired, snapshot, signed, work>>

\* create_proposal.
ReadForCreate(r, f) ==
  /\ project = "OPEN"
  /\ Read(r, f, "CREATE")

\* add_proposal_version, which does not look at the project's status.
ReadForVersion(r, f) ==
  /\ proposal[f] \in {"DRAFT", "UNDER_NEGOTIATION"}
  /\ current[f] < MaxVersion
  /\ Read(r, f, "VERSION")

\* transition_proposal.
ReadForTransition(r, f, target) ==
  /\ target \in AllowedTransitions(proposal[f])
  /\ project = "OPEN"
  /\ Read(r, f, target)

Done(r) == request' = [request EXCEPT ![r] = Idle]

\* The request commits a new proposal with version 1, unless there is one.
CommitCreate(r) ==
  LET f == request[r].of IN
  /\ request[r].wants = "CREATE"
  /\ proposal[f] = "NONE"
  /\ proposal' = [proposal EXCEPT ![f] = "DRAFT"]
  /\ current' = [current EXCEPT ![f] = 1]
  /\ versions' = [versions EXCEPT ![f] = {1}]
  /\ Done(r)
  /\ UNCHANGED <<project, deal, hired, snapshot, signed, work>>

\* Mutant: the version's number comes from the request, and nothing is unique.
CommitVersionTwice(r) ==
  LET f == request[r].of  n == request[r].version + 1 IN
  /\ request[r].wants = "VERSION"
  /\ current' = [current EXCEPT ![f] = n]
  /\ versions' = [versions EXCEPT ![f] = @ \cup {n}]
  /\ Done(r)
  /\ UNCHANGED <<project, proposal, deal, hired, snapshot, signed, work>>

\* The next number after the version it read, unless it is taken
\* (uq_proposal_version_number).
CommitVersion(r) ==
  LET f == request[r].of  n == request[r].version + 1 IN
  /\ request[r].wants = "VERSION"
  /\ n \notin versions[f]
  /\ current' = [current EXCEPT ![f] = n]
  /\ versions' = [versions EXCEPT ![f] = @ \cup {n}]
  /\ Done(r)
  /\ UNCHANGED <<project, proposal, deal, hired, snapshot, signed, work>>

\* The new status overwrites whatever the row holds by now.
CommitTransition(r) ==
  LET f == request[r].of IN
  /\ request[r].wants \in Targets \ {"ACCEPTED"}
  /\ proposal' = [proposal EXCEPT ![f] = request[r].wants]
  /\ Done(r)
  /\ UNCHANGED <<project, current, versions, deal, hired, snapshot, signed, work>>

\* Mutant: an existing contract is returned whichever proposal it is of.
CreateContractAny(f, version) ==
  \/ /\ deal = "NONE"
     /\ deal' = "PENDING_SIGNATURES" /\ hired' = f /\ snapshot' = version
  \/ /\ deal # "NONE"
     /\ UNCHANGED <<deal, hired, snapshot>>

\* create_contract_from_accepted_proposal: at most one contract per project,
\* returned again to its own proposal and refused to any other.
CreateContract(f, version) ==
  \/ /\ deal = "NONE"
     /\ deal' = "PENDING_SIGNATURES" /\ hired' = f /\ snapshot' = version
  \/ /\ deal # "NONE" /\ hired = f
     /\ UNCHANGED <<deal, hired, snapshot>>

\* Acceptance: the contract and the status in one transaction, unless another
\* proposal is accepted (uq_proposals_one_accepted_per_project).
CommitAccept(r) ==
  LET f == request[r].of IN
  /\ request[r].wants = "ACCEPTED"
  /\ \A g \in Freelancers \ {f} : proposal[g] # "ACCEPTED"
  /\ CreateContract(f, request[r].version)
  /\ proposal' = [proposal EXCEPT ![f] = "ACCEPTED"]
  /\ Done(r)
  /\ UNCHANGED <<project, current, versions, signed, work>>

\* The request fails on a constraint or dies.
AbortRequest(r) ==
  /\ request[r].wants # "NOTHING"
  /\ Done(r)
  /\ UNCHANGED <<project, proposal, current, versions, deal, hired, snapshot, signed, work>>
-----------------------------------------------------------------------------
(* The contract, under its row lock.                                        *)

\* Mutant: the first signature activates.
SignContractOne(party) ==
  /\ deal \in {"PENDING_SIGNATURES", "ACTIVE"}
  /\ party \notin signed
  /\ signed' = signed \cup {party}
  /\ deal' = "ACTIVE"
  /\ UNCHANGED <<project, proposal, current, versions, request, hired, snapshot, work>>

\* sign_contract: a party's first signature; the last one activates.
SignContract(party) ==
  /\ deal \in {"PENDING_SIGNATURES", "ACTIVE"}
  /\ party \notin signed
  /\ signed' = signed \cup {party}
  /\ deal' = IF signed' = Parties THEN "ACTIVE" ELSE deal
  /\ UNCHANGED <<project, proposal, current, versions, request, hired, snapshot, work>>

\* External: the milestones of an active contract are worked on and released.
Progress ==
  /\ deal = "ACTIVE" /\ work # "RELEASED"
  /\ work' = IF work = "CREATED" THEN "STARTED" ELSE "RELEASED"
  /\ UNCHANGED <<project, proposal, current, versions, request, deal, hired, snapshot, signed>>

\* cancel_contract: before activation, or while no milestone has moved.
Cancel ==
  /\ deal = "PENDING_SIGNATURES" \/ (deal = "ACTIVE" /\ work = "CREATED")
  /\ deal' = "CANCELLED"
  /\ UNCHANGED <<project, proposal, current, versions, request, hired, snapshot, signed, work>>

\* close_project: reads the contract and its milestones without a lock, but a
\* released milestone stays released and keeps its contract from cancellation.
CloseProject ==
  /\ project = "OPEN"
  /\ deal = "ACTIVE" /\ work = "RELEASED"
  /\ project' = "CLOSED"
  /\ UNCHANGED <<proposal, current, versions, request, deal, hired, snapshot, signed, work>>

HiringNext ==
  \/ \E r \in Requests :
       \/ \E f \in Freelancers :
            \/ ReadForCreate(r, f) \/ ReadForVersion(r, f)
            \/ \E target \in Targets : ReadForTransition(r, f, target)
       \/ CommitCreate(r) \/ CommitVersion(r) \/ CommitTransition(r) \/ CommitAccept(r)
       \/ AbortRequest(r)
  \/ \E party \in Parties : SignContract(party)
  \/ Progress \/ Cancel \/ CloseProject

HiringSpec == HiringInit /\ [][HiringNext]_hiringVars
-----------------------------------------------------------------------------
\* Every variable has the type of the column or request it models.
HiringTypeOK ==
  /\ project \in {"OPEN", "CLOSED"}
  /\ proposal \in [Freelancers -> ProposalStatus]
  /\ current \in [Freelancers -> Nat]
  /\ versions \in [Freelancers -> SUBSET Nat]
  /\ request \in [Requests -> [wants : {"NOTHING", "CREATE", "VERSION"} \cup Targets,
                               of : Freelancers \cup {"NONE"}, version : Nat]]
  /\ deal \in {"NONE", "PENDING_SIGNATURES", "ACTIVE", "CANCELLED"}
  /\ hired \in Freelancers \cup {"NONE"}
  /\ snapshot \in Nat
  /\ signed \subseteq Parties
  /\ work \in {"CREATED", "STARTED", "RELEASED"}

\* However many requests add versions at the same time, the versions of a
\* proposal are numbered without gaps and current_version is the last of them.
VersionsGapFree ==
  \A f \in Freelancers : versions[f] = 1..current[f]

\* An accepted proposal is the one the contract was made from, even after the
\* contract's own proposal lost its status to a concurrent transition.
AcceptedHasContract ==
  \A f \in Freelancers : proposal[f] = "ACCEPTED" => hired = f

\* The contract's snapshot is a version the proposal really has, and the
\* contract is active only once both parties have signed it.
ContractIsSound ==
  /\ deal # "NONE" => hired \in Freelancers /\ snapshot \in versions[hired]
  /\ deal = "ACTIVE" => signed = Parties

\* A closed project has an active contract whose milestones are all released.
ClosedIsDone ==
  project = "CLOSED" => deal = "ACTIVE" /\ work = "RELEASED"

\* README.md: "Versioned proposals and enforced negotiation transitions": a
\* proposal's status changes only along ALLOWED_TRANSITIONS.
TransitionsEnforced ==
  [][\A f \in Freelancers :
       proposal[f] # "NONE" /\ proposal'[f] # proposal[f]
         => proposal'[f] \in AllowedTransitions(proposal[f])]_hiringVars

\* README.md: "one contract backed by an immutable snapshot of the accepted
\* proposal's current version": no version follows the one that was accepted.
SnapshotIsCurrent ==
  deal # "NONE" => snapshot = current[hired]
=============================================================================
