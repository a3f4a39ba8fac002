-------------------------- MODULE MarketplaceProofs --------------------------
(***************************************************************************)
(* Proofs about the marketplace.  First Hiring, for any number of          *)
(* freelancers and of requests in flight: what holds although the handlers *)
(* of proposals lock no row.  Then SearchProjection, for any number of     *)
(* edits, of drains that run at the same time and of faults: the document  *)
(* a freelancer is found by.                                               *)
(***************************************************************************)
EXTENDS Hiring, SearchProjection, TLAPS


\* What a request has read is not ahead of the proposal, and a request that
\* changes a proposal has read one that exists.
RequestInv ==
  /\ \A f \in Freelancers : proposal[f] = "NONE" <=> current[f] = 0
  /\ \A r \in Requests : request[r].wants # "NOTHING" =>
       request[r].of \in Freelancers /\ request[r].version =< current[request[r].of]
  /\ \A r \in Requests : request[r].wants \in {"VERSION"} \cup Targets => request[r].version >= 1

\* The inductive invariant.
HiringInv ==
  /\ HiringTypeOK
  /\ RequestInv
  /\ VersionsGapFree
  /\ deal = "NONE" <=> hired = "NONE"
  /\ AcceptedHasContract
  /\ ContractIsSound
  /\ ClosedIsDone

\* A step, or a stutter, preserves HiringInv.
LEMMA HiringStep ==
  ASSUME HiringInv, [HiringNext]_hiringVars
  PROVE  HiringInv'
  <1>type. /\ proposal \in [Freelancers -> ProposalStatus]
           /\ current \in [Freelancers -> Nat]
           /\ versions \in [Freelancers -> SUBSET Nat]
           /\ request \in [Requests -> [wants : {"NOTHING", "CREATE", "VERSION"} \cup Targets,
                                        of : Freelancers \cup {"NONE"}, version : Nat]]
    BY DEF HiringInv, HiringTypeOK
  <1>none. "NONE" \notin Freelancers
    BY HiringAssumption
  <1>1. ASSUME NEW r \in Requests, NEW f \in Freelancers,
               NEW wants \in {"CREATE", "VERSION"} \cup Targets, Read(r, f, wants),
               wants # "CREATE" => proposal[f] # "NONE"
        PROVE  HiringInv'
    <2>1. /\ request' = [request EXCEPT ![r] = [wants |-> wants, of |-> f, version |-> current[f]]]
          /\ UNCHANGED <<project, proposal, current, versions, deal, hired, snapshot, signed, work>>
      BY <1>1 DEF Read
    <2>2. HiringTypeOK'
      <3>1. [wants |-> wants, of |-> f, version |-> current[f]]
              \in [wants : {"NOTHING", "CREATE", "VERSION"} \cup Targets,
                   of : Freelancers \cup {"NONE"}, version : Nat]
        BY <1>type
      <3> QED BY <1>type, <2>1, <3>1 DEF HiringInv, HiringTypeOK
    <2>3. RequestInv'
      <3>1. /\ request'[r] = [wants |-> wants, of |-> f, version |-> current[f]]
            /\ \A q \in Requests : q # r => request'[q] = request[q]
        BY <1>type, <2>1
      <3>2. current[f] \in Nat /\ (wants # "CREATE" => current[f] >= 1)
        BY <1>type, <1>1 DEF HiringInv, RequestInv
      <3>3. \A q \in Requests : request'[q].wants # "NOTHING" =>
              request'[q].of \in Freelancers /\ request'[q].version =< current[request'[q].of]
        BY <3>1, <3>2 DEF HiringInv, RequestInv
      <3>4. \A q \in Requests :
              request'[q].wants \in {"VERSION"} \cup Targets => request'[q].version >= 1
        BY <3>1, <3>2 DEF HiringInv, RequestInv, Targets
      <3> QED BY <2>1, <3>3, <3>4 DEF HiringInv, RequestInv
    <2> QED BY <2>1, <2>2, <2>3
            DEF HiringInv, VersionsGapFree, AcceptedHasContract, ContractIsSound, ClosedIsDone
  \* A request that ends keeps its part of the invariant.
  <1>2. ASSUME NEW r \in Requests, Done(r), \A f \in Freelancers : current'[f] >= current[f],
               \A f \in Freelancers : current'[f] \in Nat /\ (proposal'[f] = "NONE" <=> current'[f] = 0)
        PROVE  /\ RequestInv'
               /\ request' \in [Requests -> [wants : {"NOTHING", "CREATE", "VERSION"} \cup Targets,
                                             of : Freelancers \cup {"NONE"}, version : Nat]]
    <2>1. request' = [request EXCEPT ![r] = Idle]
      BY <1>2 DEF Done
    <2>2. request' \in [Requests -> [wants : {"NOTHING", "CREATE", "VERSION"} \cup Targets,
                                     of : Freelancers \cup {"NONE"}, version : Nat]]
      BY <1>type, <2>1 DEF Idle
    <2>3. /\ request'[r].wants = "NOTHING"
          /\ \A q \in Requests : q # r => request'[q] = request[q]
      BY <1>type, <2>1 DEF Idle
    <2>4. \A q \in Requests : request'[q].wants # "NOTHING" =>
            request'[q].of \in Freelancers /\ request'[q].version =< current'[request'[q].of]
      BY <1>type, <1>2, <2>3 DEF HiringInv, RequestInv
    <2>5. \A q \in Requests :
            request'[q].wants \in {"VERSION"} \cup Targets => request'[q].version >= 1
      BY <2>3 DEF HiringInv, RequestInv, Targets
    <2> QED BY <1>2, <2>2, <2>4, <2>5 DEF RequestInv
  <1>3. ASSUME NEW r \in Requests, CommitCreate(r) PROVE HiringInv'
    <2> DEFINE f == request[r].of
    <2>1. /\ request[r].wants = "CREATE" /\ proposal[f] = "NONE" /\ Done(r)
          /\ proposal' = [proposal EXCEPT ![f] = "DRAFT"]
          /\ current' = [current EXCEPT ![f] = 1]
          /\ versions' = [versions EXCEPT ![f] = {1}]
          /\ UNCHANGED <<project, deal, hired, snapshot, signed, work>>
      BY <1>3 DEF CommitCreate
    <2>2. f \in Freelancers
      BY <2>1 DEF HiringInv, RequestInv
    <2>3. current[f] = 0 /\ versions[f] = {}
      BY <1>type, <2>1, <2>2 DEF HiringInv, RequestInv, VersionsGapFree
    <2> HIDE DEF f
    <2>4. /\ RequestInv'
          /\ request' \in [Requests -> [wants : {"NOTHING", "CREATE", "VERSION"} \cup Targets,
                                        of : Freelancers \cup {"NONE"}, version : Nat]]
      <3>1. \A g \in Freelancers : current'[g] \in Nat /\ current'[g] >= current[g]
        BY <1>type, <2>1, <2>2, <2>3
      <3>2. \A g \in Freelancers : proposal'[g] = "NONE" <=> current'[g] = 0
        BY <1>type, <2>1, <2>2, <2>3 DEF HiringInv, RequestInv
      <3> QED BY <1>2, <2>1, <3>1, <3>2
    <2>5. HiringTypeOK'
      BY <1>type, <2>1, <2>2, <2>4 DEF HiringInv, HiringTypeOK, ProposalStatus
    <2>6. VersionsGapFree'
      <3>1. {1} = 1..1
        OBVIOUS
      <3> QED BY <1>type, <2>1, <2>2, <3>1 DEF HiringInv, VersionsGapFree
    <2>7. AcceptedHasContract' /\ ClosedIsDone'
      BY <1>type, <2>1 DEF HiringInv, AcceptedHasContract, ClosedIsDone
    <2>8. ContractIsSound'
      BY <1>type, <2>1, <2>2, <2>3 DEF HiringInv, ContractIsSound
    <2> QED BY <2>1, <2>4, <2>5, <2>6, <2>7, <2>8 DEF HiringInv
  <1>4. ASSUME NEW r \in Requests, CommitVersion(r) PROVE HiringInv'
    <2> DEFINE f == request[r].of
               n == request[r].version + 1
    <2>1. /\ request[r].wants = "VERSION" /\ n \notin versions[f] /\ Done(r)
          /\ current' = [current EXCEPT ![f] = n]
          /\ versions' = [versions EXCEPT ![f] = @ \cup {n}]
          /\ UNCHANGED <<project, proposal, deal, hired, snapshot, signed, work>>
      BY <1>4 DEF CommitVersion
    <2>2. f \in Freelancers /\ n \in Nat /\ n >= 2 /\ n =< current[f] + 1
      BY <1>type, <2>1 DEF HiringInv, RequestInv
    <2> HIDE DEF f, n
    <2>3. n = current[f] + 1 /\ current[f] \in Nat /\ versions[f] = 1..current[f]
      BY <1>type, <2>1, <2>2 DEF HiringInv, VersionsGapFree
    <2>4. /\ RequestInv'
          /\ request' \in [Requests -> [wants : {"NOTHING", "CREATE", "VERSION"} \cup Targets,
                                        of : Freelancers \cup {"NONE"}, version : Nat]]
      <3>1. \A g \in Freelancers : current'[g] \in Nat /\ current'[g] >= current[g]
        BY <1>type, <2>1, <2>2, <2>3
      <3>2. \A g \in Freelancers : proposal'[g] = "NONE" <=> current'[g] = 0
        BY <1>type, <2>1, <2>2, <2>3 DEF HiringInv, RequestInv
      <3> QED BY <1>2, <2>1, <3>1, <3>2
    <2>5. HiringTypeOK'
      BY <1>type, <2>1, <2>2, <2>4 DEF HiringInv, HiringTypeOK
    <2>6. VersionsGapFree'
      <3>1. versions[f] \cup {n} = 1..n
        BY <2>2, <2>3
      <3> QED BY <1>type, <2>1, <2>2, <3>1 DEF HiringInv, VersionsGapFree
    <2>7. AcceptedHasContract' /\ ClosedIsDone'
      BY <2>1 DEF HiringInv, AcceptedHasContract, ClosedIsDone
    <2>8. ContractIsSound'
      BY <1>type, <2>1, <2>2 DEF HiringInv, ContractIsSound
    <2> QED BY <2>1, <2>4, <2>5, <2>6, <2>7, <2>8 DEF HiringInv
  <1>5. ASSUME NEW r \in Requests, NEW s \in Targets, request[r].wants = s, Done(r),
               proposal' = [proposal EXCEPT ![request[r].of] = s],
               s = "ACCEPTED" => CreateContract(request[r].of, request[r].version),
               s # "ACCEPTED" => UNCHANGED <<deal, hired, snapshot>>,
               UNCHANGED <<project, current, versions, signed, work>>
        PROVE  HiringInv'
    <2> DEFINE f == request[r].of
    <2>1. /\ f \in Freelancers /\ request[r].version \in Nat
          /\ request[r].version >= 1 /\ request[r].version =< current[f]
      BY <1>type, <1>5 DEF HiringInv, RequestInv, Targets
    <2>2. proposal[f] # "NONE" /\ s # "NONE"
      BY <1>type, <1>5, <2>1 DEF HiringInv, RequestInv, Targets
    <2>3. \A g \in Freelancers : proposal'[g] = IF g = f THEN s ELSE proposal[g]
      BY <1>type, <1>5, <2>1
    <2>4. \/ UNCHANGED <<deal, hired, snapshot>> /\ (s = "ACCEPTED" => hired = f)
          \/ /\ deal = "NONE" /\ deal' = "PENDING_SIGNATURES"
             /\ hired' = f /\ snapshot' = request[r].version
      BY <1>5 DEF CreateContract
    <2>5. /\ RequestInv'
          /\ request' \in [Requests -> [wants : {"NOTHING", "CREATE", "VERSION"} \cup Targets,
                                        of : Freelancers \cup {"NONE"}, version : Nat]]
      <3>1. \A g \in Freelancers : current'[g] \in Nat /\ current'[g] >= current[g]
        BY <1>type, <1>5
      <3>2. \A g \in Freelancers : proposal'[g] = "NONE" <=> current'[g] = 0
        BY <1>5, <2>2, <2>3 DEF HiringInv, RequestInv
      <3> QED BY <1>2, <1>5, <3>1, <3>2
    <2>6. HiringTypeOK'
      <3>1. proposal' \in [Freelancers -> ProposalStatus]
        BY <1>type, <1>5 DEF Targets, ProposalStatus
      <3> QED BY <1>5, <2>1, <2>4, <2>5, <3>1 DEF HiringInv, HiringTypeOK
    <2>7. VersionsGapFree'
      BY <1>5 DEF HiringInv, VersionsGapFree
    <2>8. AcceptedHasContract'
      BY <2>1, <2>3, <2>4, <1>none DEF HiringInv, AcceptedHasContract
    <2>9. ContractIsSound' /\ (deal' = "NONE" <=> hired' = "NONE")
      BY <1>type, <1>none, <1>5, <2>1, <2>4 DEF HiringInv, ContractIsSound, VersionsGapFree
    <2>10. ClosedIsDone'
      BY <1>5, <2>4 DEF HiringInv, ClosedIsDone
    <2> QED BY <2>5, <2>6, <2>7, <2>8, <2>9, <2>10 DEF HiringInv
  <1>6. ASSUME NEW r \in Requests, CommitTransition(r) PROVE HiringInv'
    BY <1>5, <1>6 DEF CommitTransition
  <1>7. ASSUME NEW r \in Requests, CommitAccept(r) PROVE HiringInv'
    BY <1>5, <1>7 DEF CommitAccept, Targets
  <1>8. ASSUME NEW r \in Requests, AbortRequest(r) PROVE HiringInv'
    <2>1. Done(r) /\ UNCHANGED <<project, proposal, current, versions, deal, hired, snapshot, signed, work>>
      BY <1>8 DEF AbortRequest
    <2>2. /\ RequestInv'
          /\ request' \in [Requests -> [wants : {"NOTHING", "CREATE", "VERSION"} \cup Targets,
                                        of : Freelancers \cup {"NONE"}, version : Nat]]
      BY <1>2, <1>type, <2>1 DEF HiringInv, RequestInv
    <2> QED BY <2>1, <2>2 DEF HiringInv, HiringTypeOK, VersionsGapFree, AcceptedHasContract,
                              ContractIsSound, ClosedIsDone
  <1>9. ASSUME \/ \E party \in Parties : SignContract(party)
               \/ Progress \/ Cancel \/ CloseProject
        PROVE  HiringInv'
    <2>1. UNCHANGED <<proposal, current, versions, request, hired, snapshot>>
      BY <1>9 DEF SignContract, Progress, Cancel, CloseProject
    <2>2. RequestInv' /\ VersionsGapFree' /\ AcceptedHasContract'
      BY <2>1 DEF HiringInv, RequestInv, VersionsGapFree, AcceptedHasContract
    <2>3. /\ deal # "NONE" /\ deal' # "NONE"
          /\ HiringTypeOK' /\ ContractIsSound' /\ ClosedIsDone'
      BY <1>9, <2>1 DEF HiringInv, HiringTypeOK, ContractIsSound, ClosedIsDone,
                        SignContract, Progress, Cancel, CloseProject
    <2> QED BY <2>1, <2>2, <2>3 DEF HiringInv
  <1>10. ASSUME NEW r \in Requests, NEW f \in Freelancers,
                \/ ReadForCreate(r, f) \/ ReadForVersion(r, f)
                \/ \E target \in Targets : ReadForTransition(r, f, target)
         PROVE  HiringInv'
    <2>1. "NONE" \notin {"DRAFT", "UNDER_NEGOTIATION"} /\ AllowedTransitions("NONE") = {}
      BY DEF AllowedTransitions
    <2> QED BY <1>1, <1>10, <2>1 DEF ReadForCreate, ReadForVersion, ReadForTransition
  <1>11. CASE UNCHANGED hiringVars
    BY <1>11 DEF hiringVars, HiringInv, HiringTypeOK, RequestInv, VersionsGapFree,
                 AcceptedHasContract, ContractIsSound, ClosedIsDone
  <1> QED
    BY <1>3, <1>4, <1>6, <1>7, <1>8, <1>9, <1>10, <1>11 DEF HiringNext

\* The inductive invariant holds in every reachable state.
THEOREM HiringInvariant == HiringSpec => []HiringInv
  <1>1. HiringInit => HiringInv
    <2>1. "NONE" \notin Freelancers
      BY HiringAssumption
    <2> QED BY <2>1 DEF HiringInit, HiringInv, HiringTypeOK, RequestInv, VersionsGapFree,
                        AcceptedHasContract, ContractIsSound, ClosedIsDone, Idle, ProposalStatus, Targets
  <1>2. HiringInv /\ [HiringNext]_hiringVars => HiringInv'
    BY HiringStep
  <1> QED BY <1>1, <1>2, PTL DEF HiringSpec

\* Concurrent revisions never skip, repeat or lose a version number.
THEOREM VersionsStayGapFree == HiringSpec => []VersionsGapFree
  <1>1. HiringInv => VersionsGapFree
    BY DEF HiringInv
  <1> QED BY <1>1, HiringInvariant, PTL

\* Whatever lost updates do to statuses, an accepted proposal is the contract's.
THEOREM AcceptedIsHired == HiringSpec => []AcceptedHasContract
  <1>1. HiringInv => AcceptedHasContract
    BY DEF HiringInv
  <1> QED BY <1>1, HiringInvariant, PTL

\* A contract's snapshot is a version of its proposal; an active one is signed.
THEOREM ContractsAreSound == HiringSpec => []ContractIsSound
  <1>1. HiringInv => ContractIsSound
    BY DEF HiringInv
  <1> QED BY <1>1, HiringInvariant, PTL

\* A closed project has an active contract whose milestones are all released,
\* although close_project reads them without a lock.
THEOREM ClosedProjectsAreDone == HiringSpec => []ClosedIsDone
  <1>1. HiringInv => ClosedIsDone
    BY DEF HiringInv
  <1> QED BY <1>1, HiringInvariant, PTL
-----------------------------------------------------------------------------
(* One proposal request at a time: what the documentation promises holds.   *)

Serial == \A r, q \in Requests : r = q

\* What a request has read is still so, and a contract's proposal stays as it
\* was accepted.
SerialInv ==
  /\ \A r \in Requests : request[r].wants \in {"VERSION"} \cup Targets =>
       request[r].version = current[request[r].of]
  /\ \A r \in Requests : request[r].wants = "VERSION" =>
       proposal[request[r].of] \in {"DRAFT", "UNDER_NEGOTIATION"}
  /\ \A r \in Requests : request[r].wants \in Targets =>
       request[r].wants \in AllowedTransitions(proposal[request[r].of])
  /\ deal # "NONE" => proposal[hired] = "ACCEPTED" /\ snapshot = current[hired]

\* No status changes but along the table of transitions.
TransitionsKept ==
  \A f \in Freelancers : proposal[f] # "NONE" /\ proposal'[f] # proposal[f]
                           => proposal'[f] \in AllowedTransitions(proposal[f])

\* With one request at a time, a step preserves SerialInv and keeps to the table.
LEMMA SerialStep ==
  ASSUME Serial, HiringInv, SerialInv, [HiringNext]_hiringVars
  PROVE  SerialInv' /\ TransitionsKept
  <1>type. /\ proposal \in [Freelancers -> ProposalStatus]
           /\ current \in [Freelancers -> Nat]
           /\ request \in [Requests -> [wants : {"NOTHING", "CREATE", "VERSION"} \cup Targets,
                                        of : Freelancers \cup {"NONE"}, version : Nat]]
           /\ deal # "NONE" => hired \in Freelancers
    BY DEF HiringInv, HiringTypeOK, ContractIsSound
  <1>final. AllowedTransitions("ACCEPTED") = {}
    BY DEF AllowedTransitions
  <1>1. ASSUME NEW r \in Requests, NEW f \in Freelancers,
               NEW wants \in {"CREATE", "VERSION"} \cup Targets, Read(r, f, wants),
               wants = "VERSION" => proposal[f] \in {"DRAFT", "UNDER_NEGOTIATION"},
               wants \in Targets => wants \in AllowedTransitions(proposal[f])
        PROVE  SerialInv' /\ TransitionsKept
    <2>1. /\ request'[r] = [wants |-> wants, of |-> f, version |-> current[f]]
          /\ UNCHANGED <<proposal, current, deal, hired, snapshot>>
      BY <1>1, <1>type DEF Read
    <2>2. \A q \in Requests : q = r
      BY DEF Serial
    <2> QED BY <1>1, <2>1, <2>2 DEF SerialInv, TransitionsKept
  \* The only request ends: what is left is the contract's part.
  <1>2. ASSUME NEW r \in Requests, Done(r)
        PROVE  \A q \in Requests : request'[q].wants = "NOTHING"
    BY <1>2, <1>type DEF Done, Idle, Serial
  <1>3. ASSUME NEW r \in Requests, Done(r),
               deal' # "NONE" => proposal'[hired'] = "ACCEPTED" /\ snapshot' = current'[hired']
        PROVE  SerialInv'
    BY <1>2, <1>3 DEF SerialInv, Targets
  <1>4. ASSUME NEW r \in Requests, CommitCreate(r) PROVE SerialInv' /\ TransitionsKept
    <2> DEFINE f == request[r].of
    <2>1. /\ request[r].wants = "CREATE" /\ proposal[f] = "NONE" /\ Done(r)
          /\ proposal' = [proposal EXCEPT ![f] = "DRAFT"]
          /\ current' = [current EXCEPT ![f] = 1]
          /\ UNCHANGED <<deal, hired, snapshot>>
      BY <1>4 DEF CommitCreate
    <2>2. f \in Freelancers
      BY <2>1 DEF HiringInv, RequestInv
    <2> HIDE DEF f
    <2>3. deal' # "NONE" => proposal'[hired'] = "ACCEPTED" /\ snapshot' = current'[hired']
      BY <1>type, <2>1, <2>2 DEF SerialInv
    <2>4. TransitionsKept
      BY <1>type, <2>1, <2>2 DEF TransitionsKept
    <2> QED BY <1>3, <2>1, <2>3, <2>4
  <1>5. ASSUME NEW r \in Requests, CommitVersion(r) PROVE SerialInv' /\ TransitionsKept
    <2> DEFINE f == request[r].of
               n == request[r].version + 1
    <2>1. /\ request[r].wants = "VERSION" /\ Done(r)
          /\ current' = [current EXCEPT ![f] = n]
          /\ UNCHANGED <<proposal, deal, hired, snapshot>>
      BY <1>5 DEF CommitVersion
    <2>2. f \in Freelancers /\ proposal[f] # "ACCEPTED"
      BY <2>1 DEF HiringInv, RequestInv, SerialInv
    <2> HIDE DEF f, n
    <2>3. deal' # "NONE" => proposal'[hired'] = "ACCEPTED" /\ snapshot' = current'[hired']
      BY <1>type, <2>1, <2>2 DEF SerialInv
    <2> QED BY <1>3, <2>1, <2>3 DEF TransitionsKept
  <1>6. ASSUME NEW r \in Requests, CommitTransition(r) \/ CommitAccept(r)
        PROVE  SerialInv' /\ TransitionsKept
    <2> DEFINE f == request[r].of
               s == request[r].wants
    <2>1. /\ s \in Targets /\ Done(r)
          /\ proposal' = [proposal EXCEPT ![f] = s]
          /\ UNCHANGED current
          /\ \/ UNCHANGED <<deal, hired, snapshot>>
             \/ s = "ACCEPTED" /\ hired' = f /\ snapshot' = request[r].version
      BY <1>6 DEF CommitTransition, CommitAccept, CreateContract, Targets
    <2>2. f \in Freelancers /\ request[r].version = current[f] /\ s \in AllowedTransitions(proposal[f])
      BY <2>1 DEF HiringInv, RequestInv, SerialInv, Targets
    <2> HIDE DEF f, s
    <2>3. proposal[f] # "ACCEPTED"
      BY <2>2, <1>final
    <2>4. \A g \in Freelancers : proposal'[g] = IF g = f THEN s ELSE proposal[g]
      BY <1>type, <2>1, <2>2
    <2>5. deal' # "NONE" => proposal'[hired'] = "ACCEPTED" /\ snapshot' = current'[hired']
      <3>1. CASE UNCHANGED <<deal, hired, snapshot>>
        BY <1>type, <2>1, <2>3, <2>4, <3>1 DEF SerialInv
      <3>2. CASE s = "ACCEPTED" /\ hired' = f /\ snapshot' = request[r].version
        BY <2>1, <2>2, <2>4, <3>2
      <3> QED BY <2>1, <3>1, <3>2
    <2>6. TransitionsKept
      BY <2>2, <2>4 DEF TransitionsKept
    <2> QED BY <1>3, <2>1, <2>5, <2>6
  <1>7. ASSUME NEW r \in Requests, AbortRequest(r) PROVE SerialInv' /\ TransitionsKept
    BY <1>3, <1>7 DEF AbortRequest, SerialInv, TransitionsKept
  <1>8. ASSUME \/ \E party \in Parties : SignContract(party)
               \/ Progress \/ Cancel \/ CloseProject
               \/ UNCHANGED hiringVars
        PROVE  SerialInv' /\ TransitionsKept
    <2>1. /\ UNCHANGED <<proposal, current, request, hired, snapshot>>
          /\ deal' # "NONE" => deal # "NONE"
      BY <1>8 DEF SignContract, Progress, Cancel, CloseProject, hiringVars
    <2> QED BY <2>1 DEF SerialInv, TransitionsKept
  <1>9. ASSUME NEW r \in Requests, NEW f \in Freelancers,
               \/ ReadForCreate(r, f) \/ ReadForVersion(r, f)
               \/ \E target \in Targets : ReadForTransition(r, f, target)
        PROVE  SerialInv' /\ TransitionsKept
    <2>1. "CREATE" \notin Targets /\ "VERSION" \notin Targets
      BY DEF Targets
    <2> QED BY <1>1, <1>9, <2>1 DEF ReadForCreate, ReadForVersion, ReadForTransition
  <1> QED
    BY <1>4, <1>5, <1>6, <1>7, <1>8, <1>9 DEF HiringNext

\* SerialInv holds in every state that one request at a time reaches.
THEOREM SerialInvariant == ASSUME Serial PROVE HiringSpec => []SerialInv
  <1>1. HiringInit => SerialInv
    BY DEF HiringInit, SerialInv, Idle, Targets
  <1>2. HiringInv /\ SerialInv /\ [HiringNext]_hiringVars => SerialInv'
    BY SerialStep
  <1> QED BY <1>1, <1>2, HiringInvariant, PTL DEF HiringSpec

\* With one proposal request at a time a status changes only along
\* ALLOWED_TRANSITIONS: it takes the missing lock to break it.
THEOREM SerialTransitionsEnforced ==
  ASSUME Serial PROVE HiringSpec => TransitionsEnforced
  <1>1. HiringInv /\ SerialInv /\ [HiringNext]_hiringVars => [TransitionsKept]_hiringVars
    BY SerialStep
  <1> QED BY <1>1, HiringInvariant, SerialInvariant, PTL
          DEF HiringSpec, TransitionsEnforced, TransitionsKept

\* With one proposal request at a time the contract has the last version.
THEOREM SerialSnapshotIsCurrent ==
  ASSUME Serial PROVE HiringSpec => []SnapshotIsCurrent
  <1>1. SerialInv => SnapshotIsCurrent
    BY DEF SerialInv, SnapshotIsCurrent
  <1> QED BY <1>1, SerialInvariant, PTL

-----------------------------------------------------------------------------
(* The search document.                                                      *)

\* What a drain or the document has is committed, an event is one of a
\* committed edit, and an edit under way has not been written yet.
EditsCommitted ==
  /\ profile.edits = Committed
  /\ index.edits \subseteq Committed
  /\ \A e \in Edits : event[e] = "NONE" <=> written[e] = 0
  /\ \A e \in Edits : written[e] # 1
  /\ \A e \in Edits : seen[e].reading =>
       written[e] = 0 /\ seen[e].version # 1 /\ (e \in RowEdits => seen[e].version > 0)
  /\ \A w \in Workers :
       /\ drain[w].taken \subseteq Committed
       /\ drain[w].columns \cup drain[w].rows \subseteq Committed
  /\ profile.version # 1

\* Without a lost version the versions count the edits: the profile's is the
\* highest, none is missing below it, and nobody has read a later one.
VersionsInOrder ==
  /\ \A v \in 2..profile.version : \E e \in Edits : written[e] = v
  /\ \A e \in Edits : written[e] <= profile.version
  /\ \A e \in Edits : seen[e].reading => seen[e].version <= profile.version
  /\ \A w \in Workers : drain[w].version <= profile.version
  /\ index.version <= profile.version

\* The edits up to a version.
UpTo(v) == {e \in Committed : written[e] <= v}

\* A drain has loaded the profile after it took its events; the row holds the
\* edits of the row's version, the rows beside it those and perhaps more.
DrainsCurrent ==
  \A w \in Workers :
    /\ drain[w].at \in {"BUILD", "SEND", "COMMIT"} =>
         /\ drain[w].taken \subseteq UpTo(drain[w].version)
         /\ UpTo(drain[w].version) \cap ColumnEdits \subseteq drain[w].columns
    /\ drain[w].at = "SEND" => UpTo(drain[w].version) \cap RowEdits \subseteq drain[w].rows
    /\ drain[w].at = "COMMIT" => drain[w].version <= index.version

\* The document has the edits up to its version, the published ones included.
IndexCurrent ==
  /\ UpTo(index.version) \subseteq index.edits
  /\ \A e \in Edits : event[e] = "PUBLISHED" => written[e] <= index.version

SearchInv ==
  /\ SearchTypeOK
  /\ EditsCommitted
  /\ SerialEdits => VersionsInOrder /\ DrainsCurrent /\ IndexCurrent

\* What SearchTypeOK says of each variable and field.
LEMMA SearchFields ==
  ASSUME SearchTypeOK
  PROVE  /\ profile.version \in Nat /\ profile.edits \subseteq Edits
         /\ index.version \in Nat /\ index.edits \subseteq Edits
         /\ \A e \in Edits : written[e] \in Nat /\ seen[e].version \in Nat /\ seen[e].reading \in BOOLEAN
         /\ \A e \in Edits : event[e] \in {"NONE", "PENDING", "PUBLISHED"}
         /\ \A w \in Workers : /\ drain[w].taken \subseteq Edits /\ drain[w].left \subseteq Edits
                               /\ drain[w].columns \subseteq ColumnEdits /\ drain[w].rows \subseteq RowEdits
                               /\ drain[w].version \in Nat
  BY DEF SearchTypeOK

\* Initially nothing is written.
LEMMA SearchInitial == SearchInit => SearchInv
  <1> SUFFICES ASSUME SearchInit PROVE SearchInv
    OBVIOUS
  <1>1. SearchTypeOK
    BY SearchAssumption DEF SearchInit, SearchTypeOK, NotReading, Waiting
  <1>2. Committed = {}
    BY DEF SearchInit, Committed
  <1>3. EditsCommitted
    BY <1>2 DEF SearchInit, EditsCommitted, NotReading, Waiting
  <1>4. VersionsInOrder
    BY DEF SearchInit, VersionsInOrder, NotReading, Waiting
  <1>5. DrainsCurrent /\ IndexCurrent
    BY <1>2 DEF SearchInit, DrainsCurrent, IndexCurrent, UpTo, Waiting
  <1> QED BY <1>1, <1>3, <1>4, <1>5 DEF SearchInv

\* A step that writes no edit keeps the versions and what they stand for.
LEMMA NothingWritten ==
  ASSUME UNCHANGED <<profile, written>>
  PROVE  /\ Committed' = Committed
         /\ SerialEdits' <=> SerialEdits
         /\ \A v : UpTo(v)' = UpTo(v)
  <1>1. Committed' = Committed
    BY DEF Committed
  <1> QED BY <1>1 DEF SerialEdits, UpTo

\* Reading the profile, or giving up.
LEMMA ReadStep ==
  ASSUME SearchInv, NEW e \in Edits, BeginEdit(e) \/ FailEdit(e)
  PROVE  SearchInv'
  <1>1. UNCHANGED <<profile, written, event, drain, index, faults>>
    BY DEF BeginEdit, FailEdit
  <1>2. /\ Committed' = Committed /\ (SerialEdits' <=> SerialEdits) /\ \A v : UpTo(v)' = UpTo(v)
    BY <1>1, NothingWritten
  <1>inv. SearchTypeOK /\ EditsCommitted
    BY DEF SearchInv
  <1>3. profile.version \in Nat /\ seen \in [Edits -> [reading : BOOLEAN, version : Nat]]
    BY <1>inv DEF SearchTypeOK
  <1>4. /\ seen' \in [Edits -> [reading : BOOLEAN, version : Nat]]
        /\ \A d \in Edits : seen'[d].reading =>
             seen'[d] = seen[d] \/ (d = e /\ seen'[d].version = profile.version /\ BeginEdit(e))
    <2>1. CASE BeginEdit(e)
      <3>1. seen' = [seen EXCEPT ![e] = [reading |-> TRUE, version |-> profile.version]]
        BY <2>1 DEF BeginEdit
      <3> QED BY <1>3, <2>1, <3>1
    <2>2. CASE FailEdit(e)
      <3>1. seen' = [seen EXCEPT ![e] = [reading |-> FALSE, version |-> 0]]
        BY <2>2 DEF FailEdit, NotReading
      <3> QED BY <1>3, <3>1
    <2> QED BY <2>1, <2>2
  <1>5. SearchTypeOK'
    BY <1>1, <1>4, <1>inv DEF SearchTypeOK
  <1>6. EditsCommitted'
    BY <1>1, <1>2, <1>3, <1>4, <1>inv DEF EditsCommitted, BeginEdit
  <1>7. ASSUME SerialEdits PROVE VersionsInOrder' /\ DrainsCurrent' /\ IndexCurrent'
    <2>1. VersionsInOrder /\ DrainsCurrent /\ IndexCurrent
      BY <1>7 DEF SearchInv
    <2>2. VersionsInOrder'
      BY <1>1, <1>3, <1>4, <2>1 DEF VersionsInOrder
    <2>3. DrainsCurrent' /\ IndexCurrent'
      BY <1>1, <1>2, <2>1 DEF DrainsCurrent, IndexCurrent
    <2> QED BY <2>2, <2>3
  <1> QED BY <1>2, <1>5, <1>6, <1>7 DEF SearchInv

\* A commit.  Without a lost version, what the request has read is what the
\* profile still holds: below it every version is taken.
LEMMA CommitStep ==
  ASSUME SearchInv, NEW e \in Edits, CommitEdit(e),
         e \in ColumnEdits => (seen[e].version = 0 => profile.version = 0)
  PROVE  SearchInv'
  <1> DEFINE r == seen[e].version
             n == NextVersion(r)
  <1>inv. SearchTypeOK /\ EditsCommitted
    BY DEF SearchInv
  <1>type. /\ written \in [Edits -> Nat] /\ event \in [Edits -> {"NONE", "PENDING", "PUBLISHED"}]
           /\ seen \in [Edits -> [reading : BOOLEAN, version : Nat]]
           /\ profile.version \in Nat /\ profile.edits \subseteq Edits
    BY <1>inv DEF SearchTypeOK
  <1>1. /\ profile' = [version |-> n, edits |-> profile.edits \cup {e}]
        /\ written' = [written EXCEPT ![e] = n]
        /\ seen' = [seen EXCEPT ![e] = NotReading]
        /\ event' = [event EXCEPT ![e] = "PENDING"]
        /\ UNCHANGED <<drain, index, faults>>
        /\ seen[e].reading
    BY DEF CommitEdit
  <1>2. r \in Nat /\ r # 1 /\ written[e] = 0 /\ (e \in RowEdits => r > 0)
    BY <1>type, <1>1, <1>inv DEF EditsCommitted
  <1>3. n \in Nat /\ n >= 2 /\ (r > 0 => n = r + 1) /\ (r = 0 => n = 2)
    BY <1>2 DEF NextVersion
  <1> HIDE DEF n, r
  <1>4. /\ written' \in [Edits -> Nat] /\ written'[e] = n
        /\ \A d \in Edits : d # e => written'[d] = written[d]
    BY <1>type, <1>1, <1>3
  <1>5. /\ event' \in [Edits -> {"NONE", "PENDING", "PUBLISHED"}] /\ event'[e] = "PENDING"
        /\ \A d \in Edits : d # e => event'[d] = event[d]
    BY <1>type, <1>1
  <1>6. /\ seen' \in [Edits -> [reading : BOOLEAN, version : Nat]] /\ ~seen'[e].reading
        /\ \A d \in Edits : d # e => seen'[d] = seen[d]
    BY <1>type, <1>1 DEF NotReading
  <1>7. profile'.version = n /\ profile'.edits = profile.edits \cup {e}
        /\ profile' \in [version : Nat, edits : SUBSET Edits]
    BY <1>type, <1>1, <1>3
  <1>8. Committed' = Committed \cup {e} /\ e \notin Committed
    BY <1>2, <1>3, <1>4 DEF Committed
  <1>9. SearchTypeOK'
    BY <1>1, <1>4, <1>5, <1>6, <1>7, <1>inv DEF SearchTypeOK
  <1>10. EditsCommitted'
    <2>1. profile'.edits = Committed' /\ index'.edits \subseteq Committed'
      BY <1>1, <1>7, <1>8, <1>inv DEF EditsCommitted
    <2>2. \A d \in Edits : (event'[d] = "NONE" <=> written'[d] = 0) /\ written'[d] # 1
      BY <1>3, <1>4, <1>5, <1>inv DEF EditsCommitted
    <2>3. \A d \in Edits : seen'[d].reading =>
            written'[d] = 0 /\ seen'[d].version # 1 /\ (d \in RowEdits => seen'[d].version > 0)
      BY <1>4, <1>6, <1>inv DEF EditsCommitted
    <2>4. \A w \in Workers : /\ drain'[w].taken \subseteq Committed'
                             /\ drain'[w].columns \cup drain'[w].rows \subseteq Committed'
      BY <1>1, <1>8, <1>inv DEF EditsCommitted
    <2>5. profile'.version # 1
      BY <1>3, <1>7
    <2> QED BY <2>1, <2>2, <2>3, <2>4, <2>5 DEF EditsCommitted
  <1>11. ASSUME SerialEdits' PROVE VersionsInOrder' /\ DrainsCurrent' /\ IndexCurrent'
    <2>1. SerialEdits
      BY <1>4, <1>8, <1>11 DEF SerialEdits, Committed
    <2>2. VersionsInOrder /\ DrainsCurrent /\ IndexCurrent
      BY <2>1 DEF SearchInv
    <2>3. r <= profile.version
      BY <1>1, <2>2 DEF VersionsInOrder, r
    <2>4. \A d \in Edits : written[d] # n
      BY <1>3, <1>4, <1>8, <1>11 DEF SerialEdits, Committed
    <2>5. profile.version < n /\ n <= profile.version + 2 /\ (profile.version > 0 => n = profile.version + 1)
      <3>1. CASE r = 0
        <4>1. e \in ColumnEdits
          BY <1>2, <3>1 DEF Edits
        <4>2. profile.version = 0
          BY <3>1, <4>1 DEF r
        <4> QED BY <1>3, <3>1, <4>2
      <3>2. CASE r > 0
        <4>1. ~(n \in 2..profile.version)
          BY <2>2, <2>4 DEF VersionsInOrder
        <4> QED BY <1>type, <1>2, <1>3, <2>3, <3>2, <4>1
      <3> QED BY <1>2, <3>1, <3>2
    <2>6. VersionsInOrder'
      <3>1. \A v \in 2..n : \E d \in Edits : written'[d] = v
        <4>1. SUFFICES ASSUME NEW v \in 2..n PROVE \E d \in Edits : written'[d] = v
          OBVIOUS
        <4>2. CASE v = n
          BY <1>4, <4>2
        <4>3. CASE v # n
          <5>1. v \in 2..profile.version
            BY <1>type, <1>3, <2>5, <4>3
          <5>2. PICK d \in Edits : written[d] = v
            BY <2>2, <5>1 DEF VersionsInOrder
          <5>3. d # e
            BY <1>2, <5>1, <5>2
          <5> QED BY <1>4, <5>2, <5>3
        <4> QED BY <4>2, <4>3
      <3>2. \A d \in Edits : written'[d] <= n
        BY <1>type, <1>3, <1>4, <2>2, <2>5 DEF VersionsInOrder
      <3>3. \A d \in Edits : seen'[d].reading => seen'[d].version <= n
        <4>1. \A d \in Edits : seen[d].version \in Nat
          BY <1>type
        <4> QED BY <1>type, <1>3, <1>6, <2>2, <2>5, <4>1 DEF VersionsInOrder
      <3>4. (\A w \in Workers : drain'[w].version <= n) /\ index'.version <= n
        <4>1. (\A w \in Workers : drain[w].version \in Nat) /\ index.version \in Nat
          BY <1>inv, SearchFields
        <4> QED BY <1>type, <1>1, <1>3, <2>2, <2>5, <4>1 DEF VersionsInOrder
      <3> QED BY <1>7, <3>1, <3>2, <3>3, <3>4 DEF VersionsInOrder
    \* The new edit is above every version a drain or the document has.
    <2>7. \A v \in Nat : v <= profile.version => UpTo(v)' = UpTo(v)
      BY <1>type, <1>3, <1>4, <1>8, <2>5 DEF UpTo, Committed
    <2>8. DrainsCurrent'
      <3>1. \A w \in Workers : UpTo(drain[w].version)' = UpTo(drain[w].version)
        BY <1>1, <1>inv, <2>2, <2>7, SearchFields DEF VersionsInOrder
      <3> QED BY <1>1, <2>2, <3>1 DEF DrainsCurrent
    <2>9. IndexCurrent'
      <3>1. UpTo(index.version)' = UpTo(index.version)
        BY <1>1, <1>inv, <2>2, <2>7, SearchFields DEF VersionsInOrder
      <3> QED BY <1>1, <1>4, <1>5, <2>2, <3>1 DEF IndexCurrent
    <2> QED BY <2>6, <2>8, <2>9
  <1> QED BY <1>9, <1>10, <1>11 DEF SearchInv

DrainRows == [at : {"WAIT", "LOAD", "BUILD", "SEND", "COMMIT"},
              taken : SUBSET Edits, left : SUBSET Edits, version : Nat,
              columns : SUBSET ColumnEdits, rows : SUBSET RowEdits]

\* A step of worker w leaves the edits alone and its transaction, the document
\* and the events as the invariant wants them.
WorkerMoves(w) ==
  /\ UNCHANGED <<profile, written, seen>>
  /\ drain' \in [Workers -> DrainRows] /\ \A x \in Workers : x # w => drain'[x] = drain[x]
  /\ drain'[w].taken \subseteq Committed /\ drain'[w].columns \cup drain'[w].rows \subseteq Committed
  /\ event' \in [Edits -> {"NONE", "PENDING", "PUBLISHED"}]
  /\ \A e \in Edits : event'[e] = "NONE" <=> event[e] = "NONE"
  /\ index' \in [version : Nat, edits : SUBSET Edits] /\ index'.edits \subseteq Committed
  /\ faults' \in 0..MaxFaults

WorkerInOrder(w) ==
  /\ drain'[w].version <= profile.version
  /\ drain'[w].at \in {"BUILD", "SEND", "COMMIT"} =>
       /\ drain'[w].taken \subseteq UpTo(drain'[w].version)
       /\ UpTo(drain'[w].version) \cap ColumnEdits \subseteq drain'[w].columns
  /\ drain'[w].at = "SEND" => UpTo(drain'[w].version) \cap RowEdits \subseteq drain'[w].rows
  /\ drain'[w].at = "COMMIT" => drain'[w].version <= index'.version
  /\ index.version <= index'.version /\ index'.version <= profile.version
  /\ UpTo(index'.version) \subseteq index'.edits
  /\ \A e \in Edits : event'[e] = "PUBLISHED" => written[e] <= index'.version

\* A step of one drain preserves the invariant if it keeps to the versions.
LEMMA WorkerStep ==
  ASSUME SearchInv, NEW w \in Workers, WorkerMoves(w), SerialEdits => WorkerInOrder(w)
  PROVE  SearchInv'
  <1>inv. SearchTypeOK /\ EditsCommitted
    BY DEF SearchInv
  <1>1. /\ Committed' = Committed /\ (SerialEdits' <=> SerialEdits)
        /\ \A v : UpTo(v)' = UpTo(v)
    BY NothingWritten DEF WorkerMoves
  <1>2. \A x \in Workers : x # w => drain'[x] = drain[x]
    BY DEF WorkerMoves
  <1>3. SearchTypeOK'
    BY <1>inv DEF SearchTypeOK, WorkerMoves, DrainRows
  <1>4. EditsCommitted'
    <2>1. \A x \in Workers : /\ drain'[x].taken \subseteq Committed
                             /\ drain'[x].columns \cup drain'[x].rows \subseteq Committed
      BY <1>2, <1>inv DEF EditsCommitted, WorkerMoves
    <2> QED BY <1>1, <1>inv, <2>1 DEF EditsCommitted, WorkerMoves
  <1>5. ASSUME SerialEdits PROVE VersionsInOrder' /\ DrainsCurrent' /\ IndexCurrent'
    <2>1. VersionsInOrder /\ DrainsCurrent /\ IndexCurrent
      BY <1>5 DEF SearchInv
    <2>2. VersionsInOrder'
      BY <1>2, <1>5, <2>1 DEF VersionsInOrder, WorkerMoves, WorkerInOrder
    <2>3. \A v : UpTo(v)' = UpTo(v) /\ index.version \in Nat /\ index'.version \in Nat
                 /\ \A x \in Workers : drain[x].version \in Nat
      BY <1>1, <1>inv, <1>3 DEF SearchTypeOK
    <2>4. DrainsCurrent'
      <3>1. ASSUME NEW x \in Workers
            PROVE  /\ drain'[x].at \in {"BUILD", "SEND", "COMMIT"} =>
                        /\ drain'[x].taken \subseteq UpTo(drain'[x].version)
                        /\ UpTo(drain'[x].version) \cap ColumnEdits \subseteq drain'[x].columns
                   /\ drain'[x].at = "SEND" => UpTo(drain'[x].version) \cap RowEdits \subseteq drain'[x].rows
                   /\ drain'[x].at = "COMMIT" => drain'[x].version <= index'.version
        <4>1. CASE x = w
          BY <1>5, <4>1 DEF WorkerInOrder
        <4>2. CASE x # w
          BY <1>2, <1>5, <2>1, <2>3, <4>2 DEF DrainsCurrent, WorkerInOrder
        <4> QED BY <4>1, <4>2
      <3>2. \A v : UpTo(v)' = {e \in Committed : written[e] <= v}
        BY <1>1 DEF UpTo, WorkerMoves
      <3> QED BY <1>1, <3>1, <3>2 DEF DrainsCurrent, UpTo
    <2>5. IndexCurrent'
      BY <1>1, <1>5 DEF IndexCurrent, UpTo, WorkerMoves, WorkerInOrder
    <2> QED BY <2>2, <2>4, <2>5
  <1> QED BY <1>1, <1>3, <1>4, <1>5 DEF SearchInv

\* The steps of a drain.
LEMMA DrainKeeps ==
  ASSUME SearchInv, NEW w \in Workers, DrainStep(w) \/ LoseDrain(w)
  PROVE  SearchInv'
  <1>inv. SearchTypeOK /\ EditsCommitted
    BY DEF SearchInv
  <1>serial. SerialEdits => VersionsInOrder /\ DrainsCurrent /\ IndexCurrent
    BY DEF SearchInv
  <1>type. /\ profile.version \in Nat /\ profile.edits \subseteq Edits
           /\ index \in [version : Nat, edits : SUBSET Edits]
           /\ event \in [Edits -> {"NONE", "PENDING", "PUBLISHED"}] /\ faults \in 0..MaxFaults
           /\ written \in [Edits -> Nat]
           /\ drain \in [Workers -> DrainRows]
    BY <1>inv DEF SearchTypeOK, DrainRows
  <1> DEFINE row == drain[w]
  <1>row. /\ row \in DrainRows /\ row.taken \subseteq Committed
          /\ row.columns \cup row.rows \subseteq Committed
    BY <1>type, <1>inv DEF EditsCommitted
  <1>field. /\ row.version \in Nat /\ row.taken \subseteq Edits /\ row.left \subseteq Edits
            /\ row.columns \subseteq ColumnEdits /\ row.rows \subseteq RowEdits
    BY <1>row DEF DrainRows
  \* What holds while the document and the events stay.
  <1>index. SerialEdits => /\ index.version <= profile.version
                           /\ UpTo(index.version) \subseteq index.edits
                           /\ \A e \in Edits : event[e] = "PUBLISHED" => written[e] <= index.version
    BY <1>serial DEF VersionsInOrder, IndexCurrent
  <1>refl. index.version <= index.version /\ index.edits \subseteq Committed
    BY <1>type, <1>inv DEF EditsCommitted
  \* The transaction of w becomes d.
  <1>set. ASSUME NEW d \in DrainRows, drain' = [drain EXCEPT ![w] = d]
          PROVE  /\ drain' \in [Workers -> DrainRows] /\ drain'[w] = d
                 /\ \A x \in Workers : x # w => drain'[x] = drain[x]
    BY <1>type, <1>set
  <1>1. CASE Take(w)
    <2> DEFINE free == {e \in Edits : event[e] = "PENDING"} \ Locked
    <2>1. UNCHANGED <<profile, written, seen, event, index, faults>>
      BY <1>1 DEF Take
    <2>2. free \subseteq Committed /\ free \subseteq Edits
      <3>1. \A e \in Edits : event[e] = "PENDING" => written[e] > 0
        BY <1>type, <1>inv DEF EditsCommitted
      <3> QED BY <3>1 DEF Committed
    <2>3. drain' = [drain EXCEPT ![w] = [Waiting EXCEPT !.at = "LOAD", !.taken = free, !.left = free]]
      BY <1>1 DEF Take
    <2> HIDE DEF free
    <2>4. PICK d : d = [Waiting EXCEPT !.at = "LOAD", !.taken = free, !.left = free]
      OBVIOUS
    <2>5. d \in DrainRows /\ d.at = "LOAD" /\ d.taken = free /\ d.columns = {} /\ d.rows = {} /\ d.version = 0
      <3>1. PICK t : t = Waiting
        OBVIOUS
      <3>2. /\ t \in [at : {"WAIT", "LOAD"}, taken : SUBSET Edits, left : SUBSET Edits, version : {0},
                      columns : {{}}, rows : {{}}]
        BY <3>1 DEF Waiting
      <3>3. d = [t EXCEPT !.at = "LOAD", !.taken = free, !.left = free]
        BY <2>4, <3>1
      <3>4. d \in [at : {"LOAD"}, taken : {free}, left : {free}, version : {0}, columns : {{}}, rows : {{}}]
        BY <3>2, <3>3
      <3> QED BY <2>2, <3>4 DEF DrainRows
    <2>6. /\ drain' \in [Workers -> DrainRows] /\ drain'[w] = d
          /\ \A x \in Workers : x # w => drain'[x] = drain[x]
      BY <1>set, <2>3, <2>4, <2>5
    <2>7. WorkerMoves(w)
      BY <1>type, <1>refl, <2>1, <2>2, <2>5, <2>6 DEF WorkerMoves
    <2>8. SerialEdits => WorkerInOrder(w)
      <3>1. /\ drain'[w].version = 0 /\ drain'[w].at = "LOAD" /\ 0 <= profile.version
            /\ UNCHANGED <<index, event>>
        BY <1>type, <2>1, <2>5, <2>6
      <3> QED BY <1>index, <1>refl, <3>1 DEF WorkerInOrder
    <2> QED BY <2>7, <2>8, WorkerStep
  <1>2. CASE Load(w)
    <2>1. /\ drain' = [drain EXCEPT ![w].at = "BUILD", ![w].version = profile.version,
                                    ![w].columns = profile.edits \cap ColumnEdits]
          /\ UNCHANGED <<profile, written, seen, event, index, faults>>
      BY <1>2 DEF Load
    <2>2. /\ drain' \in [Workers -> DrainRows] /\ \A x \in Workers : x # w => drain'[x] = drain[x]
          /\ drain'[w].at = "BUILD" /\ drain'[w].version = profile.version
          /\ drain'[w].columns = profile.edits \cap ColumnEdits
          /\ drain'[w].taken = row.taken /\ drain'[w].rows = row.rows
      <3>1. PICK h : h = [row EXCEPT !.at = "BUILD", !.version = profile.version, !.columns = profile.edits \cap ColumnEdits]
        OBVIOUS
      <3>2. /\ h \in DrainRows
            /\ h.at = "BUILD" /\ h.version = profile.version /\ h.columns = profile.edits \cap ColumnEdits
            /\ h.taken = row.taken /\ h.rows = row.rows
        BY <1>row, <1>type, <3>1 DEF DrainRows
      <3>3. drain' = [drain EXCEPT ![w] = h]
        BY <2>1, <3>1
      <3>4. /\ drain' \in [Workers -> DrainRows] /\ drain'[w] = h
            /\ \A x \in Workers : x # w => drain'[x] = drain[x]
        BY <1>set, <3>2, <3>3
      <3> QED BY <3>2, <3>4
    <2>3. profile.edits = Committed /\ profile.version <= profile.version
      BY <1>type, <1>inv DEF EditsCommitted
    <2>4. SerialEdits => UpTo(profile.version) = Committed
      BY <1>serial DEF VersionsInOrder, UpTo, Committed
    <2>5. WorkerMoves(w)
      BY <1>type, <1>refl, <1>row, <2>1, <2>2, <2>3 DEF WorkerMoves
    <2>6. SerialEdits => WorkerInOrder(w)
      BY <1>type, <1>index, <1>refl, <1>row, <2>1, <2>2, <2>3, <2>4 DEF WorkerInOrder
    <2> QED BY <2>5, <2>6, WorkerStep
  <1>3. CASE Build(w)
    <2>1. /\ drain' = [drain EXCEPT ![w].at = "SEND", ![w].rows = profile.edits \cap RowEdits]
          /\ UNCHANGED <<profile, written, seen, event, index, faults>>
          /\ row.at = "BUILD"
      BY <1>3 DEF Build
    <2>2. /\ drain' \in [Workers -> DrainRows] /\ \A x \in Workers : x # w => drain'[x] = drain[x]
          /\ drain'[w].at = "SEND" /\ drain'[w].version = row.version
          /\ drain'[w].rows = profile.edits \cap RowEdits
          /\ drain'[w].taken = row.taken /\ drain'[w].columns = row.columns
      <3>1. PICK h : h = [row EXCEPT !.at = "SEND", !.rows = profile.edits \cap RowEdits]
        OBVIOUS
      <3>2. /\ h \in DrainRows
            /\ h.at = "SEND" /\ h.rows = profile.edits \cap RowEdits
            /\ h.version = row.version /\ h.columns = row.columns /\ h.taken = row.taken
        BY <1>row, <1>type, <3>1 DEF DrainRows
      <3>3. drain' = [drain EXCEPT ![w] = h]
        BY <2>1, <3>1
      <3>4. /\ drain' \in [Workers -> DrainRows] /\ drain'[w] = h
            /\ \A x \in Workers : x # w => drain'[x] = drain[x]
        BY <1>set, <3>2, <3>3
      <3> QED BY <3>2, <3>4
    <2>3. profile.edits = Committed
      BY <1>inv DEF EditsCommitted
    <2>4. SerialEdits => /\ row.version <= profile.version
                         /\ row.taken \subseteq UpTo(row.version)
                         /\ UpTo(row.version) \cap ColumnEdits \subseteq row.columns
                         /\ UpTo(row.version) \subseteq Committed
      BY <1>serial, <2>1 DEF VersionsInOrder, DrainsCurrent, UpTo
    <2>5. WorkerMoves(w)
      BY <1>type, <1>refl, <1>row, <2>1, <2>2, <2>3 DEF WorkerMoves
    <2>6. SerialEdits => WorkerInOrder(w)
      BY <1>type, <1>index, <1>refl, <1>row, <2>1, <2>2, <2>3, <2>4 DEF WorkerInOrder
    <2> QED BY <2>5, <2>6, WorkerStep
  <1>4. CASE Send(w)
    <2>1. PICK e \in row.left :
            drain' = [drain EXCEPT ![w].left = @ \ {e},
                                   ![w].at = IF drain[w].left = {e} THEN "COMMIT" ELSE "BUILD"]
      BY <1>4 DEF Send
    <2>2. /\ UNCHANGED <<profile, written, seen, event, faults>>
          /\ index' = [version |-> row.version, edits |-> row.columns \cup row.rows]
          /\ row.at = "SEND" /\ row.version >= index.version
      BY <1>4 DEF Send
    <2>3. /\ drain' \in [Workers -> DrainRows] /\ \A x \in Workers : x # w => drain'[x] = drain[x]
          /\ drain'[w].at \in {"BUILD", "COMMIT"} /\ drain'[w].version = row.version
          /\ drain'[w].rows = row.rows
          /\ drain'[w].taken = row.taken /\ drain'[w].columns = row.columns
      <3>1. PICK h : h = [row EXCEPT !.left = @ \ {e}, !.at = IF drain[w].left = {e} THEN "COMMIT" ELSE "BUILD"]
        OBVIOUS
      <3>2. /\ h \in DrainRows
            /\ h.at \in {"BUILD", "COMMIT"} /\ h.rows = row.rows
            /\ h.version = row.version /\ h.columns = row.columns /\ h.taken = row.taken
        BY <1>row, <1>type, <3>1 DEF DrainRows
      <3>3. drain' = [drain EXCEPT ![w] = h]
        BY <2>1, <3>1
      <3>4. /\ drain' \in [Workers -> DrainRows] /\ drain'[w] = h
            /\ \A x \in Workers : x # w => drain'[x] = drain[x]
        BY <1>set, <3>2, <3>3
      <3> QED BY <3>2, <3>4
    <2>4. /\ index' \in [version : Nat, edits : SUBSET Edits]
          /\ index'.version = row.version /\ index'.edits = row.columns \cup row.rows
          /\ index.version <= row.version /\ row.version <= row.version
      <3>1. ColumnEdits \cup RowEdits \subseteq Edits
        BY DEF Edits
      <3> QED BY <1>type, <1>field, <2>2, <3>1
    <2>5. SerialEdits =>
            /\ row.version <= profile.version
            /\ row.taken \subseteq UpTo(row.version)
            /\ UpTo(row.version) \cap ColumnEdits \subseteq row.columns
            /\ UpTo(row.version) \cap RowEdits \subseteq row.rows
      BY <1>serial, <2>2 DEF VersionsInOrder, DrainsCurrent
    <2>6. SerialEdits => UpTo(row.version) \subseteq row.columns \cup row.rows
      BY <2>5 DEF UpTo, Committed, Edits
    <2>7. SerialEdits => \A x \in Edits : event[x] = "PUBLISHED" => written[x] <= row.version
      BY <1>type, <1>index, <1>field, <2>4
    <2>8. WorkerMoves(w)
      BY <1>type, <1>row, <2>2, <2>3, <2>4 DEF WorkerMoves
    <2>9. SerialEdits => WorkerInOrder(w)
      BY <2>2, <2>3, <2>4, <2>5, <2>6, <2>7 DEF WorkerInOrder
    <2> QED BY <2>8, <2>9, WorkerStep
  \* A drain that ends: by a conflict, a fault, or its commit.
  <1>5. /\ Waiting \in DrainRows /\ Waiting.at = "WAIT" /\ Waiting.taken = {} /\ Waiting.columns = {}
        /\ Waiting.rows = {} /\ Waiting.version = 0
    BY DEF Waiting, DrainRows
  <1>6. CASE Conflict(w) \/ LoseDrain(w)
    <2>1. drain' = [drain EXCEPT ![w] = Waiting] /\ UNCHANGED <<profile, written, seen, event, index>>
      BY <1>6 DEF Conflict, LoseDrain
    <2>2. faults' \in 0..MaxFaults
      BY <1>6, <1>type, SearchAssumption DEF Conflict, LoseDrain
    <2>3. /\ drain' \in [Workers -> DrainRows] /\ drain'[w] = Waiting
          /\ \A x \in Workers : x # w => drain'[x] = drain[x]
      BY <1>set, <1>5, <2>1
    <2>4. WorkerMoves(w)
      BY <1>type, <1>refl, <1>5, <2>1, <2>2, <2>3 DEF WorkerMoves
    <2>5. SerialEdits => WorkerInOrder(w)
      BY <1>type, <1>index, <1>refl, <1>5, <2>1, <2>3 DEF WorkerInOrder
    <2> QED BY <2>4, <2>5, WorkerStep
  <1>7. CASE CommitDrain(w)
    <2>1. /\ drain' = [drain EXCEPT ![w] = Waiting] /\ UNCHANGED <<profile, written, seen, index, faults>>
          /\ event' = [e \in Edits |-> IF e \in row.taken THEN "PUBLISHED" ELSE event[e]]
          /\ row.at = "COMMIT"
      BY <1>7 DEF CommitDrain
    <2>2. event' \in [Edits -> {"NONE", "PENDING", "PUBLISHED"}]
      BY <1>type, <2>1
    <2>3. \A e \in Edits : event'[e] = "NONE" <=> event[e] = "NONE"
      BY <1>type, <1>row, <1>inv, <2>1 DEF EditsCommitted, Committed
    <2>4. ASSUME SerialEdits, NEW e \in Edits, event'[e] = "PUBLISHED" PROVE written[e] <= index.version
      <3>1. CASE e \in row.taken
        <4>1. row.taken \subseteq UpTo(row.version) /\ row.version <= index.version
          BY <1>serial, <2>1, <2>4 DEF DrainsCurrent
        <4>2. written[e] <= row.version
          BY <3>1, <4>1 DEF UpTo
        <4>3. written[e] \in Nat /\ row.version \in Nat /\ index.version \in Nat
          BY <1>type, <1>field
        <4> QED BY <4>1, <4>2, <4>3
      <3>2. CASE e \notin row.taken
        BY <1>index, <2>1, <2>4, <3>2
      <3> QED BY <3>1, <3>2
    <2>5. /\ drain' \in [Workers -> DrainRows] /\ drain'[w] = Waiting
          /\ \A x \in Workers : x # w => drain'[x] = drain[x]
      BY <1>set, <1>5, <2>1
    <2>6. WorkerMoves(w)
      BY <1>type, <1>refl, <1>5, <2>1, <2>2, <2>3, <2>5 DEF WorkerMoves
    <2>7. SerialEdits => WorkerInOrder(w)
      BY <1>type, <1>index, <1>refl, <1>5, <2>1, <2>4, <2>5 DEF WorkerInOrder
    <2> QED BY <2>6, <2>7, WorkerStep
  <1> QED BY <1>1, <1>2, <1>3, <1>4, <1>6, <1>7 DEF DrainStep

\* The profile and its search document: versions in the order of the edits
\* unless one was lost, and a document that has the edits up to its version.
THEOREM SearchInvariant == SearchSpec => []SearchInv
  <1>1. ASSUME SearchInv, [SearchNext]_searchVars PROVE SearchInv'
    <2>1. CASE UNCHANGED searchVars
      <3>1. UNCHANGED <<profile, written, seen, event, drain, index, faults>>
        BY <2>1 DEF searchVars
      <3>2. Committed' = Committed /\ (SerialEdits' <=> SerialEdits) /\ \A v : UpTo(v)' = UpTo(v)
        BY <3>1, NothingWritten
      <3> QED BY <1>1, <3>1, <3>2
          DEF SearchInv, SearchTypeOK, EditsCommitted, VersionsInOrder, DrainsCurrent, IndexCurrent
    <2>2. ASSUME NEW e \in Edits,
                 \/ UpsertProfile(e) \/ CreatePortfolioItem(e) \/ DeletePortfolioItem(e) \/ CreateReview(e)
                 \/ CloseProjectEdit(e) \/ ReplaceAvailabilityRules(e) \/ UpsertAvailabilityException(e)
          PROVE  SearchInv'
      <3>1. CommitEdit(e) /\ (e \in ColumnEdits => (seen[e].version = 0 => profile.version = 0))
        BY <2>2, SearchAssumption
        DEF UpsertProfile, CreatePortfolioItem, DeletePortfolioItem, CreateReview, CloseProjectEdit,
            ReplaceAvailabilityRules, UpsertAvailabilityException
      <3> QED BY <1>1, <3>1, CommitStep
    <2> QED BY <1>1, <2>1, <2>2, ReadStep, DrainKeeps DEF SearchNext
  <1> QED BY <1>1, SearchInitial, PTL DEF SearchSpec

\* When no event is unpublished, the document has every committed edit, if no
\* edit's version was lost: whatever number of drains overlap, die and overtake
\* each other (drain_search_outbox, index_freelancer with external_gte).
THEOREM SearchIsFresh == SearchSpec => []FreshWhenDrained
  <1>1. ASSUME SearchInv PROVE FreshWhenDrained
    <2>1. SUFFICES ASSUME SerialEdits, \A e \in Edits : event[e] # "PENDING"
                   PROVE  index.edits = profile.edits
      BY DEF FreshWhenDrained
    <2>2. SearchTypeOK /\ EditsCommitted /\ IndexCurrent
      BY <1>1, <2>1 DEF SearchInv
    <2>3. \A e \in Committed : event[e] = "PUBLISHED"
      BY <2>1, <2>2 DEF SearchTypeOK, EditsCommitted, Committed
    <2>4. Committed \subseteq UpTo(index.version)
      BY <2>2, <2>3 DEF IndexCurrent, UpTo, Committed
    <2> QED BY <2>2, <2>4 DEF IndexCurrent, EditsCommitted
  <1> QED BY <1>1, SearchInvariant, PTL
=============================================================================
