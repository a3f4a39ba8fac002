-------------------------- MODULE SearchProjection --------------------------
(***************************************************************************)
(* One freelancer's search document: the edits that touch it               *)
(* (app/freelancers, app/portfolios, app/reviews, close_project), the      *)
(* outbox events they leave, and app/search/tasks, whose drains rebuild    *)
(* the document in Elasticsearch from what PostgreSQL holds.               *)
(*                                                                         *)
(* An edit reads the profile without a lock and writes projection_version  *)
(* from the value it read, so it is two actions.  A drain is a transaction *)
(* of one worker: its steps interleave with edits and with other drains,   *)
(* and it loads the profile's row once, however many events it has taken.  *)
(* A state of the profile is the set of edits that made it.                *)
(***************************************************************************)
EXTENDS Naturals

CONSTANTS
  ColumnEdits,   \* edits of the profile's own row: upsert_profile
  RowEdits,      \* edits of rows beside it: portfolio items, reviews, closing, availability
  Workers,       \* drains that may run at the same time
  MaxFaults      \* bound on the drains that die or find Elasticsearch down

Edits == ColumnEdits \cup RowEdits

ASSUME SearchAssumption ==
  /\ MaxFaults \in Nat
  /\ ColumnEdits \cap RowEdits = {}

VARIABLES
  profile,   \* freelancer_profiles: projection_version (0 without a row), the edits it has
  written,   \* the projection_version each committed edit wrote, 0 for the others
  seen,      \* what an edit under way has read: [reading, version]
  event,     \* the outbox event of each edit: NONE, PENDING, PUBLISHED
  drain,     \* the transaction of each worker
  index,     \* the document in Elasticsearch: [version, edits]
  faults     \* faults so far

searchVars == <<profile, written, seen, event, drain, index, faults>>

NotReading == [reading |-> FALSE, version |-> 0]

\* A worker between two tasks.
Waiting == [at |-> "WAIT", taken |-> {}, left |-> {}, version |-> 0, columns |-> {}, rows |-> {}]

SearchInit ==
  /\ profile = [version |-> 0, edits |-> {}]
  /\ written = [e \in Edits |-> 0]
  /\ seen = [e \in Edits |-> NotReading]
  /\ event = [e \in Edits |-> "NONE"]
  /\ drain = [w \in Workers |-> Waiting]
  /\ index = [version |-> 0, edits |-> {}]
  /\ faults = 0
-----------------------------------------------------------------------------
(* Edits.                                                                    *)

\* The request reads the profile.  Only upsert_profile works without one.
BeginEdit(e) ==
  /\ written[e] = 0 /\ ~seen[e].reading
  /\ e \in RowEdits => profile.version > 0
  /\ seen' = [seen EXCEPT ![e] = [reading |-> TRUE, version |-> profile.version]]
  /\ UNCHANGED <<profile, written, event, drain, index, faults>>

\* touch_search_projection: one more than the request has read.  A new row starts at 1.
NextVersion(read) == IF read = 0 THEN 2 ELSE read + 1

\* The request commits its rows, the version and the event.
CommitEdit(e) ==
  LET version == NextVersion(seen[e].version) IN
  /\ seen[e].reading
  /\ profile' = [version |-> version, edits |-> profile.edits \cup {e}]
  /\ written' = [written EXCEPT ![e] = version]
  /\ seen' = [seen EXCEPT ![e] = NotReading]
  /\ event' = [event EXCEPT ![e] = "PENDING"]
  /\ UNCHANGED <<drain, index, faults>>

\* A second creation of the profile meets the unique user_id and never commits.
UpsertProfile(e) ==
  /\ e \in ColumnEdits
  /\ seen[e].version = 0 => profile.version = 0
  /\ CommitEdit(e)

\* The other handlers write a row beside the profile.  Availability, unlike the
\* rest, is no part of the document: its edit moves the version all the same.
CreatePortfolioItem(e) == e \in RowEdits /\ CommitEdit(e)

DeletePortfolioItem(e) == e \in RowEdits /\ CommitEdit(e)

CreateReview(e) == e \in RowEdits /\ CommitEdit(e)

CloseProjectEdit(e) == e \in RowEdits /\ CommitEdit(e)

ReplaceAvailabilityRules(e) == e \in RowEdits /\ CommitEdit(e)

UpsertAvailabilityException(e) == e \in RowEdits /\ CommitEdit(e)

\* The request fails: always so for the loser of a creation.
FailEdit(e) ==
  /\ seen[e].reading
  /\ seen' = [seen EXCEPT ![e] = NotReading]
  /\ UNCHANGED <<profile, written, event, drain, index, faults>>
-----------------------------------------------------------------------------
(* Drains.                                                                   *)

Locked == UNION {drain[w].taken : w \in Workers}

\* SELECT ... FOR UPDATE SKIP LOCKED of the unpublished events.
Take(w) ==
  LET free == {e \in Edits : event[e] = "PENDING"} \ Locked IN
  /\ drain[w].at = "WAIT" /\ free # {}
  /\ drain' = [drain EXCEPT ![w] = [Waiting EXCEPT !.at = "LOAD", !.taken = free, !.left = free]]
  /\ UNCHANGED <<profile, written, seen, event, index, faults>>

\* The first event loads the profile; the session keeps that row for the others.
Load(w) ==
  /\ drain[w].at = "LOAD"
  /\ drain' = [drain EXCEPT ![w].at = "BUILD", ![w].version = profile.version,
                            ![w].columns = profile.edits \cap ColumnEdits]
  /\ UNCHANGED <<profile, written, seen, event, index, faults>>

\* build_freelancer_document: the row as loaded, reviews, projects and items as they are now.
Build(w) ==
  /\ drain[w].at = "BUILD"
  /\ drain' = [drain EXCEPT ![w].at = "SEND", ![w].rows = profile.edits \cap RowEdits]
  /\ UNCHANGED <<profile, written, seen, event, index, faults>>

\* Mutant: the index takes every document.
SendAnyVersion(w) ==
  /\ drain[w].at = "SEND"
  /\ index' = [version |-> drain[w].version, edits |-> drain[w].columns \cup drain[w].rows]
  /\ \E e \in drain[w].left :
       drain' = [drain EXCEPT ![w].left = @ \ {e},
                              ![w].at = IF drain[w].left = {e} THEN "COMMIT" ELSE "BUILD"]
  /\ UNCHANGED <<profile, written, seen, event, faults>>

\* client.index with version_type external_gte.
Send(w) ==
  /\ drain[w].at = "SEND"
  /\ drain[w].version >= index.version
  /\ index' = [version |-> drain[w].version, edits |-> drain[w].columns \cup drain[w].rows]
  /\ \E e \in drain[w].left :
       drain' = [drain EXCEPT ![w].left = @ \ {e},
                              ![w].at = IF drain[w].left = {e} THEN "COMMIT" ELSE "BUILD"]
  /\ UNCHANGED <<profile, written, seen, event, faults>>

\* The index holds a newer version: the exception ends the drain and rolls it back.
Conflict(w) ==
  /\ drain[w].at = "SEND"
  /\ drain[w].version < index.version
  /\ drain' = [drain EXCEPT ![w] = Waiting]
  /\ UNCHANGED <<profile, written, seen, event, index, faults>>

\* The drain's transaction commits: its events are published.
CommitDrain(w) ==
  /\ drain[w].at = "COMMIT"
  /\ event' = [e \in Edits |-> IF e \in drain[w].taken THEN "PUBLISHED" ELSE event[e]]
  /\ drain' = [drain EXCEPT ![w] = Waiting]
  /\ UNCHANGED <<profile, written, seen, index, faults>>

\* Mutant: the events are published before the index has the document.
LoseDrainPublished(w) ==
  /\ drain[w].at # "WAIT"
  /\ faults < MaxFaults
  /\ faults' = faults + 1
  /\ drain' = [drain EXCEPT ![w] = Waiting]
  /\ event' = [e \in Edits |-> IF e \in drain[w].taken THEN "PUBLISHED" ELSE event[e]]
  /\ UNCHANGED <<profile, written, seen, index>>

\* The worker dies or Elasticsearch does not answer: the events stay unpublished.
LoseDrain(w) ==
  /\ drain[w].at # "WAIT"
  /\ faults < MaxFaults
  /\ faults' = faults + 1
  /\ drain' = [drain EXCEPT ![w] = Waiting]
  /\ UNCHANGED <<profile, written, seen, event, index>>
-----------------------------------------------------------------------------
DrainStep(w) ==
  \/ Take(w) \/ Load(w) \/ Build(w) \/ Send(w) \/ Conflict(w) \/ CommitDrain(w)

SearchNext ==
  \/ \E e \in Edits :
       \/ BeginEdit(e) \/ FailEdit(e)
       \/ UpsertProfile(e) \/ CreatePortfolioItem(e) \/ DeletePortfolioItem(e) \/ CreateReview(e)
       \/ CloseProjectEdit(e) \/ ReplaceAvailabilityRules(e) \/ UpsertAvailabilityException(e)
  \/ \E w \in Workers : DrainStep(w) \/ LoseDrain(w)

SearchSpec == SearchInit /\ [][SearchNext]_searchVars

\* celery beat starts a drain every five seconds, and a worker goes on with the
\* one it has; no edit is ever obliged to happen.
SearchFairSpec == SearchSpec /\ \A w \in Workers : WF_searchVars(DrainStep(w))
-----------------------------------------------------------------------------
Committed == {e \in Edits : written[e] > 0}

\* No two edits have read the same version and both committed: every edit saw the one before.
SerialEdits == \A d, e \in Committed : written[d] = written[e] => d = e

SearchTypeOK ==
  /\ profile \in [version : Nat, edits : SUBSET Edits]
  /\ written \in [Edits -> Nat]
  /\ seen \in [Edits -> [reading : BOOLEAN, version : Nat]]
  /\ event \in [Edits -> {"NONE", "PENDING", "PUBLISHED"}]
  /\ drain \in [Workers -> [at : {"WAIT", "LOAD", "BUILD", "SEND", "COMMIT"},
                            taken : SUBSET Edits, left : SUBSET Edits, version : Nat,
                            columns : SUBSET ColumnEdits, rows : SUBSET RowEdits]]
  /\ index \in [version : Nat, edits : SUBSET Edits]
  /\ faults \in 0..MaxFaults

\* When no event is unpublished, the document has every committed edit, whatever
\* drains overlapped, died and overtook each other, if no edit's version was
\* lost (app/search/tasks, app/search/service index_freelancer).
FreshWhenDrained ==
  SerialEdits /\ (\A e \in Edits : event[e] # "PENDING")
    => index.edits = profile.edits

\* Search is eventually consistent (ADR-0003): an edit reaches the document, after
\* failed drains and version conflicts too, unless a version was lost on the way.
EditReachesIndex ==
  \A e \in Edits : written[e] > 0 ~> (e \in index.edits \/ ~SerialEdits)

\* ADR-0003: projection_version is monotonic and outbox delivery is at-least-once.
\* touch_search_projection adds to the version the request has read
\* (freelancers/service.py:196); when that takes the version back below the
\* document's, every drain of the event ends in the same conflict.
EventDelivered ==
  \A e \in Edits : event[e] = "PENDING" ~> event[e] = "PUBLISHED"
=============================================================================
