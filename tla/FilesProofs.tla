----------------------------- MODULE FilesProofs -----------------------------
(***************************************************************************)
(* Proofs about Files for any number of files, contents, workers and       *)
(* faults: a file in use was scanned to the end, and its verdict is final  *)
(* although its object may still be overwritten and several workers list   *)
(* its event.                                                              *)
(***************************************************************************)
EXTENDS Files, TLAPS

Rows == [status : {"QUARANTINED", "SCANNING", "SAFE", "REJECTED"}, digest : Contents \union {"NONE"}]

WorkerStates == [event : Files \union {"NONE"}, at : {"IDLE", "LISTED", "LOCKED", "READ"},
                 content : Contents \union {"NONE"}]

FilesTypeOK ==
  /\ file \in [Files -> Rows] /\ stored \in [Files -> Contents \union {"NONE"}]
  /\ worker \in [Workers -> WorkerStates]
  /\ events \subseteq Files /\ used \subseteq Files

\* The row lock makes a scan exclusive: the worker that holds the row of a file
\* holds it alone, and the file waits for that worker's verdict.
ScanExclusive ==
  /\ \A w \in Workers : worker[w].at \in {"LOCKED", "READ"} => file[worker[w].event].status = "SCANNING"
  /\ \A v, w \in Workers, f \in Files : LockedBy(v, f) /\ LockedBy(w, f) => v = w

\* A worker scans a completed upload, which has an object, and the digest of a
\* verdict is that of a content the worker has read.
ScanHasObject ==
  /\ \A w \in Workers : /\ worker[w].at # "IDLE" => worker[w].event \in events
                        /\ worker[w].at = "READ" => worker[w].content \in Contents
  /\ \A f \in events : stored[f] # "NONE"

\* What SAFE means.
SafeWasScanned ==
  \A f \in Files : file[f].status = "SAFE" => f \in scanned /\ file[f].digest \in Contents \ Infected

\* Nothing is used that is not SAFE.
UsedIsSafe == \A f \in used : file[f].status = "SAFE"

FilesInv == FilesTypeOK /\ ScanExclusive /\ ScanHasObject /\ SafeWasScanned /\ UsedIsSafe

\* Before any upload the invariant holds.
LEMMA FilesInitial == FilesInit => FilesInv
  <1> SUFFICES ASSUME FilesInit PROVE FilesInv
    OBVIOUS
  <1>1. FilesTypeOK
    BY DEF FilesInit, FilesTypeOK, Rows, WorkerStates, Free
  <1>2. \A w \in Workers : worker[w] = Free
    BY DEF FilesInit
  <1>3. \A f \in Files : file[f].status = "QUARANTINED"
    BY DEF FilesInit
  <1>4. ScanExclusive /\ ScanHasObject
    BY <1>2 DEF FilesInit, ScanExclusive, ScanHasObject, LockedBy, Free
  <1>5. SafeWasScanned /\ UsedIsSafe
    BY <1>3 DEF FilesInit, SafeWasScanned, UsedIsSafe
  <1> QED BY <1>1, <1>4, <1>5 DEF FilesInv

\* The client overwrites the object, also while it is scanned or after.
LEMMA UploadStep ==
  ASSUME FilesInv, NEW f \in Files, Upload(f) \/ UploadUrlExpires(f) PROVE FilesInv'
  <1>1. UNCHANGED <<file, events, scanned, worker, used>>
    BY DEF Upload, UploadUrlExpires
  <1>2. /\ stored' \in [Files -> Contents \union {"NONE"}]
        /\ \A g \in Files : stored[g] # "NONE" => stored'[g] # "NONE"
    BY FilesAssumption DEF Upload, UploadUrlExpires, FilesInv, FilesTypeOK
  <1>3. FilesTypeOK' /\ ScanHasObject'
    BY <1>1, <1>2 DEF FilesInv, FilesTypeOK, ScanHasObject
  <1>4. ScanExclusive' /\ SafeWasScanned' /\ UsedIsSafe'
    BY <1>1 DEF FilesInv, ScanExclusive, LockedBy, SafeWasScanned, UsedIsSafe
  <1> QED BY <1>3, <1>4 DEF FilesInv

\* Completion starts the scan of a file nobody has scanned.
LEMMA CompleteStep ==
  ASSUME FilesInv, NEW f \in Files, Complete(f) PROVE FilesInv'
  <1>1. UNCHANGED <<stored, scanned, worker, used>> /\ file[f].status = "QUARANTINED"
    BY DEF Complete
  <1>2. PICK status \in {"REJECTED", "SCANNING"} : file' = [file EXCEPT ![f].status = status]
    BY DEF Complete
  <1>3. events' \in {events, events \union {f}} /\ stored[f] # "NONE"
    BY DEF Complete
  <1>4. /\ file' \in [Files -> Rows] /\ file'[f].status = status
        /\ \A g \in Files \ {f} : file'[g] = file[g]
    BY <1>2 DEF FilesInv, FilesTypeOK, Rows
  <1>5. FilesTypeOK' /\ ScanHasObject'
    BY <1>1, <1>3, <1>4 DEF FilesInv, FilesTypeOK, ScanHasObject
  <1>6. ScanExclusive'
    <2>1. ASSUME NEW w \in Workers, worker[w].at \in {"LOCKED", "READ"}
          PROVE  file'[worker[w].event].status = "SCANNING"
      <3>1. worker[w].event \in Files /\ worker[w].event # f
        BY <1>1, <2>1 DEF FilesInv, FilesTypeOK, ScanHasObject, ScanExclusive
      <3> QED BY <1>4, <2>1, <3>1 DEF FilesInv, ScanExclusive
    <2> QED BY <1>1, <2>1 DEF FilesInv, ScanExclusive, LockedBy
  <1>7. SafeWasScanned' /\ UsedIsSafe'
    BY <1>1, <1>4 DEF FilesInv, FilesTypeOK, SafeWasScanned, UsedIsSafe
  <1> QED BY <1>5, <1>6, <1>7 DEF FilesInv

\* Only a SAFE file is attached or added as evidence.
LEMMA UseStep ==
  ASSUME FilesInv, NEW f \in Files, Attach(f) \/ AddEvidence(f) PROVE FilesInv'
  BY DEF Attach, AddEvidence, Use, FilesInv, FilesTypeOK, ScanExclusive, LockedBy, ScanHasObject,
         SafeWasScanned, UsedIsSafe

\* A worker lists an event, or gives up what it has.
LEMMA ListOrFailStep ==
  ASSUME FilesInv, NEW w \in Workers, Collect(w) \/ Fail(w) PROVE FilesInv'
  <1>1. UNCHANGED <<file, stored, events, scanned, used>>
    BY DEF Collect, Fail
  <1>2. PICK next \in WorkerStates :
          /\ worker' = [worker EXCEPT ![w] = next]
          /\ next.at \in {"IDLE", "LISTED"} /\ (next.at = "LISTED" => next.event \in events)
    <2>1. CASE Collect(w)
      <3>1. PICK f \in events : worker' = [worker EXCEPT ![w].event = f, ![w].at = "LISTED"]
        BY <2>1 DEF Collect
      <3> DEFINE next == [worker[w] EXCEPT !.event = f, !.at = "LISTED"]
      <3>2. worker[w] \in WorkerStates /\ f \in Files
        BY DEF FilesInv, FilesTypeOK
      <3>3. next \in WorkerStates /\ next.at = "LISTED" /\ next.event = f
        BY <3>2 DEF WorkerStates
      <3>4. worker' = [worker EXCEPT ![w] = next]
        BY <3>1, <3>2 DEF WorkerStates, FilesInv, FilesTypeOK
      <3> QED BY <3>3, <3>4
    <2>2. CASE Fail(w)
      <3>1. Free \in WorkerStates /\ Free.at = "IDLE"
        BY DEF Free, WorkerStates
      <3>2. worker' = [worker EXCEPT ![w] = Free]
        BY <2>2 DEF Fail
      <3> QED BY <3>1, <3>2
    <2> QED BY <2>1, <2>2
  <1>3. /\ worker' \in [Workers -> WorkerStates] /\ worker'[w] = next
        /\ \A v \in Workers \ {w} : worker'[v] = worker[v]
    BY <1>2 DEF FilesInv, FilesTypeOK
  <1>4. FilesTypeOK' /\ SafeWasScanned' /\ UsedIsSafe'
    BY <1>1, <1>3 DEF FilesInv, FilesTypeOK, SafeWasScanned, UsedIsSafe
  <1>5. ScanExclusive' /\ ScanHasObject'
    BY <1>1, <1>2, <1>3 DEF FilesInv, ScanExclusive, LockedBy, ScanHasObject
  <1> QED BY <1>4, <1>5 DEF FilesInv

\* The lock is taken where nobody has it, and only to scan.
LEMMA TakeStep ==
  ASSUME FilesInv, NEW w \in Workers, Take(w) PROVE FilesInv'
  <1> DEFINE f == worker[w].event
             next == IF Settled(f) THEN Free ELSE [worker[w] EXCEPT !.at = "LOCKED"]
  <1>1. /\ UNCHANGED <<file, stored, events, used>> /\ scanned \subseteq scanned'
        /\ worker[w].at = "LISTED" /\ ~Locked(f)
        /\ worker' = [worker EXCEPT ![w] = next]
    BY DEF Take
  <1>2. worker[w] \in WorkerStates /\ f \in events /\ f \in Files
    BY <1>1 DEF FilesInv, FilesTypeOK, ScanHasObject
  <1>3. /\ next \in WorkerStates
        /\ next.at = "IDLE" \/ (next.at = "LOCKED" /\ next.event = f /\ file[f].status = "SCANNING")
    BY <1>2 DEF Settled, Free, WorkerStates
  <1> HIDE DEF next, f
  <1>4. /\ worker' \in [Workers -> WorkerStates] /\ worker'[w] = next
        /\ \A v \in Workers \ {w} : worker'[v] = worker[v]
    BY <1>1, <1>3 DEF FilesInv, FilesTypeOK
  <1>5. FilesTypeOK' /\ SafeWasScanned' /\ UsedIsSafe'
    BY <1>1, <1>4 DEF FilesInv, FilesTypeOK, SafeWasScanned, UsedIsSafe
  <1>6. ScanHasObject'
    BY <1>1, <1>2, <1>3, <1>4 DEF FilesInv, ScanHasObject
  <1>7. ScanExclusive'
    BY <1>1, <1>2, <1>3, <1>4 DEF FilesInv, ScanExclusive, Locked, LockedBy
  <1> QED BY <1>5, <1>6, <1>7 DEF FilesInv

\* A worker reads the object of a file it holds locked.
LEMMA ReadObjectStep ==
  ASSUME FilesInv, NEW w \in Workers, ReadObject(w) PROVE FilesInv'
  <1> DEFINE f == worker[w].event
             next == [worker[w] EXCEPT !.at = "READ", !.content = stored[f]]
  <1>1. UNCHANGED <<file, stored, events, scanned, used>> /\ worker[w].at = "LOCKED"
    BY DEF ReadObject
  <1>2. worker[w] \in WorkerStates /\ f \in events /\ f \in Files /\ stored[f] \in Contents
    BY <1>1 DEF FilesInv, FilesTypeOK, ScanHasObject
  <1>3. /\ next \in WorkerStates /\ next.at = "READ" /\ next.event = f /\ next.content \in Contents
        /\ worker' = [worker EXCEPT ![w] = next]
    BY <1>2 DEF ReadObject, WorkerStates, FilesInv, FilesTypeOK
  <1> HIDE DEF next
  <1>4. /\ worker' \in [Workers -> WorkerStates] /\ worker'[w] = next
        /\ \A v \in Workers \ {w} : worker'[v] = worker[v]
    BY <1>3 DEF FilesInv, FilesTypeOK
  <1>5. FilesTypeOK' /\ SafeWasScanned' /\ UsedIsSafe'
    BY <1>1, <1>4 DEF FilesInv, FilesTypeOK, SafeWasScanned, UsedIsSafe
  <1>6. ScanHasObject' /\ ScanExclusive'
    BY <1>1, <1>2, <1>3, <1>4 DEF FilesInv, ScanHasObject, ScanExclusive, LockedBy
  <1> QED BY <1>5, <1>6 DEF FilesInv

\* What a worker writes: a verdict on a file that had none.
LEMMA VerdictWrites ==
  ASSUME FilesInv, NEW w \in Workers, Verdict(w)
  PROVE  LET f == worker[w].event IN
         /\ f \in Files /\ file[f].status = "SCANNING" /\ LockedBy(w, f)
         /\ file' \in [Files -> Rows]
         /\ \A g \in Files \ {f} : file'[g] = file[g]
         /\ file'[f].status \in {"SAFE", "REJECTED"}
         /\ file'[f].status = "SAFE" => file'[f].digest \in Contents \ Infected
         /\ scanned' = scanned \union {f} /\ worker' = [worker EXCEPT ![w] = Free]
         /\ UNCHANGED <<stored, events, used>>
  <1> DEFINE f == worker[w].event
             content == worker[w].content
             row == [status |-> IF Clean(f, content) THEN "SAFE" ELSE "REJECTED", digest |-> content]
  <1>1. worker[w].at = "READ" /\ file' = [file EXCEPT ![f] = row]
    BY DEF Verdict
  <1>2. f \in Files /\ file[f].status = "SCANNING" /\ LockedBy(w, f) /\ content \in Contents
    BY <1>1 DEF FilesInv, FilesTypeOK, ScanHasObject, ScanExclusive, LockedBy
  <1>3. /\ row \in Rows /\ row.status \in {"SAFE", "REJECTED"}
        /\ row.status = "SAFE" => row.digest \in Contents \ Infected
    BY <1>2 DEF Rows, Clean
  <1> HIDE DEF row
  <1>4. /\ file' \in [Files -> Rows] /\ file'[f] = row
        /\ \A g \in Files \ {f} : file'[g] = file[g]
    BY <1>1, <1>2, <1>3 DEF FilesInv, FilesTypeOK
  <1> QED BY <1>2, <1>3, <1>4 DEF Verdict

\* The verdict is on the content the worker has read, and is the first.
LEMMA VerdictStep ==
  ASSUME FilesInv, NEW w \in Workers, Verdict(w) PROVE FilesInv'
  <1> DEFINE f == worker[w].event
  <1>1. /\ f \in Files /\ file[f].status = "SCANNING" /\ LockedBy(w, f)
        /\ file' \in [Files -> Rows]
        /\ \A g \in Files \ {f} : file'[g] = file[g]
        /\ file'[f].status \in {"SAFE", "REJECTED"}
        /\ file'[f].status = "SAFE" => file'[f].digest \in Contents \ Infected
        /\ scanned' = scanned \union {f} /\ worker' = [worker EXCEPT ![w] = Free]
        /\ UNCHANGED <<stored, events, used>>
    BY VerdictWrites
  <1> HIDE DEF f
  <1>2. /\ worker' \in [Workers -> WorkerStates] /\ worker'[w] = Free
        /\ \A v \in Workers \ {w} : worker'[v] = worker[v]
    BY <1>1 DEF FilesInv, FilesTypeOK, Free, WorkerStates
  <1>3. FilesTypeOK' /\ ScanHasObject'
    BY <1>1, <1>2 DEF FilesInv, FilesTypeOK, ScanHasObject, Free
  <1>4. ScanExclusive'
    <2>1. ASSUME NEW v \in Workers, worker'[v].at \in {"LOCKED", "READ"}
          PROVE  file'[worker'[v].event].status = "SCANNING"
      <3>1. v # w /\ worker'[v] = worker[v]
        BY <1>2, <2>1 DEF Free
      <3>2. worker[v].event \in Files
        BY <2>1, <3>1 DEF FilesInv, FilesTypeOK, ScanHasObject
      <3>3. worker[v].event # f
        BY <1>1, <2>1, <3>1 DEF FilesInv, ScanExclusive, LockedBy
      <3> QED BY <1>1, <2>1, <3>1, <3>2, <3>3 DEF FilesInv, ScanExclusive
    <2>2. \A u, v \in Workers, g \in Files : LockedBy(u, g)' /\ LockedBy(v, g)' => u = v
      BY <1>2 DEF FilesInv, ScanExclusive, LockedBy, Free
    <2> QED BY <2>1, <2>2 DEF ScanExclusive
  <1>5. SafeWasScanned' /\ UsedIsSafe'
    BY <1>1 DEF FilesInv, FilesTypeOK, SafeWasScanned, UsedIsSafe
  <1> QED BY <1>3, <1>4, <1>5 DEF FilesInv
-----------------------------------------------------------------------------
\* The inductive invariant holds in every behaviour.
THEOREM FilesInvariant == FilesSpec => []FilesInv
  <1>1. FilesInv /\ [FilesNext]_filesVars => FilesInv'
    <2> SUFFICES ASSUME FilesInv, [FilesNext]_filesVars PROVE FilesInv'
      OBVIOUS
    <2>1. CASE UNCHANGED filesVars
      BY <2>1 DEF filesVars, FilesInv, FilesTypeOK, ScanExclusive, LockedBy, ScanHasObject,
                  SafeWasScanned, UsedIsSafe
    <2> QED
      BY <2>1, UploadStep, CompleteStep, UseStep, ListOrFailStep, TakeStep, ReadObjectStep, VerdictStep
      DEF FilesNext, Scan
  <1> QED BY <1>1, FilesInitial, PTL DEF FilesSpec

\* A file in use was scanned to the end, and its row bears the digest of a
\* content the scan accepted, whatever is uploaded meanwhile.
THEOREM UsedWasScannedHolds == FilesSpec => []UsedWasScanned
  <1>1. FilesInv => UsedWasScanned
    BY DEF FilesInv, FilesTypeOK, SafeWasScanned, UsedIsSafe, UsedWasScanned
  <1> QED BY <1>1, FilesInvariant, PTL

\* A verdict is final, however many workers have listed its event.
THEOREM VerdictIsFinalHolds == FilesSpec => VerdictIsFinal
  <1>1. FilesInv /\ [FilesNext]_filesVars =>
          [\A f \in Files : file[f].status \in {"SAFE", "REJECTED"} => file'[f] = file[f]]_filesVars
    <2> SUFFICES ASSUME FilesInv, FilesNext, NEW f \in Files, file[f].status \in {"SAFE", "REJECTED"}
                 PROVE  file'[f] = file[f]
      OBVIOUS
    <2>1. ASSUME NEW g \in Files, Complete(g) PROVE file'[f] = file[f]
      BY <2>1 DEF Complete, FilesInv, FilesTypeOK
    <2>2. ASSUME NEW w \in Workers, Verdict(w) PROVE file'[f] = file[f]
      BY <2>2, VerdictWrites
    <2>3. ASSUME \/ \E g \in Files : Upload(g) \/ UploadUrlExpires(g) \/ Attach(g) \/ AddEvidence(g)
                 \/ \E w \in Workers : Collect(w) \/ Take(w) \/ ReadObject(w) \/ Fail(w)
          PROVE  file'[f] = file[f]
      BY <2>3 DEF Upload, UploadUrlExpires, Attach, AddEvidence, Use, Collect, Take, ReadObject, Fail
    <2> QED BY <2>1, <2>2, <2>3 DEF FilesNext, Scan
  <1> QED BY <1>1, FilesInvariant, PTL DEF FilesSpec, VerdictIsFinal
=============================================================================
