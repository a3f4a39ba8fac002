------------------------------- MODULE Files --------------------------------
(***************************************************************************)
(* Uploaded files (app/files): a reservation, an upload straight to object *)
(* storage, its completion, the scan by the workers that drain the outbox, *)
(* and the use of a file as message attachment or dispute evidence.        *)
(*                                                                         *)
(* A content is a model value; Infected are those the scanner refuses.     *)
(* The scan reads storage while it holds the rows of its event and file.   *)
(***************************************************************************)
EXTENDS Naturals, FiniteSets

CONSTANTS
  Files,      \* reservations
  Contents,   \* what may be uploaded
  Infected,   \* contents a scan refuses (signature, NUL bytes, virus)
  Misfits,    \* contents whose size or type is not the reserved one
  Evidence,   \* files reserved as DISPUTE_EVIDENCE; the others are message attachments
  Workers,
  MaxFaults   \* bound on scans that fail and workers that die

ASSUME FilesAssumption ==
  /\ MaxFaults \in Nat /\ Infected \subseteq Contents /\ Misfits \subseteq Contents
  /\ Evidence \subseteq Files
  /\ "NONE" \notin Contents \union Files

VARIABLES
  file,      \* file_objects: [status, digest]; digest is sha256, NONE when not declared
  stored,    \* the object in storage, NONE before an upload
  writable,  \* files whose presigned upload URL has not expired
  events,    \* outbox events file.scan.requested, one per completion
  scanned,   \* file_scan_receipts
  worker,    \* [event, at, content] of each worker
  used,      \* message attachments and dispute evidence
  faults

filesVars == <<file, stored, writable, events, scanned, worker, used, faults>>

Free == [event |-> "NONE", at |-> "IDLE", content |-> "NONE"]
LockedBy(w, f) == worker[w].event = f /\ worker[w].at \in {"LOCKED", "READ"}
Locked(f) == \E w \in Workers : LockedBy(w, f)
Fault == faults < MaxFaults /\ faults' = faults + 1

\* create_upload: a quarantined row, with or without a declared digest.
FilesInit ==
  /\ file \in [Files -> [status : {"QUARANTINED"}, digest : Contents \union {"NONE"}]]
  /\ stored = [f \in Files |-> "NONE"] /\ writable = Files
  /\ events = {} /\ scanned = {} /\ worker = [w \in Workers |-> Free] /\ used = {} /\ faults = 0

\* A PUT with the presigned URL.
Upload(f) ==
  /\ f \in writable
  /\ \E c \in Contents : stored' = [stored EXCEPT ![f] = c]
  /\ UNCHANGED <<file, writable, events, scanned, worker, used, faults>>

UploadUrlExpires(f) ==
  /\ f \in writable /\ writable' = writable \ {f}
  /\ UNCHANGED <<file, stored, events, scanned, worker, used, faults>>

\* complete_upload, of a quarantined file with an object: the metadata decide
\* between the scan and the rejection.  Otherwise it changes nothing.
Complete(f) ==
  /\ ~Locked(f) /\ file[f].status = "QUARANTINED" /\ stored[f] # "NONE"
  /\ IF stored[f] \in Misfits
     THEN file' = [file EXCEPT ![f].status = "REJECTED"] /\ UNCHANGED events
     ELSE file' = [file EXCEPT ![f].status = "SCANNING"] /\ events' = events \union {f}
  /\ UNCHANGED <<stored, writable, scanned, worker, used, faults>>

\* Listing of drain_scan_outbox; nothing is locked.
Collect(w) ==
  /\ worker[w] = Free
  /\ \E f \in events \ scanned : worker' = [worker EXCEPT ![w].event = f, ![w].at = "LISTED"]
  /\ UNCHANGED <<file, stored, writable, events, scanned, used, faults>>

Settled(f) == f \in scanned \/ file[f].status # "SCANNING"

\* Mutant: the rows are read without FOR UPDATE.
TakeUnlocked(w) ==
  LET f == worker[w].event IN
  /\ worker[w].at = "LISTED"
  /\ worker' = [worker EXCEPT ![w] = IF Settled(f) THEN Free ELSE [@ EXCEPT !.at = "LOCKED"]]
  /\ scanned' = IF file[f].status # "SCANNING" THEN scanned \union {f} ELSE scanned
  /\ UNCHANGED <<file, stored, writable, events, used, faults>>

\* _process_scan_event: the rows FOR UPDATE; an event with a receipt is left,
\* and one whose file is not being scanned only gets its receipt.
Take(w) ==
  LET f == worker[w].event IN
  /\ worker[w].at = "LISTED" /\ ~Locked(f)
  /\ worker' = [worker EXCEPT ![w] = IF Settled(f) THEN Free ELSE [@ EXCEPT !.at = "LOCKED"]]
  /\ scanned' = IF file[f].status # "SCANNING" THEN scanned \union {f} ELSE scanned
  /\ UNCHANGED <<file, stored, writable, events, used, faults>>

\* iter_bytes and scan.
ReadObject(w) ==
  /\ worker[w].at = "LOCKED"
  /\ worker' = [worker EXCEPT ![w].at = "READ", ![w].content = stored[worker[w].event]]
  /\ UNCHANGED <<file, stored, writable, events, scanned, used, faults>>

Clean(f, content) == content \notin Infected /\ file[f].digest \in {"NONE", content}

\* Mutant: the declared digest is not compared.
VerdictUnmatched(w) ==
  LET f == worker[w].event  content == worker[w].content IN
  /\ worker[w].at = "READ"
  /\ file' = [file EXCEPT ![f] = [status |-> IF content \notin Infected THEN "SAFE" ELSE "REJECTED",
                                  digest |-> @.digest]]
  /\ scanned' = scanned \union {f} /\ worker' = [worker EXCEPT ![w] = Free]
  /\ UNCHANGED <<stored, writable, events, used, faults>>

\* _process_scan_event: status, the digest of what was read, and the receipt.
Verdict(w) ==
  LET f == worker[w].event  content == worker[w].content IN
  /\ worker[w].at = "READ"
  /\ file' = [file EXCEPT ![f] = [status |-> IF Clean(f, content) THEN "SAFE" ELSE "REJECTED",
                                  digest |-> content]]
  /\ scanned' = scanned \union {f} /\ worker' = [worker EXCEPT ![w] = Free]
  /\ UNCHANGED <<stored, writable, events, used, faults>>

\* Mutant: the receipt is committed before the scan.
FailScanned(w) ==
  /\ worker[w] # Free /\ Fault
  /\ scanned' = IF worker[w].at = "READ" THEN scanned \union {worker[w].event} ELSE scanned
  /\ worker' = [worker EXCEPT ![w] = Free]
  /\ UNCHANGED <<file, stored, writable, events, used>>

\* The scanner or the storage raises, or the worker dies: nothing is
\* committed, and a later drain lists the event again.
Fail(w) ==
  /\ worker[w] # Free /\ Fault
  /\ worker' = [worker EXCEPT ![w] = Free]
  /\ UNCHANGED <<file, stored, writable, events, scanned, used>>

Use(f) ==
  /\ file[f].status = "SAFE" /\ f \notin used
  /\ used' = used \union {f}
  /\ UNCHANGED <<file, stored, writable, events, scanned, worker, faults>>

\* _validated_attachments of send_message, which locks nothing.
Attach(f) == f \notin Evidence /\ Use(f)

\* add_evidence, while the dispute takes evidence: the file's row FOR UPDATE.
AddEvidence(f) == f \in Evidence /\ ~Locked(f) /\ Use(f)

Scan(w) == Collect(w) \/ Take(w) \/ ReadObject(w) \/ Verdict(w)

FilesNext ==
  \/ \E f \in Files : Upload(f) \/ UploadUrlExpires(f) \/ Complete(f) \/ Attach(f) \/ AddEvidence(f)
  \/ \E w \in Workers : Scan(w) \/ Fail(w)

\* Celery beat starts the drain again and again.
FilesSpec == FilesInit /\ [][FilesNext]_filesVars /\ WF_filesVars(\E w \in Workers : Scan(w))
-----------------------------------------------------------------------------
\* A verdict is final, although several workers may list the same event: a
\* file that messages or disputes rely on does not change its status or its
\* digest any more.
VerdictIsFinal ==
  [][\A f \in Files : file[f].status \in {"SAFE", "REJECTED"} => file'[f] = file[f]]_filesVars

\* A file in use was scanned to the end, and its row bears the digest of the
\* content the scan accepted.
UsedWasScanned ==
  \A f \in used : file[f].status = "SAFE" /\ f \in scanned /\ file[f].digest \in Contents \ Infected

\* A completed upload gets its verdict, whatever workers die or scans fail:
\* the receipt is committed with the verdict and not before.
VerdictReached ==
  \A f \in Files : file[f].status = "SCANNING" ~> file[f].status \in {"SAFE", "REJECTED"}
=============================================================================
