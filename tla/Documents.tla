------------------------------- MODULE Documents -------------------------------
(***************************************************************************)
(* The Documents of one Item and the stored objects they name: uploads,    *)
(* PDF inspection and its retries, attachments, annotated exports, copies  *)
(* to another Workspace, deletion, and the collection of objects that      *)
(* nothing names (documents/revisions.py, workflows.py, objects.py,        *)
(* exports.py, copying.py; operations/workflows.py for the scan).          *)
(*                                                                         *)
(* An object key is <<kind, producer, n>>: the PDF and the thumbnails of   *)
(* an upload, the file of an attachment, an annotated export, or           *)
(* <<"copy", key>>.  A durable execution is <<producer, n>>: n counts the  *)
(* inspections of one File Revision, 0 being its upload.  A transaction is *)
(* one step: its locks exclude what would change the rows it decides on    *)
(* (uploads share the Item root, deletions take it alone, as do against    *)
(* each other two uploads of a graphical abstract).  What runs between     *)
(* transactions (object I/O, messages, the recheck that precedes a         *)
(* deletion) is split.  A step that is executed again after a crash, an    *)
(* execution that is given up, a commit whose answer is lost and a         *)
(* deletion that fails are faults.                                         *)
(***************************************************************************)
EXTENDS Naturals, FiniteSets

CONSTANTS Uploads,      \* PDF uploads; each makes at most one File Revision
          Attachments,  \* attachment uploads
          Abstracts,    \* those uploaded as graphical abstract
          Exports,      \* annotated exports
          MaxRetries,   \* bound: retried inspections of one File Revision
          MaxFaults     \* bound: faults

ASSUME AbstractsAssumption == Abstracts \subseteq Attachments
ASSUME ProducersAssumption ==
  /\ Uploads \cap Attachments = {} /\ (Uploads \cup Attachments) \cap Exports = {}
  /\ "cleanup" \notin Uploads \cup Attachments \cup Exports
ASSUME BoundsAssumption == MaxRetries \in Nat /\ MaxFaults \in Nat

VARIABLES item,    \* the Item exists
          may,     \* its Workspace, role and account let the actor manage files
          rev,     \* file_revisions
          att,     \* attachments
          art,     \* export_artifacts
          tgt,     \* keys named by the Documents of the copied Item
          http,    \* upload requests
          mail,    \* the first upload-complete message of each upload
          job,     \* durable executions
          dead,    \* executions reported terminal while a step still runs
          copy,    \* the ItemDocumentCopy of one request
          store,   \* objects that exist
          sweep,   \* deletions between their checks
          faults

docs == <<item, may, rev, att, art, tgt>>
vars == <<docs, http, mail, job, dead, copy, store, sweep, faults>>

Senders == Uploads \cup Attachments
Jobs == (Uploads \X (0..MaxRetries)) \cup ((Attachments \cup Exports) \X {0})

Pdf(u) == <<"pdf", u, 0>>
Png(j) == <<"png", j[1], j[2]>>
Bin(a) == <<"bin", a, 0>>
Out(e) == <<"out", e, 0>>
CopyOf(k) == <<"copy", k>>
FileOf(x) == IF x \in Uploads THEN Pdf(x) ELSE Bin(x)
OwnKeys == {FileOf(x) : x \in Senders} \cup {Png(j) : j \in Uploads \X (0..MaxRetries)}
             \cup {Out(e) : e \in Exports}
Keys == OwnKeys \cup {CopyOf(k) : k \in OwnKeys}

\* object_reservation_attributes of each producer.
Reserves(j) ==
  CASE j[1] \in Uploads     -> {Pdf(j[1]), Png(j)}
    [] j[1] \in Attachments -> {Bin(j[1])}
    [] OTHER                -> {Out(j[1])}

NoRow == [state |-> "none"]
RevisionRows == [state : {"pending", "ready", "failed"}, run : 0..MaxRetries,
                 thumb : SUBSET OwnKeys]
InspectionPhases == {"reserved", "looked", "drawn", "published", "superseded"}
Phases == InspectionPhases \cup
          {"none", "waiting", "received", "validated", "built", "recorded",
           "failing", "clearing", "ended"}
Cleanup == <<"cleanup", 0>>  \* whoever deletes and reserves nothing itself
Sweepers == Jobs \cup {Cleanup}
Copies == [phase : {"none", "copying", "copied", "over"},
           rev : [Uploads -> RevisionRows \cup {NoRow}],
           att : [Attachments -> {"none", "plain", "abstract"}],
           done : SUBSET Keys]
NoCopy == [phase |-> "none", rev |-> [u \in Uploads |-> NoRow],
           att |-> [a \in Attachments |-> "none"], done |-> {}]

TypeOK ==
  /\ item \in BOOLEAN /\ may \in BOOLEAN
  /\ rev \in [Uploads -> RevisionRows \cup {NoRow}]
  /\ att \in [Attachments -> {"none", "plain", "abstract"}]
  /\ art \in [Exports -> {"none", "live", "expired"}]
  /\ tgt \in SUBSET Keys
  /\ http \in [Senders -> {"none", "sending", "stored", "over"}]
  /\ mail \in [Senders -> {"none", "complete", "failed"}]
  /\ job \in [Jobs -> Phases] /\ dead \in SUBSET Jobs
  /\ copy \in Copies
  /\ store \in SUBSET Keys
  /\ sweep \in SUBSET [key : Keys, by : Sweepers,
                       phase : {"asked", "unreserved", "doomed"}]
  /\ faults \in 0..MaxFaults

-------------------------------------------------------------------------------
(* What names an object. *)

Row(u) == rev[u] # NoRow
RevisionKeys(r, u) == IF r[u] = NoRow THEN {} ELSE {Pdf(u)} \cup r[u].thumb
AttachmentKeys(t) == {Bin(a) : a \in {b \in Attachments : t[b] # "none"}}
ItemKeys == (UNION {RevisionKeys(rev, u) : u \in Uploads}) \cup AttachmentKeys(att)

\* _document_object_keys.
Referenced ==
  ItemKeys \cup {Out(e) : e \in {x \in Exports : art[x] # "none"}} \cup tgt

\* Mutant: an execution that has ended keeps its reservations.
ActiveOnceStarted(j) == job[j] # "none" /\ j \notin dead
Active(j) == job[j] \notin {"none", "ended"} /\ j \notin dead
\* active_object_reservations; a deletion by an execution ignores its own.
Reserved(by) == UNION {Reserves(j) : j \in {i \in Jobs : Active(i) /\ i # by}}

Ask(keys, by) == {[key |-> k, by |-> by, phase |-> "asked"] : k \in keys}
Asks(keys, by) == sweep' = sweep \cup Ask(keys, by)
SweptBy(by) == {s \in sweep : s.by = by}

Becomes(j, phase) == job' = [job EXCEPT ![j] = phase]
Writable == item /\ may   \* _lock_upload_authority

-------------------------------------------------------------------------------
(* The upload request: store_pdf_revision and create_attachment. *)

StartUpload(x) ==
  /\ http[x] = "none" /\ Writable
  /\ http' = [http EXCEPT ![x] = "sending"]
  /\ Becomes(<<x, 0>>, "waiting")
  /\ UNCHANGED <<docs, mail, dead, copy, store, sweep, faults>>

PutObject(x) ==
  /\ http[x] = "sending"
  /\ http' = [http EXCEPT ![x] = "stored"]
  /\ store' = store \cup {FileOf(x)}
  /\ UNCHANGED <<docs, mail, job, dead, copy, sweep, faults>>

Post(x, message) ==
  mail' = [mail EXCEPT ![x] = IF @ = "none" THEN message ELSE @]
SendComplete(x) ==
  /\ http[x] = "stored"
  /\ http' = [http EXCEPT ![x] = "over"]
  /\ Post(x, "complete")
  /\ UNCHANGED <<docs, job, dead, copy, store, sweep, faults>>

\* put_object raises (what it wrote may or may not be removed again), or send
\* raises after the message did or did not arrive; or the server dies.
UploadFails(x) ==
  /\ http[x] \in {"sending", "stored"}
  /\ http' = [http EXCEPT ![x] = "over"]
  /\ \/ /\ http[x] = "sending"
        /\ store' \in {store, store \cup {FileOf(x)}}
        /\ Post(x, "failed")
     \/ /\ http[x] = "stored"
        /\ \E m \in {"complete", "failed"} : Post(x, m)
        /\ UNCHANGED store
     \/ UNCHANGED <<store, mail>>
  /\ UNCHANGED <<docs, job, dead, copy, sweep, faults>>

-------------------------------------------------------------------------------
(* upload_revision_workflow and upload_attachment_workflow. *)

Receive(x) ==
  /\ job[<<x, 0>>] = "waiting" /\ mail[x] = "complete"
  /\ Becomes(<<x, 0>>, "received")
  /\ UNCHANGED <<docs, http, mail, dead, copy, store, sweep, faults>>

\* recv times out, brings a failure, or the next transaction refuses.
Abandon(x) ==
  LET j == <<x, 0>> IN
  /\ \/ job[j] = "waiting"
     \/ job[j] \in {"received", "validated"} /\ ~Writable
  /\ Becomes(j, "clearing")
  /\ Asks(Reserves(j), j)
  /\ UNCHANGED <<docs, http, mail, dead, copy, store, faults>>

\* The transaction commits and answers; or its answer is lost, and the handler
\* removes what the execution reserves, unless a row names it.
Commits(j, phase) ==
  \/ Becomes(j, phase) /\ UNCHANGED <<sweep, faults>>
  \/ /\ faults < MaxFaults /\ faults' = faults + 1
     /\ Becomes(j, "clearing") /\ Asks(Reserves(j), j)

ReserveRevision(u) ==
  /\ job[<<u, 0>>] = "received" /\ Writable
  /\ rev' = [rev EXCEPT ![u] = [state |-> "pending", run |-> 0, thumb |-> {}]]
  /\ Commits(<<u, 0>>, "reserved")
  /\ UNCHANGED <<item, may, att, art, tgt, http, mail, dead, copy, store>>

ValidateAttachment(a) ==
  LET j == <<a, 0>> IN
  /\ job[j] = "received"
  /\ \/ Bin(a) \in store /\ Becomes(j, "validated") /\ UNCHANGED sweep
     \/ Becomes(j, "clearing") /\ Asks({Bin(a)}, j)  \* not the promised image
  /\ UNCHANGED <<docs, http, mail, dead, copy, store, faults>>

\* Mutant: the previous graphical abstract keeps its role.
CommitBesideAbstract(a) ==
  /\ job[<<a, 0>>] = "validated" /\ Writable
  /\ att' = [att EXCEPT ![a] = IF a \in Abstracts THEN "abstract" ELSE "plain"]
  /\ Commits(<<a, 0>>, "ended")
  /\ UNCHANGED <<item, may, rev, art, tgt, http, mail, dead, copy, store>>
\* The unique constraint on (item_id, role) refuses a second one beside it.
CommitAttachment(a) ==
  /\ job[<<a, 0>>] = "validated" /\ Writable
  /\ att' = [b \in Attachments |->
       IF b = a THEN IF a \in Abstracts THEN "abstract" ELSE "plain"
       ELSE IF a \in Abstracts /\ att[b] = "abstract" THEN "plain" ELSE att[b]]
  /\ Commits(<<a, 0>>, "ended")
  /\ UNCHANGED <<item, may, rev, art, tgt, http, mail, dead, copy, store>>

-------------------------------------------------------------------------------
(* inspect_and_publish_revision, one retried step of an execution. *)

Owns(j) == rev[j[1]].state = "pending" /\ rev[j[1]].run = j[2]

\* A row that is ready, or processed by another execution, ends the step.
Look(j) ==
  /\ job[j] = "reserved" /\ Row(j[1])
  /\ Becomes(j, IF rev[j[1]].run = j[2] /\ rev[j[1]].state # "ready"
                THEN "looked" ELSE "ended")
  /\ UNCHANGED <<docs, http, mail, dead, copy, store, sweep, faults>>

Draw(j) ==
  /\ job[j] = "looked" /\ Pdf(j[1]) \in store
  /\ store' = store \cup {Png(j)}
  /\ Becomes(j, "drawn")
  /\ UNCHANGED <<docs, http, mail, dead, copy, sweep, faults>>

\* Mutant: an older execution publishes too.
PublishAnyRun(j) ==
  /\ job[j] = "drawn" /\ Writable /\ rev[j[1]].state = "pending"
  /\ rev' = [rev EXCEPT ![j[1]].state = "ready", ![j[1]].thumb = {Png(j)}]
  /\ Becomes(j, "published")
  /\ UNCHANGED <<item, may, att, art, tgt, http, mail, dead, copy, store,
                 sweep, faults>>
Publish(j) ==
  /\ job[j] = "drawn" /\ Writable /\ Owns(j)
  /\ rev' = [rev EXCEPT ![j[1]].state = "ready", ![j[1]].thumb = {Png(j)}]
  /\ Becomes(j, "published")
  /\ UNCHANGED <<item, may, att, art, tgt, http, mail, dead, copy, store,
                 sweep, faults>>

\* Another execution has taken the row over: the thumbnail drawn is dropped.
Superseded(j) ==
  /\ job[j] = "drawn" /\ Writable /\ Row(j[1]) /\ ~Owns(j)
  /\ Becomes(j, "superseded") /\ Asks({Png(j)}, j)
  /\ UNCHANGED <<docs, http, mail, dead, copy, store, faults>>

\* The step's result is checkpointed.
StepEnds(j) ==
  /\ \/ job[j] = "published"
     \/ job[j] = "superseded" /\ SweptBy(j) = {}
  /\ Becomes(j, "ended") /\ dead' = dead \ {j}
  /\ UNCHANGED <<docs, http, mail, copy, store, sweep, faults>>

\* A crash, or an error that is retried, before the checkpoint.  A zombie is
\* not executed again: one process at a time runs an execution that has not
\* ended.  put_object removes what it could not complete.
Redo(j) ==
  /\ job[j] \in {"looked", "drawn", "published", "superseded"} /\ j \notin dead
  /\ faults < MaxFaults /\ faults' = faults + 1
  /\ Becomes(j, "reserved")
  /\ store' \in IF job[j] = "looked" THEN {store, store \ {Png(j)}} ELSE {store}
  /\ sweep' = sweep \ SweptBy(j)
  /\ UNCHANGED <<docs, http, mail, dead, copy>>

GivesUp(j) ==
  /\ Becomes(j, IF j \in dead THEN "ended" ELSE "failing")
  /\ dead' = dead \ {j} /\ sweep' = sweep \ SweptBy(j)
  /\ UNCHANGED <<docs, http, mail, copy, store>>
\* Every attempt raises: there is no row, no authority or no readable PDF.
StepRefuses(j) ==
  /\ \/ job[j] = "reserved" /\ ~Row(j[1])
     \/ job[j] = "looked"
     \/ job[j] = "drawn" /\ ~(Writable /\ Row(j[1]))
  /\ GivesUp(j) /\ UNCHANGED faults
\* The last attempt meets an error of the store or the database, maybe even
\* after its commit.
StepBreaks(j) ==
  /\ job[j] \in {"drawn", "published", "superseded"}
  /\ faults < MaxFaults /\ faults' = faults + 1
  /\ GivesUp(j)

\* fail_revision_processing, then remove_owned_object.
FailRevision(j) ==
  /\ job[j] = "failing"
  /\ rev' = IF Row(j[1]) /\ Owns(j) THEN [rev EXCEPT ![j[1]].state = "failed"] ELSE rev
  /\ Becomes(j, "clearing") /\ Asks({Png(j)}, j)
  /\ UNCHANGED <<item, may, att, art, tgt, http, mail, dead, copy, store, faults>>

\* The handler has removed what it owned; the execution ends as an error.
Cleared(j) ==
  /\ job[j] = "clearing" /\ SweptBy(j) = {}
  /\ Becomes(j, "ended")
  /\ UNCHANGED <<docs, http, mail, dead, copy, store, sweep, faults>>

\* Recovery is exhausted, or an operator cancels: no handler runs.
Die(j) ==
  /\ Active(j) /\ job[j] \notin {"looked", "drawn"}
  /\ faults < MaxFaults /\ faults' = faults + 1
  /\ Becomes(j, "ended") /\ sweep' = sweep \ SweptBy(j)
  /\ UNCHANGED <<docs, http, mail, dead, copy, store>>
\* A step that is running meanwhile goes on to its end, a zombie.
Outlive(j) ==
  /\ job[j] \in {"looked", "drawn"} /\ j \notin dead
  /\ faults < MaxFaults /\ faults' = faults + 1
  /\ dead' = dead \cup {j}
  /\ UNCHANGED <<docs, http, mail, job, copy, store, sweep>>

\* retry_revision_inspection: the execution observed before the row was locked
\* is still the row's, and has ended unless the row failed.
Retry(u, n) ==
  /\ Writable /\ rev[u].state \in {"pending", "failed"} /\ n = rev[u].run + 1
  /\ rev[u].state = "failed" \/ ~Active(<<u, rev[u].run>>)
  /\ rev' = [rev EXCEPT ![u].state = "pending", ![u].run = n]
  /\ Becomes(<<u, n>>, "reserved")
  /\ UNCHANGED <<item, may, att, art, tgt, http, mail, dead, copy, store,
                 sweep, faults>>

-------------------------------------------------------------------------------
(* Deletion of Documents and of the Item: rows and cleanup intent commit    *)
(* together.                                                                *)

DeleteRevision(u) ==
  /\ Writable /\ Row(u)
  /\ rev' = [rev EXCEPT ![u] = NoRow]
  /\ Asks(RevisionKeys(rev, u), Cleanup)
  /\ UNCHANGED <<item, may, att, art, tgt, http, mail, job, dead, copy, store, faults>>
DeleteAttachment(a) ==
  /\ Writable /\ att[a] # "none"
  /\ att' = [att EXCEPT ![a] = "none"]
  /\ Asks({Bin(a)}, Cleanup)
  /\ UNCHANGED <<item, may, rev, art, tgt, http, mail, job, dead, copy, store, faults>>
\* delete_item_documents; the actor's authority is another one, item.delete.
DeleteItem ==
  /\ item /\ item' = FALSE
  /\ rev' = [u \in Uploads |-> NoRow] /\ att' = [a \in Attachments |-> "none"]
  /\ Asks(ItemKeys, Cleanup)
  /\ UNCHANGED <<may, art, tgt, http, mail, job, dead, copy, store, faults>>

-------------------------------------------------------------------------------
(* Annotated exports. *)

StartExport(e) ==
  /\ job[<<e, 0>>] = "none" /\ may /\ \E u \in Uploads : Row(u)
  /\ Becomes(<<e, 0>>, "waiting")
  /\ UNCHANGED <<docs, http, mail, dead, copy, store, sweep, faults>>
Build(e) ==
  /\ job[<<e, 0>>] = "waiting"
  /\ \/ /\ may /\ \E u \in Uploads : Row(u) /\ Pdf(u) \in store
        /\ store' = store \cup {Out(e)}
        /\ Becomes(<<e, 0>>, "built")
     \/ Becomes(<<e, 0>>, "ended") /\ UNCHANGED store  \* no result, nothing to remove
  /\ UNCHANGED <<docs, http, mail, dead, copy, sweep, faults>>
\* record_annotation_export_artifact.
RecordArtifact(e) ==
  /\ job[<<e, 0>>] = "built" /\ may /\ \E u \in Uploads : Row(u)
  /\ art' = [art EXCEPT ![e] = "live"]
  /\ Becomes(<<e, 0>>, "recorded")
  /\ UNCHANGED <<item, may, rev, att, tgt, http, mail, dead, copy, store, sweep, faults>>
\* The artifact is refused, or the execution is interrupted after it.
ExportRaises(e) ==
  /\ job[<<e, 0>>] \in {"built", "recorded"}
  /\ Becomes(<<e, 0>>, "clearing") /\ Asks({Out(e)}, <<e, 0>>)
  /\ UNCHANGED <<docs, http, mail, dead, copy, store, faults>>
ExportEnds(e) ==
  /\ job[<<e, 0>>] = "recorded" /\ Becomes(<<e, 0>>, "ended")
  /\ UNCHANGED <<docs, http, mail, dead, copy, store, sweep, faults>>

Expire(e) ==
  /\ art[e] = "live" /\ art' = [art EXCEPT ![e] = "expired"]
  /\ UNCHANGED <<item, may, rev, att, tgt, http, mail, job, dead, copy, store,
                 sweep, faults>>
\* retire_expired_export_artifacts, whose keys a checkpointed step deletes.
Retire(e) ==
  /\ art[e] = "expired" /\ art' = [art EXCEPT ![e] = "none"]
  /\ Asks({Out(e)}, Cleanup)
  /\ UNCHANGED <<item, may, rev, att, tgt, http, mail, job, dead, copy, store, faults>>

-------------------------------------------------------------------------------
(* copy_item_to_workspace: a snapshot, object copies outside transactions,  *)
(* then the snapshot compared under locks.                                  *)

SnapshotKeys ==
  (UNION {RevisionKeys(copy.rev, u) : u \in Uploads}) \cup AttachmentKeys(copy.att)

StartCopy ==
  /\ copy.phase = "none" /\ Writable
  /\ \A u \in Uploads : Row(u) => rev[u].state = "ready"
  /\ copy' = [phase |-> "copying", rev |-> rev, att |-> att, done |-> {}]
  /\ UNCHANGED <<docs, http, mail, job, dead, store, sweep, faults>>
CopyObject(k) ==
  /\ copy.phase = "copying" /\ k \in SnapshotKeys /\ CopyOf(k) \notin copy.done
  /\ k \in store
  /\ store' = store \cup {CopyOf(k)}
  /\ copy' = [copy EXCEPT !.done = @ \cup {CopyOf(k)},
                !.phase = IF copy.done \cup {CopyOf(k)} = {CopyOf(x) : x \in SnapshotKeys}
                          THEN "copied" ELSE @]
  /\ UNCHANGED <<docs, http, mail, job, dead, sweep, faults>>
\* Install, index, commit; the acknowledgement may be lost, and the copier then
\* discards, trusting the recheck.  An Item without Documents copies nothing.
CopyIsComplete ==
  \/ copy.phase = "copied"
  \/ copy.phase = "copying" /\ SnapshotKeys = {}
InstallUnchecked ==
  /\ CopyIsComplete /\ Writable
  /\ tgt' = copy.done /\ copy' = [copy EXCEPT !.phase = "over"]
  /\ sweep' \in {sweep, sweep \cup Ask(copy.done, Cleanup)}
  /\ UNCHANGED <<item, may, rev, att, art, http, mail, job, dead, store, faults>>
Install ==
  /\ CopyIsComplete /\ Writable /\ copy.rev = rev /\ copy.att = att
  /\ tgt' = copy.done /\ copy' = [copy EXCEPT !.phase = "over"]
  /\ sweep' \in {sweep, sweep \cup Ask(copy.done, Cleanup)}
  /\ UNCHANGED <<item, may, rev, att, art, http, mail, job, dead, store, faults>>
\* A source is gone, the Item has changed, the request is cancelled (its copies
\* are discarded) or the server dies (they are not).
CopyFails ==
  /\ copy.phase \in {"copying", "copied"}
  /\ copy' = [copy EXCEPT !.phase = "over"]
  /\ sweep' \in {sweep, sweep \cup Ask(copy.done, Cleanup)}
  /\ UNCHANGED <<docs, http, mail, job, dead, store, faults>>

-------------------------------------------------------------------------------
(* delete_unreferenced_objects: reservations, then references, then the     *)
(* object; reconcile_objects finds the candidates of the scan.              *)

Replace(s, phase) == sweep' = (sweep \ {s}) \cup {[s EXCEPT !.phase = phase]}
Protecting(s) == IF s.phase = "asked" THEN Reserved(s.by) ELSE Referenced
Recheck(s) ==
  /\ s \in sweep /\ s.phase \in {"asked", "unreserved"}
  /\ IF s.key \in Protecting(s) THEN sweep' = sweep \ {s}
     ELSE Replace(s, IF s.phase = "asked" THEN "unreserved" ELSE "doomed")
  /\ UNCHANGED <<docs, http, mail, job, dead, copy, store, faults>>
Remove(s) ==
  /\ s \in sweep /\ s.phase = "doomed"
  /\ store' = store \ {s.key} /\ sweep' = sweep \ {s}
  /\ UNCHANGED <<docs, http, mail, job, dead, copy, faults>>
\* The deletion fails for good.
Drop(s) ==
  /\ s \in sweep /\ faults < MaxFaults /\ faults' = faults + 1
  /\ sweep' = sweep \ {s}
  /\ UNCHANGED <<docs, http, mail, job, dead, copy, store>>

\* Objects in the hands of a request or of one attempt of a step, which ends long
\* before the retention of orphans, an hour at least: none of them is old.
InFlight ==
  (IF copy.phase \in {"copying", "copied"} THEN copy.done ELSE {})
    \cup (UNION {Reserves(j) : j \in {i \in Jobs : i \in dead \/ job[i] = "drawn"}})
    \cup {FileOf(x) : x \in {y \in Senders : http[y] \in {"sending", "stored"}}}
\* scan_objects.
\* One deletion of a key at a time stands for those that other scans ask for.
Asked(k) == \E s \in sweep : s.key = k /\ s.by = Cleanup
\* Mutant: the age of an object is not looked at.
ScanAnyAge(k) ==
  /\ k \in store /\ ~Asked(k) /\ k \notin Reserved(Cleanup) \cup Referenced
  /\ Asks({k}, Cleanup)
  /\ UNCHANGED <<docs, http, mail, job, dead, copy, store, faults>>
Scan(k) ==
  /\ k \in store /\ ~Asked(k) /\ k \notin InFlight \cup Reserved(Cleanup) \cup Referenced
  /\ Asks({k}, Cleanup)
  /\ UNCHANGED <<docs, http, mail, job, dead, copy, store, faults>>

\* The actor leaves, is demoted or deactivated, or the Workspace is archived.
Authority ==
  /\ may /\ may' = FALSE
  /\ UNCHANGED <<item, rev, att, art, tgt, http, mail, job, dead, copy, store,
                 sweep, faults>>

-------------------------------------------------------------------------------
Init ==
  /\ item = TRUE /\ may = TRUE
  /\ rev = [u \in Uploads |-> NoRow] /\ att = [a \in Attachments |-> "none"]
  /\ art = [e \in Exports |-> "none"] /\ tgt = {}
  /\ http = [x \in Senders |-> "none"] /\ mail = [x \in Senders |-> "none"]
  /\ job = [j \in Jobs |-> "none"] /\ dead = {}
  /\ copy = NoCopy
  /\ store = {} /\ sweep = {} /\ faults = 0

Request(x) == StartUpload(x) \/ PutObject(x) \/ SendComplete(x) \/ UploadFails(x)
Inspection(j) ==
  \/ Look(j) \/ Draw(j) \/ Publish(j) \/ Superseded(j) \/ StepEnds(j)
  \/ StepRefuses(j) \/ FailRevision(j)
UploadRuns(u) == Receive(u) \/ Abandon(u) \/ ReserveRevision(u)
AttachmentRuns(a) ==
  Receive(a) \/ Abandon(a) \/ ValidateAttachment(a) \/ CommitAttachment(a)
ExportRuns(e) == Build(e) \/ RecordArtifact(e) \/ ExportRaises(e) \/ ExportEnds(e)
Fault(j) == Redo(j) \/ StepBreaks(j) \/ Die(j) \/ Outlive(j)
RunsOf(u) == {u} \X (0..MaxRetries)

UploadStep(u) ==
  \/ Request(u) \/ UploadRuns(u) \/ DeleteRevision(u)
  \/ \E j \in RunsOf(u) : Inspection(j) \/ Retry(u, j[2]) \/ Fault(j) \/ Cleared(j)
AttachmentStep(a) ==
  \/ Request(a) \/ AttachmentRuns(a) \/ DeleteAttachment(a)
  \/ Cleared(<<a, 0>>) \/ Die(<<a, 0>>)
ExportStep(e) ==
  \/ StartExport(e) \/ ExportRuns(e) \/ Expire(e) \/ Retire(e)
  \/ Cleared(<<e, 0>>) \/ Die(<<e, 0>>)
CopyStep ==
  \/ StartCopy \/ Install \/ CopyFails
  \/ \E k \in OwnKeys : CopyObject(k)
Collect(s) == Recheck(s) \/ Remove(s)
ObjectStep ==
  \/ \E s \in sweep : Collect(s) \/ Drop(s)
  \/ \E k \in Keys : Scan(k)

Next ==
  \/ \E u \in Uploads : UploadStep(u)
  \/ \E a \in Attachments : AttachmentStep(a)
  \/ \E e \in Exports : ExportStep(e)
  \/ CopyStep \/ ObjectStep \/ DeleteItem \/ Authority

\* Deletions are durable steps and the scan is periodic.
Collects == WF_vars(\E k \in Keys : Scan(k)) /\ WF_vars(\E s \in sweep : Collect(s))
Spec == Init /\ [][Next]_vars /\ Collects

-------------------------------------------------------------------------------
\* Every object that a Document, an artifact or a copied Item names is in the
\* store: no deletion meets a publication, a replayed step or a lost answer so
\* that a committed row names nothing.
NamedIsStored == Referenced \subseteq store

\* A ready File Revision shows what the execution it belongs to has drawn: one
\* that was superseded by a retry, or given up, neither publishes nor fails it.
OutcomeIsOwners == \A u \in Uploads : Row(u) =>
  /\ rev[u].state = "ready" => rev[u].thumb = {Png(<<u, rev[u].run>>)}
  /\ rev[u].state = "failed" =>
       job[<<u, rev[u].run>>] \in {"clearing", "ended"} /\ rev[u].thumb = {}

\* At most one attachment of an Item is its graphical abstract: whichever of two
\* uploads commits last takes the role from the other, and an answer that is lost
\* or a deletion in between does not bring it back.
OneAbstract == Cardinality({a \in Attachments : att[a] = "abstract"}) <= 1

\* A copied Item shows the Documents its source has at that moment, none that
\* was replaced or deleted while their objects were copied.
CopyIsCurrent == [][tgt' # tgt => tgt' = {CopyOf(k) : k \in ItemKeys'}]_vars

\* Once the actors rest, nothing is left in the store that nobody owns: what a
\* crash, a refusal or a failed deletion leaves behind is found and removed.
Owned(k) == k \in Referenced \cup InFlight
  \cup (UNION {Reserves(j) : j \in {i \in Jobs : job[i] \notin {"none", "ended"}}})
OrphansGo == <>[](\A k \in store : Owned(k))
===============================================================================
