----------------------------- MODULE ImportBatch -----------------------------
(***************************************************************************)
(* The life of one PDF Import Batch: upload, durable preparation, review,  *)
(* retry, confirmation, discard and retirement, with the physical deletion *)
(* of the PDFs it gives up.  Commands and the transactional steps of a     *)
(* preparation hold the batch row FOR UPDATE (or update it conditionally), *)
(* so each is one step; what they learn outside that lock (the state of a  *)
(* workflow, the protection of an object) is read in steps of its own.     *)
(*                                                                         *)
(* Abstractions: a candidate record is identified ("work"), basic, or      *)
(* basic with a retryable Provider diagnostic ("deferred"); other          *)
(* diagnostics, tag recommendations, search and audit rows are left out.   *)
(* A purged workflow answers like an ended one, and is one.                *)
(***************************************************************************)
EXTENDS Naturals, FiniteSets

CONSTANTS Sources,  \* the PDFs of the upload, each under its own object key
          MaxGens   \* bound: preparations of the batch (the first and its retries)

ASSUME MaxGensAssumption == MaxGens \in Nat \ {0}

VARIABLES upload,   \* the request that stages the PDFs: whether it runs, keys it has put
          batch,    \* the ImportBatch row; gen is its workflow_id, 0 for none
          granted,  \* whether batch.actor_id may still create Items in the Workspace
          wf,       \* prepare_pdf_import_workflow per generation
          seen,     \* a generation some request has found ended or missing, 0 for none
          store,    \* objects in the object store
          items,    \* Items created from each PDF; its File Revision names the object
          cleanup,  \* queued object deletions
          sweep,    \* the deletion whose protection is being checked
          reviewed  \* the preview a client has in front of it: generation and records

vars == <<upload, batch, granted, wf, seen, store, items, cleanup, sweep, reviewed>>

-------------------------------------------------------------------------------
Gens == 1..MaxGens
Records == {"none", "work", "basic", "deferred"}
NoRecords == [s \in Sources |-> "none"]
Live == {"pending", "ready", "failed"}
Steps == {"none", "lookup", "finalize", "finalized", "discarded", "raising",
          "closing", "ended"}

Deletions == [key : Sources, ignore : 0..MaxGens]

\* One deletion per key; g's reservation does not protect it.
Requests(keys, g) == {[key |-> k, ignore |-> g] : k \in keys}
NoSweep == [pc |-> "idle"]

TypeOK ==
  /\ upload \in [open : BOOLEAN, put : SUBSET Sources]
  /\ batch \in [status : Live \cup {"absent", "committed", "deleted"}, gen : 0..MaxGens,
                staged : SUBSET Sources, record : [Sources -> Records]]
  /\ granted \in BOOLEAN
  /\ wf \in [Gens -> [pc : Steps, keys : SUBSET Sources, out : [Sources -> Records]]]
  /\ seen \in 0..MaxGens
  /\ store \subseteq Sources
  /\ items \in [Sources -> Nat]
  /\ cleanup \subseteq Deletions
  /\ \/ sweep = NoSweep
     \/ sweep \in [pc : {"staging", "documents", "delete"}, key : Sources]
  /\ reviewed \in [gen : 0..MaxGens, record : [Sources -> Records]]

\* An execution DBOS still lists as active; its attributes reserve its keys.
Active(g) == wf[g].pc \notin {"none", "ended"}

\* import_staging_object_keys and _document_object_keys.
Staging == IF batch.status \in Live THEN batch.staged ELSE {}
Documents == {s \in Sources : items[s] > 0}

Finished == [pc |-> "ended", keys |-> {}, out |-> NoRecords]
NoReview == [gen |-> 0, record |-> NoRecords]
Move(g, pc) ==
  wf' = [wf EXCEPT ![g] = IF pc = "ended" THEN Finished ELSE [@ EXCEPT !.pc = pc]]
Launch(g, keys) == wf' = [wf EXCEPT ![g] = [pc |-> "lookup", keys |-> keys, out |-> NoRecords]]
Gone(status) == [status |-> status, gen |-> 0, staged |-> {}, record |-> NoRecords]

-------------------------------------------------------------------------------
(* stage_pdf_import_batch: objects first, then the batch and its workflow in *)
(* one transaction.                                                          *)

PutObject(s) ==
  /\ upload.open /\ s \notin upload.put
  /\ upload' = [upload EXCEPT !.put = @ \cup {s}]
  /\ store' = store \cup {s}
  /\ UNCHANGED <<batch, granted, wf, seen, items, cleanup, sweep, reviewed>>

\* The request may be cancelled once its commit is under way; it then deletes
\* what nothing references.
StageBatch ==
  /\ upload.open
  /\ upload' = [upload EXCEPT !.open = FALSE]
  /\ batch' = [status |-> "pending", gen |-> 1, staged |-> upload.put, record |-> NoRecords]
  /\ Launch(1, upload.put)
  /\ cleanup' \in {cleanup, cleanup \cup Requests(upload.put, 0)}
  /\ UNCHANGED <<granted, seen, store, items, sweep, reviewed>>

\* It fails before that, and cleans up unless its process is gone.
FailStaging ==
  /\ upload.open
  /\ upload' = [upload EXCEPT !.open = FALSE]
  /\ cleanup' \in {cleanup, cleanup \cup Requests(upload.put, 0)}
  /\ UNCHANGED <<batch, granted, wf, seen, store, items, sweep, reviewed>>

-------------------------------------------------------------------------------
(* prepare_pdf_import_workflow.  Completed steps are checkpointed, so an      *)
(* execution recovered after a crash goes on where it stopped.               *)

\* Extraction and Provider lookup.  A batch that no longer waits or an actor
\* who may not create Items discards the outcomes.
Lookup(g) ==
  /\ wf[g].pc = "lookup"
  /\ \E out \in [Sources -> Records] :
       /\ \A s \in Sources : s \notin wf[g].keys => out[s] = "none"
       /\ batch.status # "pending" \/ ~granted => out = NoRecords
       /\ wf' = [wf EXCEPT ![g].out = out, ![g].pc = "finalize"]
  /\ UNCHANGED <<upload, batch, granted, seen, store, items, cleanup, sweep, reviewed>>

\* The batch still waits for this generation.
\* Mutant: for any.
Waits(g) == batch.status = "pending"
Awaits(g) == batch.status = "pending" /\ batch.gen = g

\* Refreshed records join the siblings that earlier preparations identified.
Merged(g) == [s \in Sources |->
  IF wf[g].out[s] # "none" THEN wf[g].out[s] ELSE batch.record[s]]

Published(g) ==
  LET found == {s \in Sources : Merged(g)[s] # "none"} IN
  [batch EXCEPT !.record = Merged(g),
                !.staged = IF found = {} THEN @ ELSE @ \cap found,
                !.status = IF found = {} THEN "failed" ELSE "ready"]

\* finalize_pdf_import_batch, once per execution: its result is checkpointed in
\* the same transaction.
Publish(g) ==
  /\ wf[g].pc = "finalize" /\ Awaits(g) /\ granted
  /\ batch' = Published(g)
  /\ Move(g, "finalized")
  /\ UNCHANGED <<upload, granted, seen, store, items, cleanup, sweep, reviewed>>

\* Superseded, discarded, or its actor lost authority: in that case the batch
\* fails but keeps its PDFs.
Dismiss(g) ==
  /\ wf[g].pc = "finalize" /\ ~(Awaits(g) /\ granted)
  /\ batch' = IF Awaits(g) THEN [batch EXCEPT !.status = "failed"] ELSE batch
  /\ Move(g, "discarded")
  /\ UNCHANGED <<upload, granted, seen, store, items, cleanup, sweep, reviewed>>

\* The child execution that deletes rejected PDFs, or all after a dismissal;
\* it does not count its parent's reservation.
RejectObjects(g) ==
  /\ wf[g].pc \in {"finalized", "discarded"}
  /\ LET rejected == {s \in wf[g].keys : wf[g].out[s] = "none"}
     IN cleanup' = cleanup \cup
          Requests(IF wf[g].pc = "finalized" THEN rejected ELSE wf[g].keys, g)
  /\ Move(g, "closing")
  /\ UNCHANGED <<upload, batch, granted, seen, store, items, sweep, reviewed>>

End(g) ==
  /\ wf[g].pc = "closing"
  /\ Move(g, "ended")
  /\ UNCHANGED <<upload, batch, granted, seen, store, items, cleanup, sweep, reviewed>>

\* A step fails for good, authorization in the lookup step among the reasons.
Raise(g) ==
  /\ wf[g].pc \in {"lookup", "finalize", "finalized", "discarded"}
  /\ Move(g, "raising")
  /\ UNCHANGED <<upload, batch, granted, seen, store, items, cleanup, sweep, reviewed>>

\* fail_pdf_import_batch_step, a conditional update.
FailBatch(g) ==
  /\ wf[g].pc = "raising"
  /\ batch' = IF Awaits(g) THEN [batch EXCEPT !.status = "failed"] ELSE batch
  /\ Move(g, "ended")
  /\ UNCHANGED <<upload, granted, seen, store, items, cleanup, sweep, reviewed>>

\* Cancelled, or given up after too many recoveries: no step runs any more.
Abandon(g) ==
  /\ Active(g)
  /\ Move(g, "ended")
  /\ UNCHANGED <<upload, batch, granted, seen, store, items, cleanup, sweep, reviewed>>

-------------------------------------------------------------------------------
(* Commands on the batch. *)

\* Requests read that the workflow of a pending batch has ended, before they
\* lock the row one after the other; it may be retried in between.
Observe ==
  /\ seen = 0 /\ batch.status = "pending" /\ ~Active(batch.gen)
  /\ seen' = batch.gen
  /\ UNCHANGED <<upload, batch, granted, wf, store, items, cleanup, sweep, reviewed>>

\* The locked row is still of the generation observed.
\* Mutant: the observation is applied to whatever generation is there.
AnyGeneration == TRUE
SameGeneration == batch.gen = seen

\* _converge_pdf_import_batch_status
Converged ==
  IF seen # 0 /\ SameGeneration /\ batch.status = "pending"
  THEN [batch EXCEPT !.status = "failed"] ELSE batch

\* get_import_batch_preview: the state of a pending batch, the candidates of a
\* ready one.  The version is handed out with either; the client contract
\* (application-http-boundary.md:97) confirms a displayed, ready preview.
Preview ==
  /\ seen # 0
  /\ batch' = Converged /\ seen' \in {0, seen}
  /\ UNCHANGED <<upload, granted, wf, store, items, cleanup, sweep, reviewed>>
Review ==
  /\ batch.status = "ready"
  /\ reviewed' = [gen |-> batch.gen, record |-> batch.record]
  /\ UNCHANGED <<upload, batch, granted, wf, seen, store, items, cleanup, sweep>>

\* _can_retry_pdf_import_batch
CanRetry(b) ==
  /\ b.staged # {}
  /\ \/ b.status = "failed"
     \/ b.status = "ready" /\ \E s \in Sources : b.record[s] = "deferred"

\* retry_pdf_import_batch: identified and basic siblings stay, the rest is
\* prepared again by a workflow of its own, for the actor who asks.
Retry ==
  LET retained == {s \in Sources : Converged.record[s] \in {"work", "basic"}}
      g == batch.gen + 1
  IN
  /\ CanRetry(Converged) /\ g \in Gens
  /\ batch' = [Converged EXCEPT !.status = "pending", !.gen = g,
       !.record = [s \in Sources |-> IF s \in retained THEN batch.record[s] ELSE "none"]]
  /\ granted' = TRUE
  /\ Launch(g, batch.staged \ retained)
  /\ seen' \in {0, seen}
  /\ UNCHANGED <<upload, store, items, cleanup, sweep, reviewed>>

\* expected_preview_version identifies the generation the client reviewed.
\* Mutant: it is not compared.
AnyPreview == TRUE
SamePreview == batch.gen = reviewed.gen

\* commit_import_batch: every identified candidate and the basic ones the client
\* selected become Items, which take over their PDFs; skipped PDFs are cleaned
\* up.  On a committed batch it only repeats the answer.
Confirm(basics) ==
  LET chosen == basics \cup {s \in Sources : batch.record[s] = "work"} IN
  /\ reviewed # NoReview
  /\ batch.status = "ready" /\ SamePreview
  /\ \A s \in basics : batch.record[s] \in {"basic", "deferred"}
  /\ chosen # {} /\ chosen \subseteq batch.staged
  /\ batch' = Gone("committed")
  /\ items' = [s \in Sources |-> items[s] + IF s \in chosen THEN 1 ELSE 0]
  /\ cleanup' = cleanup \cup Requests(batch.staged \ chosen, 0)
  /\ reviewed' = NoReview
  /\ UNCHANGED <<upload, granted, wf, seen, store, sweep>>

Release ==
  /\ batch' = Gone("deleted")
  /\ cleanup' = cleanup \cup Requests(batch.staged, 0)
  /\ UNCHANGED <<upload, granted, wf, seen, store, items, sweep, reviewed>>

\* delete_import_batch
Discard == batch.status \in Live \cup {"committed"} /\ Release

\* purge_expired_import_batches keeps a batch that is being prepared.
\* Mutant: any pending batch.
NotPrepared == batch.status = "pending"
Preparing == batch.status = "pending" /\ Active(batch.gen)
Expire ==
  /\ batch.status \in Live \cup {"committed"} /\ ~Preparing
  /\ Release

\* The actor is suspended, demoted or deactivated.
RevokeActor ==
  /\ granted /\ granted' = FALSE
  /\ UNCHANGED <<upload, batch, wf, seen, store, items, cleanup, sweep, reviewed>>

-------------------------------------------------------------------------------
(* delete_unreferenced_objects: three reads, then the deletion.  Deletions    *)
(* change nothing but the store, so one at a time stands for any number of   *)
(* sweeps, and one that starts over for one that failed.                     *)

\* active_object_reservations: an execution that means to delete reserves nothing.
\* Mutant: it does.
ReservedByIntent(r) ==
  \/ \E g \in Gens : Active(g) /\ g # r.ignore /\ r.key \in wf[g].keys
  \/ \E q \in cleanup : q.key = r.key
Reserved(r) == \E g \in Gens : Active(g) /\ g # r.ignore /\ r.key \in wf[g].keys

Sweep(r) ==
  /\ sweep = NoSweep /\ r \in cleanup
  /\ cleanup' = cleanup \ {r}
  /\ sweep' = IF Reserved(r) THEN NoSweep ELSE [pc |-> "staging", key |-> r.key]
  /\ UNCHANGED <<upload, batch, granted, wf, seen, store, items, reviewed>>

\* Staging is read before the File Revisions it moves to.
\* Mutant: after them.
ReadLast(pc) == IF pc = "staging" THEN Documents ELSE Staging
ReadAt(pc) == IF pc = "staging" THEN Staging ELSE Documents

CheckReferences ==
  /\ sweep.pc \in {"staging", "documents"}
  /\ sweep' = IF sweep.key \in ReadAt(sweep.pc) THEN NoSweep
              ELSE [sweep EXCEPT !.pc = IF @ = "staging" THEN "documents" ELSE "delete"]
  /\ UNCHANGED <<upload, batch, granted, wf, seen, store, items, cleanup, reviewed>>

DeleteObject ==
  /\ sweep.pc = "delete"
  /\ store' = store \ {sweep.key} /\ sweep' = NoSweep
  /\ UNCHANGED <<upload, batch, granted, wf, seen, items, cleanup, reviewed>>

\* reconcile_objects: an object past the retention age that nothing protects is
\* a candidate; uploads end long before that age.
Reconcile(s) ==
  LET r == [key |-> s, ignore |-> 0] IN
  /\ s \in store /\ ~upload.open /\ r \notin cleanup
  /\ ~Reserved(r) /\ s \notin Staging \cup Documents
  /\ cleanup' = cleanup \cup {r}
  /\ UNCHANGED <<upload, batch, granted, wf, seen, store, items, sweep, reviewed>>

-------------------------------------------------------------------------------
Init ==
  /\ upload = [open |-> TRUE, put |-> {}]
  /\ batch = Gone("absent")
  /\ granted = TRUE
  /\ wf = [g \in Gens |-> [pc |-> "none", keys |-> {}, out |-> NoRecords]]
  /\ seen = 0 /\ store = {} /\ items = [s \in Sources |-> 0]
  /\ cleanup = {} /\ sweep = NoSweep
  /\ reviewed = NoReview

EndUpload == StageBatch \/ FailStaging
Prepare(g) == Lookup(g) \/ Publish(g) \/ Dismiss(g) \/ RejectObjects(g) \/ End(g) \/ FailBatch(g)
Command ==
  \/ Observe \/ Preview \/ Review \/ Retry \/ Discard
  \/ \E basics \in SUBSET Sources : Confirm(basics)
Collect == CheckReferences \/ DeleteObject \/ \E r \in Deletions : Sweep(r)

Next ==
  \/ EndUpload \/ \E s \in Sources : PutObject(s)
  \/ \E g \in Gens : Prepare(g) \/ Raise(g) \/ Abandon(g)
  \/ Command \/ Expire \/ RevokeActor
  \/ Collect \/ \E s \in Sources : Reconcile(s)

\* Requests end; DBOS runs, recovers or gives up what is active; the cleanup
\* queue, retention and reconciliation are scheduled for as long as it runs.
Works ==
  /\ WF_vars(EndUpload) /\ \A g \in Gens : WF_vars(Prepare(g))
  /\ WF_vars(Expire) /\ WF_vars(Collect) /\ \A s \in Sources : WF_vars(Reconcile(s))
Spec == Init /\ [][Next]_vars /\ Works

-------------------------------------------------------------------------------
\* The PDF of a batch that may still be confirmed, and of every Item it made,
\* is in the store: no deletion that checked its references before a retry or a
\* confirmation takes it away.
FilesPresent == Staging \cup Documents \subseteq store

\* A batch that is failed, and therefore offers a retry, has no preparation of
\* its generation left that could still publish: a stale observation of an
\* earlier workflow does not fail the one that is running.
FailedHasStopped ==
  batch.status = "failed" => wf[batch.gen].pc \notin {"lookup", "finalize"}

\* What a preparation has identified is neither prepared again nor lost by a
\* retry, a failure or a partial result, and keeps its PDF.
PreparedStays == [][\A s \in Sources :
  batch.record[s] = "work" /\ batch'.status \in Live =>
    batch'.record[s] = "work" /\ s \in batch'.staged]_vars

\* A confirmation creates one Item per PDF, once, from the candidate its client
\* reviewed: all the identified ones, and no other than was shown.
ConfirmedWasPreviewed == [][\A s \in Sources :
  /\ items'[s] # items[s] =>
       /\ items[s] = 0 /\ items'[s] = 1
       /\ reviewed.record[s] = batch.record[s] /\ batch.record[s] # "none"
  /\ items' # items /\ reviewed.record[s] = "work" => items'[s] = 1]_vars

\* A pending batch does not wait forever, whatever becomes of its workflow.
PendingSettles == (batch.status = "pending") ~> (batch.status # "pending")

\* An object that no upload, batch or Item owns any more leaves the store, also
\* when the deletion meant for it found it reserved or was lost.
OrphansGo == \A s \in Sources :
  (s \in store /\ ~upload.open /\ s \notin Staging \cup Documents) ~>
  (s \notin store \/ s \in Staging \cup Documents)
===============================================================================
