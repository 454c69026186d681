--------------------------- MODULE ImportBatchProofs ---------------------------
(***************************************************************************)
(* Proofs about what clients send in: ImportBatch for any set of PDFs and  *)
(* any number of retries, Tokens for any users, tokens and requests, and   *)
(* Lookups for any identifiers, providers, permits and attempts.           *)
(***************************************************************************)
EXTENDS Intake, FiniteSetTheorems, SequenceTheorems, TLAPS

WfRows == [pc : Steps, keys : SUBSET Sources, out : [Sources -> Records]]
BatchRows == [status : Live \cup {"absent", "committed", "deleted"}, gen : 0..MaxGens,
              staged : SUBSET Sources, record : [Sources -> Records]]

-------------------------------------------------------------------------------
(* Types. *)

LEMMA NoRecordsType == NoRecords \in [Sources -> Records]
BY DEF NoRecords, Records

LEMMA GoneType ==
  ASSUME NEW status \in {"absent", "committed", "deleted"} PROVE Gone(status) \in BatchRows
BY NoRecordsType, MaxGensAssumption DEF Gone, BatchRows

LEMMA RequestsType ==
  ASSUME NEW keys \in SUBSET Sources, NEW g \in 0..MaxGens
  PROVE  Requests(keys, g) \subseteq Deletions
BY DEF Requests, Deletions

LEMMA MoveType ==
  ASSUME TypeOK, NEW g \in Gens, NEW pc \in Steps, Move(g, pc)
  PROVE  wf' \in [Gens -> WfRows]
<1>1. wf[g] \in WfRows BY DEF TypeOK, WfRows
<1>2. [wf[g] EXCEPT !.pc = pc] \in WfRows BY <1>1 DEF WfRows
<1>3. Finished \in WfRows BY NoRecordsType DEF Finished, WfRows, Steps
<1> QED BY <1>2, <1>3 DEF Move, TypeOK, WfRows

LEMMA LaunchType ==
  ASSUME TypeOK, NEW g \in Gens, NEW keys \in SUBSET Sources, Launch(g, keys)
  PROVE  wf' \in [Gens -> WfRows]
<1>1. [pc |-> "lookup", keys |-> keys, out |-> NoRecords] \in WfRows
  BY NoRecordsType DEF WfRows, Steps
<1> QED BY <1>1 DEF Launch, TypeOK, WfRows

LEMMA MergedType ==
  ASSUME TypeOK, NEW g \in Gens PROVE Merged(g) \in [Sources -> Records]
BY DEF Merged, TypeOK, Gens

LEMMA PublishedType ==
  ASSUME TypeOK, NEW g \in Gens PROVE Published(g) \in BatchRows
<1> DEFINE found == {s \in Sources : Merged(g)[s] # "none"}
<1>1. batch \in BatchRows BY DEF TypeOK, BatchRows
<1>2. (IF found = {} THEN batch.staged ELSE batch.staged \cap found) \in SUBSET Sources
  BY <1>1 DEF BatchRows
<1> HIDE DEF found
<1>3. [batch EXCEPT !.record = Merged(g),
                    !.staged = IF found = {} THEN @ ELSE @ \cap found,
                    !.status = IF found = {} THEN "failed" ELSE "ready"] \in BatchRows
  BY <1>1, <1>2, MergedType DEF BatchRows, Live
<1> QED BY <1>3 DEF Published, found

LEMMA FailedType ==
  ASSUME TypeOK PROVE [batch EXCEPT !.status = "failed"] \in BatchRows
BY DEF TypeOK, BatchRows, Live

LEMMA ConvergedType == ASSUME TypeOK PROVE Converged \in BatchRows
BY FailedType DEF Converged, TypeOK, BatchRows

LEMMA InitType == Init => TypeOK
<1> SUFFICES ASSUME Init PROVE TypeOK OBVIOUS
<1>1. batch \in BatchRows BY GoneType DEF Init
<1>2. wf \in [Gens -> WfRows] BY NoRecordsType DEF Init, WfRows, Steps
<1>3. reviewed \in [gen : 0..MaxGens, record : [Sources -> Records]]
  BY NoRecordsType, MaxGensAssumption DEF Init, NoReview
<1> QED BY <1>1, <1>2, <1>3, MaxGensAssumption DEF Init, TypeOK, BatchRows, WfRows

LEMMA CommandType ==
  ASSUME TypeOK, Command PROVE TypeOK'
<1>1. CASE Observe
  BY <1>1 DEF Observe, TypeOK
<1>2. CASE Preview
  BY <1>2, ConvergedType, MaxGensAssumption DEF Preview, TypeOK, BatchRows
<1>3. CASE Review
  BY <1>3 DEF Review, TypeOK
<1>4. CASE Retry
  <2> DEFINE retained == {s \in Sources : Converged.record[s] \in {"work", "basic"}}
             g == batch.gen + 1
             record == [s \in Sources |-> IF s \in retained THEN batch.record[s] ELSE "none"]
  <2>1. /\ g \in Gens /\ Launch(g, batch.staged \ retained)
        /\ batch' = [Converged EXCEPT !.status = "pending", !.gen = g, !.record = record]
        /\ granted' = TRUE /\ seen' \in {0, seen}
        /\ UNCHANGED <<upload, store, items, cleanup, sweep, reviewed>>
    BY <1>4 DEF Retry
  <2>2. record \in [Sources -> Records] BY DEF TypeOK, Records
  <2>3. batch.staged \ retained \in SUBSET Sources BY DEF TypeOK
  <2>4. g \in 0..MaxGens BY <2>1, MaxGensAssumption DEF Gens
  <2> HIDE DEF record, retained, g
  <2>5. batch' \in BatchRows
    <3>1. Converged \in BatchRows BY ConvergedType
    <3> HIDE DEF Converged
    <3>2. [Converged EXCEPT !.status = "pending", !.gen = g, !.record = record] \in BatchRows
      BY <3>1, <2>2, <2>4 DEF BatchRows, Live
    <3> QED BY <3>2, <2>1
  <2>6. wf' \in [Gens -> WfRows] BY <2>1, <2>3, LaunchType
  <2> QED BY <2>1, <2>5, <2>6, MaxGensAssumption DEF TypeOK, BatchRows, WfRows
<1>5. ASSUME Release PROVE TypeOK'
  <2>1. batch' \in BatchRows BY <1>5, GoneType DEF Release
  <2>2. cleanup' \subseteq Deletions
    BY <1>5, RequestsType, MaxGensAssumption DEF Release, TypeOK
  <2> QED BY <1>5, <2>1, <2>2 DEF Release, TypeOK, BatchRows
<1>6. ASSUME NEW basics \in SUBSET Sources, Confirm(basics) PROVE TypeOK'
  <2>1. batch' \in BatchRows BY <1>6, GoneType DEF Confirm
  <2>2. cleanup' \subseteq Deletions
    BY <1>6, RequestsType, MaxGensAssumption DEF Confirm, TypeOK
  <2>3. items' \in [Sources -> Nat] BY <1>6 DEF Confirm, TypeOK
  <2>4. reviewed' \in [gen : 0..MaxGens, record : [Sources -> Records]]
    BY <1>6, NoRecordsType, MaxGensAssumption DEF Confirm, NoReview
  <2> QED BY <1>6, <2>1, <2>2, <2>3, <2>4 DEF Confirm, TypeOK, BatchRows
<1> QED BY <1>1, <1>2, <1>3, <1>4, <1>5, <1>6 DEF Command, Discard

LEMMA PrepareType ==
  ASSUME TypeOK, NEW g \in Gens, Prepare(g) \/ Raise(g) \/ Abandon(g) PROVE TypeOK'
<1>1. CASE Lookup(g)
  <2>1. PICK out \in [Sources -> Records] :
          wf' = [wf EXCEPT ![g].out = out, ![g].pc = "finalize"]
    BY <1>1 DEF Lookup
  <2>2. wf[g] \in WfRows BY DEF TypeOK, WfRows
  <2>3. wf' \in [Gens -> WfRows] BY <2>1, <2>2 DEF TypeOK, WfRows, Steps
  <2> QED BY <1>1, <2>3 DEF Lookup, TypeOK, WfRows
<1>2. CASE Publish(g)
  <2>1. wf' \in [Gens -> WfRows] BY <1>2, MoveType DEF Publish, Steps
  <2>2. batch' \in BatchRows BY <1>2, PublishedType DEF Publish
  <2> QED BY <1>2, <2>1, <2>2 DEF Publish, TypeOK, WfRows, BatchRows
<1>3. CASE Dismiss(g)
  <2>1. wf' \in [Gens -> WfRows] BY <1>3, MoveType DEF Dismiss, Steps
  <2>2. batch' \in BatchRows BY <1>3, FailedType DEF Dismiss, TypeOK, BatchRows
  <2> QED BY <1>3, <2>1, <2>2 DEF Dismiss, TypeOK, WfRows, BatchRows
<1>4. CASE RejectObjects(g)
  <2>1. wf' \in [Gens -> WfRows] BY <1>4, MoveType DEF RejectObjects, Steps
  <2>2. wf[g].keys \in SUBSET Sources BY DEF TypeOK
  <2>3. cleanup' \subseteq Deletions
    BY <1>4, <2>2, MaxGensAssumption DEF RejectObjects, Requests, Deletions, TypeOK, Gens
  <2> QED BY <1>4, <2>1, <2>3 DEF RejectObjects, TypeOK, WfRows
<1>5. CASE End(g)
  <2>1. wf' \in [Gens -> WfRows] BY <1>5, MoveType DEF End, Steps
  <2> QED BY <1>5, <2>1 DEF End, TypeOK, WfRows
<1>6. CASE FailBatch(g)
  <2>1. wf' \in [Gens -> WfRows] BY <1>6, MoveType DEF FailBatch, Steps
  <2>2. batch' \in BatchRows BY <1>6, FailedType DEF FailBatch, TypeOK, BatchRows
  <2> QED BY <1>6, <2>1, <2>2 DEF FailBatch, TypeOK, WfRows, BatchRows
<1>7. CASE Raise(g)
  <2>1. wf' \in [Gens -> WfRows] BY <1>7, MoveType DEF Raise, Steps
  <2> QED BY <1>7, <2>1 DEF Raise, TypeOK, WfRows
<1>8. CASE Abandon(g)
  <2>1. wf' \in [Gens -> WfRows] BY <1>8, MoveType DEF Abandon, Steps
  <2> QED BY <1>8, <2>1 DEF Abandon, TypeOK, WfRows
<1> QED BY <1>1, <1>2, <1>3, <1>4, <1>5, <1>6, <1>7, <1>8 DEF Prepare

LEMMA UploadType ==
  ASSUME TypeOK, EndUpload \/ \E s \in Sources : PutObject(s) PROVE TypeOK'
<1>1. upload.put \in SUBSET Sources /\ upload \in [open : BOOLEAN, put : SUBSET Sources]
  BY DEF TypeOK
<1>2. Requests(upload.put, 0) \subseteq Deletions
  BY <1>1, RequestsType, MaxGensAssumption
<1>3. CASE StageBatch
  <2>1. 1 \in Gens /\ 1 \in 0..MaxGens BY MaxGensAssumption DEF Gens
  <2>2. wf' \in [Gens -> WfRows] BY <1>3, <1>1, <2>1, LaunchType DEF StageBatch
  <2>3. batch' \in BatchRows
    BY <1>3, <1>1, <2>1, NoRecordsType DEF StageBatch, BatchRows, Live
  <2>4. upload' \in [open : BOOLEAN, put : SUBSET Sources] BY <1>3, <1>1 DEF StageBatch
  <2>5. cleanup' \subseteq Deletions BY <1>3, <1>2 DEF StageBatch, TypeOK
  <2> QED BY <1>3, <2>2, <2>3, <2>4, <2>5 DEF StageBatch, TypeOK, WfRows, BatchRows
<1>4. CASE FailStaging
  <2>1. upload' \in [open : BOOLEAN, put : SUBSET Sources] BY <1>4, <1>1 DEF FailStaging
  <2>2. cleanup' \subseteq Deletions BY <1>4, <1>2 DEF FailStaging, TypeOK
  <2> QED BY <1>4, <2>1, <2>2 DEF FailStaging, TypeOK
<1>5. ASSUME NEW s \in Sources, PutObject(s) PROVE TypeOK'
  <2>1. upload' \in [open : BOOLEAN, put : SUBSET Sources] BY <1>5, <1>1 DEF PutObject
  <2> QED BY <1>5, <2>1 DEF PutObject, TypeOK
<1> QED BY <1>3, <1>4, <1>5 DEF EndUpload

LEMMA CollectType ==
  ASSUME TypeOK, Collect \/ \E s \in Sources : Reconcile(s) PROVE TypeOK'
<1>1. CASE CheckReferences
  <2>1. sweep \in [pc : {"staging", "documents", "delete"}, key : Sources]
    BY <1>1 DEF CheckReferences, TypeOK, NoSweep
  <2>2. sweep' = NoSweep \/ sweep' \in [pc : {"staging", "documents", "delete"}, key : Sources]
    BY <1>1, <2>1 DEF CheckReferences
  <2> QED BY <1>1, <2>2 DEF CheckReferences, TypeOK
<1>2. CASE DeleteObject
  BY <1>2 DEF DeleteObject, TypeOK
<1>3. ASSUME NEW r \in Deletions, Sweep(r) PROVE TypeOK'
  <2>1. r.key \in Sources BY DEF Deletions
  <2>2. sweep' = NoSweep \/ sweep' \in [pc : {"staging", "documents", "delete"}, key : Sources]
    BY <1>3, <2>1 DEF Sweep
  <2> QED BY <1>3, <2>2 DEF Sweep, TypeOK
<1>4. ASSUME NEW s \in Sources, Reconcile(s) PROVE TypeOK'
  <2>1. [key |-> s, ignore |-> 0] \in Deletions BY MaxGensAssumption DEF Deletions
  <2> QED BY <1>4, <2>1 DEF Reconcile, TypeOK
<1> QED BY <1>1, <1>2, <1>3, <1>4 DEF Collect

LEMMA NextType == ASSUME TypeOK, [Next]_vars PROVE TypeOK'
<1>1. CASE Expire
  <2>1. Release BY <1>1 DEF Expire
  <2>2. batch' \in BatchRows BY <2>1, GoneType DEF Release
  <2>3. cleanup' \subseteq Deletions
    BY <2>1, RequestsType, MaxGensAssumption DEF Release, TypeOK
  <2> QED BY <2>1, <2>2, <2>3 DEF Release, TypeOK, BatchRows
<1>2. CASE RevokeActor BY <1>2 DEF RevokeActor, TypeOK
<1>3. CASE UNCHANGED vars BY <1>3 DEF vars, TypeOK
<1> QED BY <1>1, <1>2, <1>3, UploadType, PrepareType, CommandType, CollectType DEF Next

\* Every variable of the batch's life keeps its type, whatever the numbers of
\* PDFs and retries.
THEOREM TypeCorrect == Spec => []TypeOK
<1>1. Init => TypeOK BY InitType
<1>2. TypeOK /\ [Next]_vars => TypeOK' BY NextType
<1> QED BY <1>1, <1>2, PTL DEF Spec

-------------------------------------------------------------------------------
(* No deletion takes a PDF that a batch or an Item still owns. *)

\* Until the upload ends there is neither a batch nor anything to delete.
NothingBeforeUpload == upload.open =>
  /\ batch = Gone("absent") /\ seen = 0 /\ reviewed = NoReview
  /\ cleanup = {} /\ sweep = NoSweep /\ Documents = {}
  /\ upload.put \subseteq store
  /\ \A g \in Gens : wf[g].pc = "none"

\* What a deletion has found without a reference gets none before it is deleted:
\* once the upload has ended no object becomes staged, and only staged ones
\* become File Revisions, which the deletion reads last.
DoomedIsUnowned ==
  /\ sweep.pc \in {"documents", "delete"} => sweep.key \notin Staging
  /\ sweep.pc = "delete" => sweep.key \notin Documents

FilesInv == TypeOK /\ NothingBeforeUpload /\ DoomedIsUnowned /\ FilesPresent

LEMMA FilesInit == Init => FilesInv
<1> SUFFICES ASSUME Init PROVE FilesInv OBVIOUS
<1>1. TypeOK BY InitType
<1>2. Documents = {} /\ Staging = {} BY DEF Init, Documents, Staging, Gone, Live
<1> QED
  BY <1>1, <1>2 DEF Init, FilesInv, NothingBeforeUpload, DoomedIsUnowned, FilesPresent, NoSweep

\* While the upload is open only it, or a change of authority, can happen.
LEMMA OnlyUploads ==
  ASSUME TypeOK, NothingBeforeUpload, upload.open, Next
  PROVE  RevokeActor \/ EndUpload \/ \E s \in Sources : PutObject(s)
<1>1. batch.status = "absent" /\ batch.record = NoRecords BY DEF NothingBeforeUpload, Gone
<1>2. ASSUME NEW g \in Gens, Prepare(g) \/ Raise(g) \/ Abandon(g) PROVE FALSE
  <2>1. wf[g].pc = "none" BY DEF NothingBeforeUpload
  <2> QED BY <1>2, <2>1 DEF Prepare, Raise, Abandon, Lookup, Publish, Dismiss,
             RejectObjects, End, FailBatch, Active
<1>3. ~Command
  <2>1. Converged = batch BY <1>1 DEF Converged
  <2> QED BY <1>1, <2>1 DEF Command, Observe, Preview, Review, Retry, CanRetry, Discard, Confirm,
             NothingBeforeUpload, Live
<1>4. ~Expire BY <1>1 DEF Expire, Live
<1>5. ~Collect BY DEF Collect, CheckReferences, DeleteObject, Sweep, NothingBeforeUpload, NoSweep
<1>6. ASSUME NEW s \in Sources PROVE ~Reconcile(s) BY DEF Reconcile
<1> QED BY <1>2, <1>3, <1>4, <1>5, <1>6 DEF Next

\* Objects change hands from the batch to its Items, and are given up.
ShiftsOwners ==
  /\ Staging' \subseteq Staging /\ Documents' \subseteq Documents \cup Staging
  /\ UNCHANGED <<upload, store, sweep>>

LEMMA PrepareShifts ==
  ASSUME TypeOK, NEW g \in Gens, Prepare(g) \/ Raise(g) \/ Abandon(g)
  PROVE  ShiftsOwners
<1>1. UNCHANGED <<items, upload, store, sweep>>
  BY DEF Prepare, Raise, Abandon, Lookup, Publish, Dismiss, RejectObjects, End, FailBatch
<1>2. CASE batch' = batch BY <1>1, <1>2 DEF ShiftsOwners, Staging, Documents
<1>3. CASE Awaits(g) /\ batch' = [batch EXCEPT !.status = "failed"]
  <2>1. batch'.staged = batch.staged /\ batch.status \in Live
    BY <1>3 DEF TypeOK, Awaits, Live
  <2> QED BY <1>1, <2>1 DEF ShiftsOwners, Staging, Documents
<1>4. CASE Publish(g)
  <2>1. batch'.staged \subseteq batch.staged /\ batch.status \in Live
    BY <1>4 DEF Publish, Published, TypeOK, Awaits, Live
  <2> QED BY <1>1, <2>1 DEF ShiftsOwners, Staging, Documents
<1> QED BY <1>2, <1>3, <1>4 DEF Prepare, Raise, Abandon, Lookup, Dismiss, RejectObjects, End, FailBatch

LEMMA ReleaseShifts == ASSUME Release PROVE ShiftsOwners
<1>1. batch'.status = "deleted" BY DEF Release, Gone
<1>2. Staging' = {} BY <1>1 DEF Staging, Live
<1> QED BY <1>2 DEF Release, ShiftsOwners, Documents

LEMMA ConvergedKeeps ==
  ASSUME TypeOK
  PROVE  /\ Converged.staged = batch.staged /\ Converged.record = batch.record
         /\ Converged.gen = batch.gen
         /\ Converged.status \in Live <=> batch.status \in Live
BY DEF Converged, TypeOK, Live

LEMMA CommandShifts == ASSUME TypeOK, Command PROVE ShiftsOwners
<1>1. CASE Observe \/ Review
  BY <1>1 DEF Observe, Review, ShiftsOwners, Staging, Documents
<1>2. CASE Preview
  BY <1>2, ConvergedKeeps DEF Preview, ShiftsOwners, Staging, Documents
<1>3. CASE Retry
  <2>1. batch' \in BatchRows BY <1>3, CommandType DEF Command, TypeOK, BatchRows
  <2>2. batch'.staged = Converged.staged
    BY <1>3, ConvergedType DEF Retry, BatchRows
  <2>3. Converged.status \in Live BY <1>3 DEF Retry, CanRetry, Live
  <2> QED BY <1>3, <2>2, <2>3, ConvergedKeeps DEF Retry, ShiftsOwners, Staging, Documents
<1>4. CASE Discard BY <1>4, ReleaseShifts DEF Discard
<1>5. ASSUME NEW basics \in SUBSET Sources, Confirm(basics) PROVE ShiftsOwners
  <2> DEFINE chosen == basics \cup {s \in Sources : batch.record[s] = "work"}
  <2>1. /\ chosen \subseteq batch.staged /\ batch.status = "ready" /\ batch'.status = "committed"
        /\ items' = [s \in Sources |-> items[s] + IF s \in chosen THEN 1 ELSE 0]
        /\ UNCHANGED <<upload, store, sweep>>
    BY <1>5 DEF Confirm, Gone
  <2>2. Staging' = {} /\ Staging = batch.staged BY <2>1 DEF Staging, Live
  <2> HIDE DEF chosen
  <2>3. Documents' \subseteq Documents \cup chosen BY <2>1 DEF Documents, TypeOK
  <2> QED BY <2>1, <2>2, <2>3 DEF ShiftsOwners
<1> QED BY <1>1, <1>2, <1>3, <1>4, <1>5 DEF Command

LEMMA ShiftKeepsFiles ==
  ASSUME DoomedIsUnowned, FilesPresent, ShiftsOwners PROVE DoomedIsUnowned' /\ FilesPresent'
BY DEF DoomedIsUnowned, FilesPresent, ShiftsOwners

LEMMA CollectKeepsFiles ==
  ASSUME TypeOK, DoomedIsUnowned, FilesPresent, Collect PROVE DoomedIsUnowned' /\ FilesPresent'
<1>1. Staging' = Staging /\ Documents' = Documents
  BY DEF Collect, CheckReferences, DeleteObject, Sweep, Staging, Documents
<1>2. CASE CheckReferences
  <2>1. sweep' = NoSweep \/
        /\ sweep.key \notin ReadAt(sweep.pc) /\ sweep'.key = sweep.key
        /\ sweep'.pc = IF sweep.pc = "staging" THEN "documents" ELSE "delete"
    BY <1>2 DEF CheckReferences, TypeOK, NoSweep
  <2> QED BY <1>1, <1>2, <2>1
      DEF CheckReferences, ReadAt, DoomedIsUnowned, FilesPresent, NoSweep
<1>3. CASE DeleteObject
  BY <1>1, <1>3 DEF DeleteObject, DoomedIsUnowned, FilesPresent, NoSweep
<1>4. ASSUME NEW r \in Deletions, Sweep(r) PROVE DoomedIsUnowned' /\ FilesPresent'
  BY <1>1, <1>4 DEF Sweep, DoomedIsUnowned, FilesPresent, NoSweep
<1> QED BY <1>2, <1>3, <1>4 DEF Collect

LEMMA FilesNext == ASSUME FilesInv, [Next]_vars PROVE FilesInv'
<1> USE DEF FilesInv
<1>1. TypeOK' BY NextType
<1>2. CASE UNCHANGED vars
  BY <1>1, <1>2 DEF vars, NothingBeforeUpload, DoomedIsUnowned, FilesPresent, Documents, Staging
<1>3. CASE RevokeActor
  BY <1>1, <1>3 DEF RevokeActor, NothingBeforeUpload, DoomedIsUnowned, FilesPresent,
     Documents, Staging
<1>4. CASE EndUpload
  <2>1. /\ ~upload'.open /\ sweep' = NoSweep /\ store' = store /\ Documents' = {}
        /\ upload.put \subseteq store
    BY <1>4 DEF EndUpload, StageBatch, FailStaging, NothingBeforeUpload, Documents, TypeOK
  <2>2. Staging' \subseteq upload.put
    BY <1>4 DEF EndUpload, StageBatch, FailStaging, NothingBeforeUpload, Staging, Gone, Live
  <2> QED BY <1>1, <2>1, <2>2 DEF NothingBeforeUpload, DoomedIsUnowned, FilesPresent, NoSweep
<1>5. ASSUME NEW s \in Sources, PutObject(s) PROVE FilesInv'
  <2>1. upload.put' = upload.put \cup {s} /\ upload'.open = upload.open
    BY <1>5 DEF PutObject, TypeOK
  <2> QED BY <1>1, <1>5, <2>1
      DEF PutObject, NothingBeforeUpload, DoomedIsUnowned, FilesPresent, Documents, Staging
<1>6. CASE ~upload.open /\ upload' = upload /\ DoomedIsUnowned' /\ FilesPresent'
  BY <1>1, <1>6 DEF NothingBeforeUpload
<1>7. CASE upload.open BY <1>2, <1>3, <1>4, <1>5, <1>7, OnlyUploads
<1>8. ASSUME ~upload.open, Command \/ Expire \/ \E g \in Gens : Prepare(g) \/ Raise(g) \/ Abandon(g)
      PROVE  FilesInv'
  <2>1. ShiftsOwners BY <1>8, PrepareShifts, CommandShifts, ReleaseShifts DEF Expire
  <2> QED BY <1>6, <1>8, <2>1, ShiftKeepsFiles DEF ShiftsOwners
<1>9. ASSUME ~upload.open, Collect PROVE FilesInv'
  <2>1. upload' = upload BY <1>9 DEF Collect, CheckReferences, DeleteObject, Sweep
  <2> QED BY <1>6, <1>9, <2>1, CollectKeepsFiles
<1>10. ASSUME ~upload.open, NEW s \in Sources, Reconcile(s) PROVE FilesInv'
  <2>1. ShiftsOwners BY <1>10 DEF Reconcile, ShiftsOwners, Staging, Documents
  <2> QED BY <1>6, <1>10, <2>1, ShiftKeepsFiles DEF ShiftsOwners
<1> QED BY <1>2, <1>3, <1>4, <1>5, <1>7, <1>8, <1>9, <1>10 DEF Next

\* No deletion, whatever it read and when, takes away the PDF of a batch that
\* may still be confirmed or of an Item.
THEOREM FilesStay == Spec => []FilesPresent
<1>1. FilesInv /\ [Next]_vars => FilesInv' BY FilesNext
<1>2. FilesInv => FilesPresent BY DEF FilesInv
<1> QED BY FilesInit, <1>1, <1>2, PTL DEF Spec

-------------------------------------------------------------------------------
(* A failed batch has no preparation left that could still publish. *)

\* A batch under way has a generation of its own, and no Items yet.
LiveIsLaunched == batch.status \in Live => batch.gen \in Gens /\ Documents = {}

\* A workflow seen to have ended stays so: a retry starts one of a later generation.
SeenHasStopped == seen # 0 => ~Active(seen) /\ (batch.status \in Live => seen <= batch.gen)

StoppedInv == LiveIsLaunched /\ SeenHasStopped /\ FailedHasStopped

LEMMA StoppedInit == Init => StoppedInv
BY DEF Init, StoppedInv, LiveIsLaunched, SeenHasStopped, FailedHasStopped, Gone, Live

LEMMA MoveFacts ==
  ASSUME TypeOK, NEW g \in Gens, NEW pc \in Steps, Move(g, pc)
  PROVE  /\ wf'[g].pc = pc
         /\ \A h \in Gens \ {g} : wf'[h] = wf[h]
         /\ \/ wf'[g].keys = {} /\ wf'[g].out = NoRecords
            \/ wf'[g].keys = wf[g].keys /\ wf'[g].out = wf[g].out
<1>1. wf[g] \in WfRows BY DEF TypeOK, WfRows
<1>2. CASE pc = "ended" BY <1>2 DEF Move, Finished, TypeOK
<1>3. CASE pc # "ended" BY <1>1, <1>3 DEF Move, TypeOK, WfRows
<1> QED BY <1>2, <1>3

\* A step of a preparation is that of an active execution, settles at most the
\* batch that awaits it, and only the lookup leads to one that may publish.
PreparesOwn(g) ==
  /\ Active(g) /\ UNCHANGED <<upload, items, seen, reviewed>>
  /\ \A h \in Gens \ {g} : wf'[h] = wf[h]
  /\ batch'.gen = batch.gen
  /\ batch' = batch \/ (Awaits(g) /\ batch'.status \in {"failed", "ready"})
  /\ wf'[g].pc \in {"lookup", "finalize"} => Lookup(g)

LEMMA PrepareOwn ==
  ASSUME TypeOK, NEW g \in Gens, Prepare(g) \/ Raise(g) \/ Abandon(g)
  PROVE  PreparesOwn(g)
<1>1. CASE Lookup(g)
  BY <1>1 DEF Lookup, PreparesOwn, Active, TypeOK
<1>2. ASSUME NEW pc \in Steps \ {"lookup", "finalize"}, Move(g, pc), Active(g),
             UNCHANGED <<upload, items, seen, reviewed>>,
             \/ batch' = batch
             \/ Awaits(g) /\ batch' = [batch EXCEPT !.status = "failed"]
             \/ Awaits(g) /\ batch' = Published(g)
      PROVE  PreparesOwn(g)
  <2>1. wf'[g].pc = pc /\ \A h \in Gens \ {g} : wf'[h] = wf[h] BY <1>2, MoveFacts
  <2>2. batch'.gen = batch.gen /\ (batch' = batch \/ batch'.status \in {"failed", "ready"})
    BY <1>2 DEF Published, TypeOK
  <2> QED BY <1>2, <2>1, <2>2 DEF PreparesOwn
<1>3. CASE Publish(g) BY <1>2, <1>3 DEF Publish, Active, Steps
<1>4. CASE Dismiss(g) BY <1>2, <1>4 DEF Dismiss, Active, Steps
<1>5. CASE RejectObjects(g) BY <1>2, <1>5 DEF RejectObjects, Active, Steps
<1>6. CASE End(g) \/ FailBatch(g) BY <1>2, <1>6 DEF End, FailBatch, Active, Steps
<1>7. CASE Raise(g) \/ Abandon(g) BY <1>2, <1>7 DEF Raise, Abandon, Active, Steps
<1> QED BY <1>1, <1>3, <1>4, <1>5, <1>6, <1>7 DEF Prepare

LEMMA PrepareStopped ==
  ASSUME TypeOK, StoppedInv, NEW g \in Gens, Prepare(g) \/ Raise(g) \/ Abandon(g)
  PROVE  StoppedInv'
<1> USE DEF StoppedInv
<1>1. PreparesOwn(g) BY PrepareOwn
<1>2. Awaits(g) => batch.status \in Live /\ batch.gen = g BY DEF Awaits, Live
<1>3. LiveIsLaunched' BY <1>1, <1>2 DEF PreparesOwn, LiveIsLaunched, Documents
<1>4. SeenHasStopped'
  <2>1. seen # 0 => seen \in Gens BY MaxGensAssumption DEF TypeOK, Gens
  <2>2. batch'.status \in Live => batch.status \in Live BY <1>1, <1>2 DEF PreparesOwn
  <2> QED BY <1>1, <2>1, <2>2 DEF PreparesOwn, SeenHasStopped, Active
<1>5. FailedHasStopped'
  <2> SUFFICES ASSUME batch'.status = "failed"
               PROVE  wf'[batch.gen].pc \notin {"lookup", "finalize"}
    BY <1>1 DEF PreparesOwn, FailedHasStopped
  <2>1. CASE batch.gen = g
    <3>1. Lookup(g) => batch'.status = batch.status /\ wf[g].pc = "lookup" BY DEF Lookup
    <3> QED BY <1>1, <2>1, <3>1 DEF PreparesOwn, FailedHasStopped
  <2>2. CASE batch.gen # g
    <3>1. batch' = batch /\ batch.gen \in Gens
      BY <1>1, <1>2, <2>2 DEF PreparesOwn, LiveIsLaunched, Live
    <3> QED BY <1>1, <2>2, <3>1 DEF PreparesOwn, FailedHasStopped
  <2> QED BY <2>1, <2>2
<1> QED BY <1>3, <1>4, <1>5

LEMMA ReleaseStopped == ASSUME StoppedInv, Release PROVE StoppedInv'
<1>1. batch'.status = "deleted" BY DEF Release, Gone
<1> QED BY <1>1 DEF Release, StoppedInv, LiveIsLaunched, SeenHasStopped, FailedHasStopped,
        Active, Live

LEMMA CommandStopped == ASSUME TypeOK, StoppedInv, Command PROVE StoppedInv'
<1> USE DEF StoppedInv
<1>1. CASE Observe
  BY <1>1 DEF Observe, LiveIsLaunched, SeenHasStopped, FailedHasStopped, Active, Documents, Live,
     TypeOK
<1>2. CASE Preview
  <2>1. batch'.status = "failed" => batch.status = "failed" \/ batch.gen = seen
    BY <1>2 DEF Preview, Converged, SameGeneration
  <2> QED BY <1>2, <2>1, ConvergedKeeps
      DEF Preview, LiveIsLaunched, SeenHasStopped, FailedHasStopped, Active, Documents
<1>3. CASE Review
  BY <1>3 DEF Review, LiveIsLaunched, SeenHasStopped, FailedHasStopped, Active, Documents
<1>4. CASE Retry
  <2>1. /\ batch'.status = "pending" /\ batch'.gen = batch.gen + 1 /\ batch'.gen \in Gens
        /\ \A h \in Gens \ {batch'.gen} : wf'[h] = wf[h]
        /\ batch.status \in Live /\ seen' \in {0, seen} /\ items' = items
    <3>1. /\ batch.status \in Live /\ seen' \in {0, seen} /\ items' = items
      BY <1>4, ConvergedKeeps DEF Retry, CanRetry, Live
    <3>2. batch'.status = "pending" /\ batch'.gen = batch.gen + 1 /\ batch'.gen \in Gens
      BY <1>4, ConvergedType DEF Retry, BatchRows
    <3>3. \A h \in Gens \ {batch'.gen} : wf'[h] = wf[h]
      BY <1>4, <3>2 DEF Retry, Launch, TypeOK
    <3> QED BY <3>1, <3>2, <3>3
  <2>2. SeenHasStopped'
    <3> SUFFICES ASSUME seen' # 0 PROVE ~Active(seen)' /\ seen <= batch.gen + 1
      BY <2>1 DEF SeenHasStopped
    <3>1. seen' = seen /\ ~Active(seen) /\ seen <= batch.gen
      BY <2>1 DEF SeenHasStopped
    <3>2. seen \in Nat /\ batch.gen \in Nat BY MaxGensAssumption DEF TypeOK
    <3>3. seen # batch'.gen /\ seen <= batch.gen + 1 BY <2>1, <3>1, <3>2
    <3>4. seen \in Gens BY <2>1, <3>1, MaxGensAssumption DEF TypeOK, Gens
    <3>5. wf'[seen] = wf[seen] BY <2>1, <3>3, <3>4
    <3> QED BY <3>1, <3>3, <3>5 DEF Active
  <2>3. Documents' = {} BY <2>1 DEF LiveIsLaunched, Documents
  <2> QED BY <2>1, <2>2, <2>3 DEF LiveIsLaunched, FailedHasStopped
<1>5. CASE Discard BY <1>5, ReleaseStopped DEF Discard
<1>6. ASSUME NEW basics \in SUBSET Sources, Confirm(basics) PROVE StoppedInv'
  <2>1. batch'.status = "committed" BY <1>6 DEF Confirm, Gone
  <2> QED BY <1>6, <2>1
      DEF Confirm, LiveIsLaunched, SeenHasStopped, FailedHasStopped, Active, Live
<1> QED BY <1>1, <1>2, <1>3, <1>4, <1>5, <1>6 DEF Command

LEMMA StoppedNext == ASSUME FilesInv, StoppedInv, [Next]_vars PROVE StoppedInv'
<1> USE DEF StoppedInv
<1>1. TypeOK BY DEF FilesInv
<1>2. CASE StageBatch
  <2>1. batch'.status = "pending" /\ batch'.gen = 1 /\ seen' = 0 /\ Documents' = {}
    BY <1>2 DEF StageBatch, FilesInv, NothingBeforeUpload, Documents
  <2> QED BY <2>1, MaxGensAssumption
      DEF LiveIsLaunched, SeenHasStopped, FailedHasStopped, Gens
<1>3. CASE UNCHANGED <<batch, wf, seen, items>>
  BY <1>3 DEF LiveIsLaunched, SeenHasStopped, FailedHasStopped, Active, Documents
<1>4. CASE Collect
  BY <1>3, <1>4 DEF Collect, CheckReferences, DeleteObject, Sweep
<1>5. ASSUME NEW s \in Sources, PutObject(s) \/ Reconcile(s) PROVE StoppedInv'
  BY <1>3, <1>5 DEF PutObject, Reconcile
<1>6. CASE FailStaging \/ RevokeActor \/ UNCHANGED vars
  BY <1>3, <1>6 DEF FailStaging, RevokeActor, vars
<1> QED BY <1>1, <1>2, <1>4, <1>5, <1>6, PrepareStopped, CommandStopped, ReleaseStopped
        DEF Next, EndUpload, Expire

\* Neither a stale observation nor a superseded execution fails a batch whose
\* preparation still runs.
THEOREM FailedAreStopped == Spec => []FailedHasStopped
<1>1. FilesInv /\ [Next]_vars => FilesInv' BY FilesNext
<1>2. FilesInv /\ StoppedInv /\ [Next]_vars => StoppedInv' BY StoppedNext
<1>3. StoppedInv => FailedHasStopped BY DEF StoppedInv
<1> QED BY FilesInit, StoppedInit, <1>1, <1>2, <1>3, PTL DEF Spec

-------------------------------------------------------------------------------
(* What is prepared stays prepared; what is confirmed was reviewed. *)

\* A preparation has outcomes only for its own PDFs; those are staged by the
\* batch that awaits it and have no record yet.
OwnOutcomes == \A g \in Gens :
  /\ \A s \in Sources : wf[g].out[s] # "none" => s \in wf[g].keys
  /\ Awaits(g) => /\ wf[g].keys \subseteq batch.staged
                  /\ \A s \in wf[g].keys : batch.record[s] = "none"

\* Every record belongs to a PDF that the batch still stages.
RecordsAreStaged == \A s \in Sources : batch.record[s] # "none" => s \in batch.staged

\* A preview is of a generation that was ready; as long as that is the batch's,
\* the batch shows what was reviewed.
ReviewIsCurrent == batch.status \in Live =>
  /\ reviewed.gen <= batch.gen
  /\ reviewed.gen = batch.gen =>
       batch.status # "pending" /\ (batch.status = "ready" => reviewed.record = batch.record)

ReviewInv == OwnOutcomes /\ RecordsAreStaged /\ ReviewIsCurrent
LEMMA ReviewInit == Init => ReviewInv
BY DEF Init, ReviewInv, OwnOutcomes, RecordsAreStaged, ReviewIsCurrent, Gone, Live, Awaits, NoRecords

\* The outcomes of an execution that moves on are its own still.
LEMMA PrepareOutcomes ==
  ASSUME TypeOK, OwnOutcomes, NEW g \in Gens, Prepare(g) \/ Raise(g) \/ Abandon(g)
  PROVE  /\ \A s \in Sources : wf'[g].out[s] # "none" => s \in wf'[g].keys
         /\ wf'[g].keys \subseteq wf[g].keys
<1>1. CASE Lookup(g)
  BY <1>1 DEF Lookup, TypeOK
<1>2. ASSUME NEW pc \in Steps, Move(g, pc)
      PROVE  /\ \A s \in Sources : wf'[g].out[s] # "none" => s \in wf'[g].keys
             /\ wf'[g].keys \subseteq wf[g].keys
  BY <1>2, MoveFacts DEF OwnOutcomes, NoRecords
<1> QED BY <1>1, <1>2 DEF Prepare, Publish, Dismiss, RejectObjects, End, FailBatch, Raise, Abandon, Steps

LEMMA PublishedFacts ==
  ASSUME TypeOK, OwnOutcomes, RecordsAreStaged, NEW g \in Gens, Awaits(g)
  PROVE  /\ \A s \in Sources : Published(g).record[s] # "none" => s \in Published(g).staged
         /\ \A s \in Sources : batch.record[s] # "none" =>
              Published(g).record[s] = batch.record[s]
<1> DEFINE found == {s \in Sources : Merged(g)[s] # "none"}
<1>1. Published(g).record = Merged(g) BY DEF Published, TypeOK
<1>2. Published(g).staged = IF found = {} THEN batch.staged ELSE batch.staged \cap found
  BY DEF Published, TypeOK
<1>3. ASSUME NEW s \in Sources, Merged(g)[s] # "none" PROVE s \in batch.staged
  BY <1>3 DEF Merged, OwnOutcomes, RecordsAreStaged
<1>4. ASSUME NEW s \in Sources, batch.record[s] # "none" PROVE Merged(g)[s] = batch.record[s]
  BY <1>4 DEF Merged, OwnOutcomes
<1> QED BY <1>1, <1>2, <1>3, <1>4

\* A step of a preparation leaves the batch, fails it or publishes its records.
LEMMA PrepareBatch ==
  ASSUME TypeOK, NEW g \in Gens, Prepare(g) \/ Raise(g) \/ Abandon(g)
  PROVE  \/ batch' = batch
         \/ /\ Awaits(g) /\ batch'.status = "failed"
            /\ batch'.record = batch.record /\ batch'.staged = batch.staged
         \/ Awaits(g) /\ batch' = Published(g)
BY DEF Prepare, Raise, Abandon, Lookup, Publish, Dismiss, RejectObjects, End, FailBatch, TypeOK

LEMMA PrepareReview ==
  ASSUME TypeOK, ReviewInv, NEW g \in Gens, Prepare(g) \/ Raise(g) \/ Abandon(g)
  PROVE  ReviewInv'
<1> USE DEF ReviewInv
<1>1. PreparesOwn(g) BY PrepareOwn
<1>2. OwnOutcomes'
  <2> SUFFICES ASSUME NEW h \in Gens
               PROVE /\ \A s \in Sources : wf'[h].out[s] # "none" => s \in wf'[h].keys
                     /\ Awaits(h)' => /\ wf'[h].keys \subseteq batch'.staged
                                      /\ \A s \in wf'[h].keys : batch'.record[s] = "none"
    BY DEF OwnOutcomes
  <2>1. Awaits(h)' => batch' = batch /\ Awaits(h) BY <1>1 DEF PreparesOwn, Awaits
  <2>2. CASE h = g
    BY <2>1, <2>2, PrepareOutcomes DEF OwnOutcomes
  <2>3. CASE h # g
    BY <1>1, <2>1, <2>3 DEF PreparesOwn, OwnOutcomes
  <2> QED BY <2>2, <2>3
<1>3. RecordsAreStaged' BY PrepareBatch, PublishedFacts DEF RecordsAreStaged
<1>4. ReviewIsCurrent'
  <2>1. Awaits(g) => batch.status = "pending" /\ reviewed.gen # batch.gen
    BY DEF Awaits, ReviewIsCurrent, Live
  <2>2. batch'.status \in Live => batch.status \in Live
    BY <1>1 DEF PreparesOwn, Awaits, Live
  <2> QED BY <1>1, <2>1, <2>2 DEF PreparesOwn, ReviewIsCurrent, Awaits, Live
<1> QED BY <1>2, <1>3, <1>4

LEMMA GoneReview ==
  ASSUME ReviewInv, NEW status \in {"committed", "deleted"}, batch' = Gone(status), wf' = wf
  PROVE  ReviewInv'
<1>1. batch'.status \notin Live /\ batch'.record = NoRecords BY DEF Gone, Live
<1>2. \A g \in Gens : ~Awaits(g)' BY <1>1 DEF Awaits, Live
<1> QED BY <1>1, <1>2 DEF ReviewInv, OwnOutcomes, RecordsAreStaged, ReviewIsCurrent, NoRecords

\* What a retry makes of a batch: the prepared siblings stay, the rest is its own
\* generation's.
LEMMA RetryFacts ==
  ASSUME TypeOK, RecordsAreStaged, Retry
  PROVE  \E g \in Gens : \E keys \in SUBSET batch.staged :
    /\ g = batch.gen + 1 /\ batch'.gen = g /\ batch'.status = "pending"
    /\ batch.status \in Live /\ batch'.staged = batch.staged
    /\ wf' = [wf EXCEPT ![g] = [pc |-> "lookup", keys |-> keys, out |-> NoRecords]]
    /\ \A s \in Sources : batch'.record[s] # "none" => s \in batch.staged /\ s \notin keys
    /\ \A s \in Sources : batch.record[s] = "work" => batch'.record[s] = "work"
    /\ reviewed' = reviewed
<1> DEFINE retained == {s \in Sources : Converged.record[s] \in {"work", "basic"}}
           g == batch.gen + 1
           keys == batch.staged \ retained
           record == [s \in Sources |-> IF s \in retained THEN batch.record[s] ELSE "none"]
<1>1. /\ g \in Gens /\ Launch(g, keys) /\ CanRetry(Converged)
      /\ batch' = [Converged EXCEPT !.status = "pending", !.gen = g, !.record = record]
      /\ reviewed' = reviewed
  BY DEF Retry
<1>2. Converged \in BatchRows BY ConvergedType
<1>3. batch'.status = "pending" /\ batch'.gen = g /\ batch'.record = record
      /\ batch'.staged = batch.staged
  <2>1. Converged.staged = batch.staged BY ConvergedKeeps
  <2> HIDE DEF record, Converged, g
  <2> QED BY <1>1, <1>2, <2>1 DEF BatchRows
<1>4. batch.status \in Live BY <1>1, ConvergedKeeps DEF CanRetry, Live
<1>5. \A s \in Sources : batch.record[s] = "work" => s \in retained BY ConvergedKeeps
<1>6. keys \in SUBSET batch.staged OBVIOUS
<1>7. wf' = [wf EXCEPT ![g] = [pc |-> "lookup", keys |-> keys, out |-> NoRecords]]
  BY <1>1 DEF Launch
<1>8. \A s \in Sources : batch'.record[s] # "none" => s \in batch.staged /\ s \notin keys
  BY <1>3 DEF RecordsAreStaged
<1> HIDE DEF keys, g
<1> QED BY <1>1, <1>3, <1>4, <1>5, <1>6, <1>7, <1>8 DEF g

LEMMA CommandReview == ASSUME TypeOK, ReviewInv, LiveIsLaunched, Command PROVE ReviewInv'
<1> USE DEF ReviewInv
<1>1. CASE Observe
  BY <1>1 DEF Observe, OwnOutcomes, RecordsAreStaged, ReviewIsCurrent, Awaits, Live
<1>2. CASE Preview
  <2>1. batch'.status = batch.status \/ (batch.status = "pending" /\ batch'.status = "failed")
    BY <1>2 DEF Preview, Converged, TypeOK
  <2>2. /\ batch'.gen = batch.gen /\ batch'.record = batch.record
        /\ batch'.staged = batch.staged /\ wf' = wf /\ reviewed' = reviewed
    BY <1>2, ConvergedKeeps DEF Preview
  <2>3. batch.status = "pending" => batch.status \in Live BY DEF Live
  <2>4. \A g \in Gens : Awaits(g)' => Awaits(g) BY <2>1, <2>2 DEF Awaits
  <2>5. batch'.status \in Live => batch.status \in Live BY <2>1, <2>3
  <2> QED BY <2>1, <2>2, <2>3, <2>4, <2>5 DEF OwnOutcomes, RecordsAreStaged, ReviewIsCurrent
<1>3. CASE Review
  BY <1>3 DEF Review, OwnOutcomes, RecordsAreStaged, ReviewIsCurrent, Awaits, LiveIsLaunched,
     Live, TypeOK, Gens
<1>4. CASE Retry
  <2>1. PICK g \in Gens, keys \in SUBSET batch.staged :
    /\ g = batch.gen + 1 /\ batch'.gen = g /\ batch'.status = "pending"
    /\ batch.status \in Live /\ batch'.staged = batch.staged
    /\ wf' = [wf EXCEPT ![g] = [pc |-> "lookup", keys |-> keys, out |-> NoRecords]]
    /\ \A s \in Sources : batch'.record[s] # "none" => s \in batch.staged /\ s \notin keys
    /\ \A s \in Sources : batch.record[s] = "work" => batch'.record[s] = "work"
    /\ reviewed' = reviewed
    BY <1>4, RetryFacts
  <2>2. RecordsAreStaged' BY <2>1 DEF RecordsAreStaged
  <2>3. ReviewIsCurrent' BY <2>1 DEF ReviewIsCurrent, TypeOK, Gens
  <2>4. wf'[g].keys = keys /\ wf'[g].out = NoRecords BY <2>1 DEF TypeOK
  <2>5. \A h \in Gens \ {g} : wf'[h] = wf[h] /\ ~Awaits(h)' BY <2>1 DEF TypeOK, Awaits
  <2>6. keys \subseteq Sources BY <2>1 DEF TypeOK
  <2>7. OwnOutcomes' BY <2>1, <2>4, <2>5, <2>6 DEF OwnOutcomes, NoRecords
  <2> QED BY <2>2, <2>3, <2>7
<1>5. CASE Discard BY <1>5, GoneReview DEF Discard, Release
<1>6. ASSUME NEW basics \in SUBSET Sources, Confirm(basics) PROVE ReviewInv'
  <2>1. batch' = Gone("committed") /\ wf' = wf BY <1>6 DEF Confirm
  <2> QED BY <2>1, GoneReview
<1> QED BY <1>1, <1>2, <1>3, <1>4, <1>5, <1>6 DEF Command

LEMMA ReviewNext ==
  ASSUME FilesInv, StoppedInv, ReviewInv, [Next]_vars PROVE ReviewInv'
<1> USE DEF ReviewInv
<1>1. TypeOK BY DEF FilesInv
<1>2. CASE StageBatch
  <2>1. /\ batch' = [status |-> "pending", gen |-> 1, staged |-> upload.put, record |-> NoRecords]
        /\ wf' = [wf EXCEPT ![1] = [pc |-> "lookup", keys |-> upload.put, out |-> NoRecords]]
        /\ reviewed' = reviewed
    BY <1>2 DEF StageBatch, Launch
  <2>2. 1 \in Gens /\ upload.put \subseteq Sources BY <1>1, MaxGensAssumption DEF Gens, TypeOK
  <2>3. \A s \in Sources : batch'.record[s] = "none" BY <2>1 DEF NoRecords
  <2>4. wf'[1].keys = upload.put /\ \A s \in Sources : wf'[1].out[s] = "none"
    BY <1>1, <2>1, <2>2 DEF TypeOK, NoRecords
  <2>5. \A h \in Gens \ {1} : wf'[h] = wf[h] /\ ~Awaits(h)'
    BY <1>1, <2>1 DEF TypeOK, Awaits
  <2>6. OwnOutcomes' BY <2>1, <2>2, <2>3, <2>4, <2>5 DEF OwnOutcomes
  <2>7. ReviewIsCurrent'
    BY <1>2, <2>1 DEF StageBatch, ReviewIsCurrent, FilesInv, NothingBeforeUpload, NoReview
  <2> QED BY <2>3, <2>6, <2>7 DEF RecordsAreStaged
<1>3. CASE UNCHANGED <<batch, wf, reviewed>>
  BY <1>3 DEF OwnOutcomes, RecordsAreStaged, ReviewIsCurrent, Awaits
<1>4. CASE Collect
  BY <1>3, <1>4 DEF Collect, CheckReferences, DeleteObject, Sweep
<1>5. ASSUME NEW s \in Sources, PutObject(s) \/ Reconcile(s) PROVE ReviewInv'
  BY <1>3, <1>5 DEF PutObject, Reconcile
<1>6. CASE FailStaging \/ RevokeActor \/ UNCHANGED vars
  BY <1>3, <1>6 DEF FailStaging, RevokeActor, vars
<1>7. CASE Expire BY <1>7, GoneReview DEF Expire, Release
<1> QED BY <1>1, <1>2, <1>4, <1>5, <1>6, <1>7, PrepareReview, CommandReview
        DEF Next, EndUpload, StoppedInv


LEMMA PrepareKeeps ==
  ASSUME TypeOK, ReviewInv, NEW g \in Gens, Prepare(g) \/ Raise(g) \/ Abandon(g),
         NEW s \in Sources, batch.record[s] = "work"
  PROVE  batch'.record[s] = "work" /\ s \in batch'.staged
BY PrepareBatch, PublishedFacts DEF ReviewInv, RecordsAreStaged

LEMMA CommandKeeps ==
  ASSUME TypeOK, ReviewInv, Command, batch'.status \in Live,
         NEW s \in Sources, batch.record[s] = "work"
  PROVE  batch'.record[s] = "work" /\ s \in batch'.staged
<1>1. s \in batch.staged BY DEF ReviewInv, RecordsAreStaged
<1>2. CASE Retry BY <1>1, <1>2, RetryFacts DEF ReviewInv
<1>3. CASE Preview BY <1>1, <1>3, ConvergedKeeps DEF Preview
<1>4. CASE Observe \/ Review BY <1>1, <1>4 DEF Observe, Review
<1>5. ~Discard BY DEF Discard, Release, Gone, Live
<1>6. \A basics \in SUBSET Sources : ~Confirm(basics) BY DEF Confirm, Gone, Live
<1> QED BY <1>2, <1>3, <1>4, <1>5, <1>6 DEF Command

LEMMA NextKeeps ==
  ASSUME FilesInv, ReviewInv, [Next]_vars, batch'.status \in Live,
         NEW s \in Sources, batch.record[s] = "work"
  PROVE  batch'.record[s] = "work" /\ s \in batch'.staged
<1>1. TypeOK /\ s \in batch.staged BY DEF FilesInv, ReviewInv, RecordsAreStaged
<1>2. ~upload.open BY DEF FilesInv, NothingBeforeUpload, Gone, NoRecords
<1>3. CASE batch' = batch BY <1>1, <1>3
<1>4. ~StageBatch BY <1>2 DEF StageBatch
<1>5. ~Expire BY DEF Expire, Release, Gone, Live
<1>6. CASE Collect BY <1>3, <1>6 DEF Collect, CheckReferences, DeleteObject, Sweep
<1>7. ASSUME NEW k \in Sources, PutObject(k) \/ Reconcile(k)
      PROVE  batch'.record[s] = "work" /\ s \in batch'.staged
  BY <1>3, <1>7 DEF PutObject, Reconcile
<1>8. CASE FailStaging \/ RevokeActor \/ UNCHANGED vars
  BY <1>3, <1>8 DEF FailStaging, RevokeActor, vars
<1> QED BY <1>1, <1>4, <1>5, <1>6, <1>7, <1>8, PrepareKeeps, CommandKeeps DEF Next, EndUpload

\* No retry, failure, late publication or partial result loses an identified
\* candidate or its PDF while the batch can be confirmed.
THEOREM PreparedIsKept == Spec => PreparedStays
<1>1. FilesInv /\ [Next]_vars => FilesInv' BY FilesNext
<1>2. FilesInv /\ StoppedInv /\ [Next]_vars => StoppedInv' BY StoppedNext
<1>3. FilesInv /\ StoppedInv /\ ReviewInv /\ [Next]_vars => ReviewInv' BY ReviewNext
<1>4. FilesInv /\ ReviewInv /\ [Next]_vars =>
        [\A s \in Sources : batch.record[s] = "work" /\ batch'.status \in Live =>
           batch'.record[s] = "work" /\ s \in batch'.staged]_vars
  BY NextKeeps
<1> QED
  BY FilesInit, StoppedInit, ReviewInit, <1>1, <1>2, <1>3, <1>4, PTL DEF Spec, PreparedStays

\* Only a confirmation makes Items, of a batch that has none.
LEMMA OnlyConfirmCreates ==
  ASSUME TypeOK, [Next]_vars
  PROVE  items' = items \/ \E basics \in SUBSET Sources : Confirm(basics)
<1>1. ASSUME NEW g \in Gens, Prepare(g) \/ Raise(g) \/ Abandon(g) PROVE items' = items
  BY <1>1, PrepareOwn DEF PreparesOwn
<1>2. CASE Collect \/ \E s \in Sources : Reconcile(s)
  BY <1>2 DEF Collect, CheckReferences, DeleteObject, Sweep, Reconcile
<1>3. CASE EndUpload \/ \E s \in Sources : PutObject(s)
  BY <1>3 DEF EndUpload, StageBatch, FailStaging, PutObject
<1>4. CASE Expire \/ RevokeActor \/ UNCHANGED vars
  BY <1>4 DEF Expire, Release, RevokeActor, vars
<1>5. CASE Observe \/ Preview \/ Review \/ Retry \/ Discard
  BY <1>5 DEF Observe, Preview, Review, Retry, Discard, Release
<1> QED BY <1>1, <1>2, <1>3, <1>4, <1>5 DEF Next, Command

LEMMA ConfirmCreates ==
  ASSUME TypeOK, LiveIsLaunched, ReviewIsCurrent,
         NEW basics \in SUBSET Sources, Confirm(basics), NEW s \in Sources
  PROVE  /\ items'[s] # items[s] =>
              /\ items[s] = 0 /\ items'[s] = 1
              /\ reviewed.record[s] = batch.record[s] /\ batch.record[s] # "none"
         /\ items' # items /\ reviewed.record[s] = "work" => items'[s] = 1
<1> DEFINE chosen == basics \cup {x \in Sources : batch.record[x] = "work"}
<1>1. /\ batch.status = "ready" /\ batch.gen = reviewed.gen
      /\ \A x \in basics : batch.record[x] \in {"basic", "deferred"}
      /\ items' = [x \in Sources |-> items[x] + IF x \in chosen THEN 1 ELSE 0]
  BY DEF Confirm, SamePreview
<1>2. reviewed.record = batch.record /\ Documents = {}
  BY <1>1 DEF ReviewIsCurrent, LiveIsLaunched, Live
<1>3. items[s] = 0 BY <1>2 DEF Documents, TypeOK
<1>4. s \in chosen => batch.record[s] # "none" BY <1>1
<1>5. batch.record[s] = "work" => s \in chosen OBVIOUS
<1> HIDE DEF chosen
<1>6. items'[s] = IF s \in chosen THEN 1 ELSE 0 BY <1>1, <1>3
<1> QED BY <1>2, <1>3, <1>4, <1>5, <1>6

\* A confirmation, repeated or late, makes one Item of each PDF, of exactly the
\* generation the client reviewed.
THEOREM ConfirmsThePreview == Spec => ConfirmedWasPreviewed
<1>1. FilesInv /\ [Next]_vars => FilesInv' BY FilesNext
<1>2. FilesInv /\ StoppedInv /\ [Next]_vars => StoppedInv' BY StoppedNext
<1>3. FilesInv /\ StoppedInv /\ ReviewInv /\ [Next]_vars => ReviewInv' BY ReviewNext
<1>4. FilesInv /\ StoppedInv /\ ReviewInv /\ [Next]_vars =>
        [\A s \in Sources :
          /\ items'[s] # items[s] =>
               /\ items[s] = 0 /\ items'[s] = 1
               /\ reviewed.record[s] = batch.record[s] /\ batch.record[s] # "none"
          /\ items' # items /\ reviewed.record[s] = "work" => items'[s] = 1]_vars
  BY OnlyConfirmCreates, ConfirmCreates DEF FilesInv, StoppedInv, ReviewInv
<1> QED
  BY FilesInit, StoppedInit, ReviewInit, <1>1, <1>2, <1>3, <1>4, PTL
  DEF Spec, ConfirmedWasPreviewed
-------------------------------------------------------------------------------
(* Requests with API tokens.                                                 *)

\* Owners and validity of tokens, and what each request rests on: a token that had
\* ended when its request arrived is turned away by the first look at it, an account
\* that a command has locked stays active, and what it revokes is its own.
Rests(r) ==
  LET q == req[r] IN
  T!Running(r) =>
    /\ q \in T!RequestRows
    /\ q.late => /\ q.pc = "token" /\ q.cred \in Tokens
                 /\ token[q.cred].stage # "none" /\ T!Ended(q.cred)
    /\ q.pc \in {"revoking", "revoke"} =>
         /\ q.target \in Tokens
         /\ q.own => token[q.target].stage # "none" /\ token[q.target].user = q.user
    /\ q.pc = "revoke" => q.own /\ q.at # 0
    /\ q.pc \in {"issue", "revoke"} => q.user \in active
TokensInv ==
  /\ token \in [Tokens -> T!TokenRows] /\ clock \in Nat \ {0}
  /\ req \in [Callers -> T!RequestRows \cup {T!Idle}]
  /\ \A r \in Callers : Rests(r)

\* Tokens keep their owners, and what has ended stays so.
TokensKept ==
  \A t \in Tokens : token[t].stage # "none" =>
    /\ token'[t].stage # "none" /\ token'[t].user = token[t].user
    /\ T!Ended(t) => T!Ended(t)'

LEMMA NotIdle ==
  ASSUME NEW q \in T!RequestRows PROVE q # T!Idle
BY DEF T!RequestRows, T!Idle, T!Phases

\* A step of one request that leaves the rows alone.
LEMMA RequestMoves ==
  ASSUME TokensInv, NEW r \in Callers, req' = [req EXCEPT ![r] = req'[r]],
         UNCHANGED <<active, token, clock>>,
         req'[r] \in T!RequestRows \cup {T!Idle}, Rests(r)'
  PROVE  TokensInv'
<1>1. ASSUME NEW s \in Callers \ {r} PROVE Rests(s)'
  <2>1. req'[s] = req[s] BY DEF TokensInv
  <2> QED BY <2>1 DEF TokensInv, Rests, T!Running, T!Ended
<1>2. req' \in [Callers -> T!RequestRows \cup {T!Idle}] BY DEF TokensInv
<1> QED BY <1>1, <1>2 DEF TokensInv

\* A step of the rows that keeps tokens and the accounts in use.
LEMMA RowsMove ==
  ASSUME TokensInv, TokensKept, token' \in [Tokens -> T!TokenRows], clock' \in Nat \ {0},
         req' \in [Callers -> T!RequestRows \cup {T!Idle}],
         \A s \in Callers : /\ req'[s] = req[s] \/ req'[s] = T!Idle
                            /\ T!Holding(s) /\ req'[s] # T!Idle /\ req[s].user \in active
                                 => req[s].user \in active'
  PROVE  TokensInv'
<1>1. ASSUME NEW s \in Callers PROVE Rests(s)'
  <2>1. CASE req'[s] = T!Idle BY <2>1 DEF Rests, T!Running
  <2>2. CASE req'[s] # T!Idle
    <3> DEFINE q == req[s]
    <3>1. req'[s] = q /\ T!Running(s) BY <2>2 DEF T!Running
    <3>2. Rests(s) BY DEF TokensInv
    <3>3. q \in T!RequestRows BY <3>1, <3>2 DEF Rests
    <3>4. q.late => /\ q.pc = "token" /\ q.cred \in Tokens
                    /\ token'[q.cred].stage # "none" /\ T!Ended(q.cred)'
      BY <3>1, <3>2 DEF Rests, TokensKept, T!Ended
    <3>5. q.pc \in {"revoking", "revoke"} =>
            /\ q.target \in Tokens
            /\ q.own => token'[q.target].stage # "none" /\ token'[q.target].user = q.user
      BY <3>1, <3>2 DEF Rests, TokensKept
    <3>6. q.pc = "revoke" => q.own /\ q.at # 0 BY <3>1, <3>2 DEF Rests
    <3>7. q.pc \in {"issue", "revoke"} => q.user \in active'
      BY <3>1, <3>2, <2>2 DEF Rests, T!Holding, T!At
    <3> QED BY <3>1, <3>3, <3>4, <3>5, <3>6, <3>7 DEF Rests, T!Ended
  <2> QED BY <2>1, <2>2
<1> QED BY <1>1 DEF TokensInv

LEMMA ArrivalsKeepTokens ==
  ASSUME TokensInv, NEW r \in Callers, T!Authenticates(r) \/ T!Cancel(r)
  PROVE  TokensInv'
<1>0. req \in [Callers -> T!RequestRows \cup {T!Idle}] /\ Rests(r) BY DEF TokensInv
<1>1. ASSUME T!Leave(r), UNCHANGED T!Rows PROVE TokensInv'
  <2>1. req' = [req EXCEPT ![r] = T!Idle] /\ req'[r] = T!Idle BY <1>0, <1>1 DEF T!Leave
  <2>2. Rests(r)' BY <2>1 DEF Rests, T!Running
  <2> QED BY <1>1, <2>1, <2>2, RequestMoves DEF T!Rows
<1>2. ASSUME T!Arrive(r) PROVE TokensInv'
  <2>1. PICK u \in Users, c \in T!Credentials, l \in {"mcp", "api"} :
          /\ req[r] = T!Idle
          /\ c \in Tokens => token[c].stage # "none" /\ token[c].user = u
          /\ l = "mcp" => c \in Tokens
          /\ req' = [req EXCEPT ![r] =
               [pc |-> CASE c = "session" -> "session" [] c = "console" -> "owner"
                         [] OTHER -> "token",
                layer |-> l, user |-> u, cred |-> c, late |-> c \in Tokens /\ T!Ended(c),
                target |-> "none", own |-> FALSE, open |-> FALSE, at |-> 0]]
          /\ UNCHANGED T!Rows
    BY <1>2 DEF T!Arrive
  <2>2. UNCHANGED <<active, token, clock>> BY <1>2 DEF T!Arrive, T!Rows
  <2> DEFINE pc == CASE c = "session" -> "session" [] c = "console" -> "owner" [] OTHER -> "token"
             late == c \in Tokens /\ T!Ended(c)
  <2>3. /\ pc \in {"session", "owner", "token"}
        /\ c \in Tokens => pc = "token"
    BY TokensAssumption DEF T!TimesAssumption
  <2>4. late \in BOOLEAN OBVIOUS
  <2> HIDE DEF pc
  <2>5. late => c \in Tokens /\ token[c].stage # "none" /\ T!Ended(c) BY <2>1
  <2> HIDE DEF late
  <2> DEFINE n == [pc |-> pc, layer |-> l, user |-> u, cred |-> c, late |-> late,
                   target |-> "none", own |-> FALSE, open |-> FALSE, at |-> 0]
  <2>6. n \in T!RequestRows BY <2>3, <2>4 DEF T!RequestRows, T!Phases
  <2>7. req' = [req EXCEPT ![r] = n] /\ req'[r] = n BY <1>0, <2>1 DEF pc, late
  <2>8. /\ n.pc = pc /\ n.late = late /\ n.cred = c OBVIOUS
  <2> HIDE DEF n
  <2>9. Rests(r)'
    <3>1. n.pc \notin {"revoking", "revoke", "issue"} BY <2>3, <2>8
    <3>2. n.late => /\ n.pc = "token" /\ n.cred \in Tokens
                    /\ token[n.cred].stage # "none" /\ T!Ended(n.cred)
      BY <2>3, <2>5, <2>8
    <3> QED BY <2>2, <2>6, <2>7, <3>1, <3>2 DEF Rests, T!Ended
  <2> QED BY <2>2, <2>6, <2>7, <2>9, RequestMoves
<1>3. ASSUME NEW phase \in {"owner", "token", "subject", "command"},
             NEW layer \in {"mcp", "api"}, T!Running(r), ~req[r].late,
             req' = [req EXCEPT ![r].pc = phase, ![r].layer = layer], UNCHANGED T!Rows
      PROVE  TokensInv'
  <2> DEFINE n == [req[r] EXCEPT !.pc = phase, !.layer = layer]
  <2>1. req[r] \in T!RequestRows BY <1>0, <1>3 DEF Rests
  <2>2. n \in T!RequestRows /\ n.pc = phase /\ n.late = req[r].late
    BY <2>1 DEF T!RequestRows, T!Phases
  <2>3. req' = [req EXCEPT ![r] = n] /\ req'[r] = n BY <1>0, <1>3
  <2> HIDE DEF n
  <2>4. Rests(r)' BY <1>3, <2>2, <2>3 DEF Rests
  <2> QED BY <1>3, <2>2, <2>3, <2>4, RequestMoves DEF T!Rows
<1>g. ASSUME NEW phase \in {"owner", "token", "subject", "command"},
             T!Running(r), ~req[r].late, T!Goto(r, phase), UNCHANGED T!Rows
      PROVE  TokensInv'
  <2>1. req[r] \in T!RequestRows BY <1>0, <1>g DEF Rests
  <2>2. req[r].layer \in {"mcp", "api"} BY <2>1 DEF T!RequestRows
  <2>3. [req[r] EXCEPT !.pc = phase] = [req[r] EXCEPT !.pc = phase, !.layer = req[r].layer]
    BY <2>1 DEF T!RequestRows
  <2>4. req' = [req EXCEPT ![r].pc = phase, ![r].layer = req[r].layer]
    BY <1>0, <1>g, <2>3 DEF T!Goto
  <2> QED BY <1>3, <1>g, <2>2, <2>4
<1>4. ASSUME T!ReadToken(r) PROVE TokensInv'
  <2>1. CASE T!Leave(r) BY <1>1, <1>4, <2>1 DEF T!ReadToken
  <2>2. CASE T!Standing(req[r].cred) /\ T!Goto(r, "owner")
    <3>1. T!Running(r) BY <1>4 DEF T!ReadToken, T!At
    <3>2. ~req[r].late
      <4> SUFFICES ASSUME req[r].late PROVE FALSE OBVIOUS
      <4>1. T!Ended(req[r].cred) /\ req[r].cred \in Tokens BY <1>0, <3>1 DEF Rests
      <4>2. token[req[r].cred].until \in Nat /\ clock \in Nat
        BY <4>1 DEF TokensInv, T!TokenRows
      <4> QED BY <2>2, <4>1, <4>2 DEF T!Ended, T!Standing
    <3> QED BY <1>4, <1>g, <2>2, <3>1, <3>2 DEF T!ReadToken
  <2> QED BY <1>4, <2>1, <2>2 DEF T!ReadToken
<1>5. ASSUME T!ReadSession(r) PROVE TokensInv'
  <2>1. T!Running(r) /\ req[r].pc = "session" BY <1>5 DEF T!ReadSession, T!At
  <2>2. ~req[r].late BY <1>0, <2>1 DEF Rests
  <2> QED BY <1>1, <1>5, <1>g, <2>1, <2>2 DEF T!ReadSession
<1>6. ASSUME T!ReadOwner(r) PROVE TokensInv'
  <2>1. T!Running(r) /\ req[r].pc = "owner" BY <1>6 DEF T!ReadOwner, T!At
  <2>2. ~req[r].late BY <1>0, <2>1 DEF Rests
  <2>3. CASE T!Leave(r) BY <1>1, <1>6, <2>3 DEF T!ReadOwner
  <2>4. CASE req' = [req EXCEPT ![r].pc = "token", ![r].layer = "api"]
    BY <1>3, <1>6, <2>1, <2>2, <2>4 DEF T!ReadOwner
  <2>5. CASE T!Goto(r, "subject") \/ T!Goto(r, "command")
    BY <1>g, <1>6, <2>1, <2>2, <2>5 DEF T!ReadOwner
  <2> QED BY <1>6, <2>3, <2>4, <2>5 DEF T!ReadOwner
<1>7. ASSUME T!Resolve(r) PROVE TokensInv'
  <2>1. T!Running(r) /\ req[r].pc = "subject" BY <1>7 DEF T!Resolve, T!At
  <2>2. ~req[r].late BY <1>0, <2>1 DEF Rests
  <2> QED BY <1>1, <1>7, <1>g, <2>1, <2>2 DEF T!Resolve
<1>8. ASSUME T!Cancel(r) PROVE TokensInv'
  BY <1>1, <1>8 DEF T!Cancel
<1> QED BY <1>2, <1>4, <1>5, <1>6, <1>7, <1>8 DEF T!Authenticates

LEMMA CommandsKeepTokens ==
  ASSUME TokensInv, NEW r \in Callers, T!Commands(r)
  PROVE  TokensInv'
<1>0. req \in [Callers -> T!RequestRows \cup {T!Idle}] /\ Rests(r)
      /\ clock \in Nat \ {0} /\ token \in [Tokens -> T!TokenRows]
  BY DEF TokensInv
<1>1. ASSUME T!Leave(r), UNCHANGED T!Rows PROVE TokensInv'
  <2>1. req' = [req EXCEPT ![r] = T!Idle] /\ req'[r] = T!Idle BY <1>0, <1>1 DEF T!Leave
  <2>2. Rests(r)' BY <2>1 DEF Rests, T!Running
  <2> QED BY <1>1, <2>1, <2>2, RequestMoves DEF T!Rows
\* A command that takes effect ends, and no other holds what it has written.
<1>2. ASSUME T!Leave(r), UNCHANGED <<active, clock>>, TokensKept,
             token' \in [Tokens -> T!TokenRows]
      PROVE  TokensInv'
  <2>1. req' \in [Callers -> T!RequestRows \cup {T!Idle}]
        /\ \A s \in Callers : req'[s] = req[s] \/ req'[s] = T!Idle
    BY <1>0, <1>2 DEF T!Leave
  <2> QED BY <1>0, <1>2, <2>1, RowsMove
<1>3. ASSUME T!LookUp(r) PROVE TokensInv'
  <2>1. PICK x \in Tokens, open \in BOOLEAN :
          /\ T!At(r, "command")
          /\ \/ open = (token[x].stage = "issued" /\ token[x].revoked = 0)
             \/ open /\ x = req[r].cred
          /\ req' = [req EXCEPT ![r].pc = "revoking", ![r].target = x, ![r].open = open,
                       ![r].own = token[x].stage = "issued" /\ token[x].user = req[r].user]
          /\ UNCHANGED T!Rows
    BY <1>3 DEF T!LookUp
  <2> DEFINE own == token[x].stage = "issued" /\ token[x].user = req[r].user
  <2>2. own \in BOOLEAN /\ (own => token[x].stage # "none" /\ token[x].user = req[r].user)
    OBVIOUS
  <2> HIDE DEF own
  <2> DEFINE n == [req[r] EXCEPT !.pc = "revoking", !.target = x, !.open = open, !.own = own]
  <2>3. req[r] \in T!RequestRows /\ ~req[r].late /\ T!Running(r)
    BY <1>0, <2>1 DEF Rests, T!At
  <2>4. /\ n \in T!RequestRows /\ n.pc = "revoking" /\ n.target = x
        /\ n.own = own /\ n.late = req[r].late /\ n.user = req[r].user
    BY <2>2, <2>3 DEF T!RequestRows, T!Phases
  <2>5. req' = [req EXCEPT ![r] = n] /\ req'[r] = n BY <1>0, <2>1 DEF own
  <2> HIDE DEF n
  <2>6. Rests(r)' BY <2>1, <2>2, <2>3, <2>4, <2>5 DEF Rests, T!Rows
  <2> QED BY <2>1, <2>4, <2>5, <2>6, RequestMoves DEF T!Rows
<1>4. ASSUME T!AuthorizeCreate(r) PROVE TokensInv'
  <2>1. CASE T!Leave(r) BY <1>1, <1>4, <2>1 DEF T!AuthorizeCreate
  <2>2. CASE req[r].user \in active /\ \E days \in 1..MaxDays :
               req' = [req EXCEPT ![r].pc = "issue", ![r].at = clock + days]
    <3>1. PICK days \in 1..MaxDays :
            req' = [req EXCEPT ![r].pc = "issue", ![r].at = clock + days]
      BY <2>2
    <3> DEFINE n == [req[r] EXCEPT !.pc = "issue", !.at = clock + days]
    <3>2. req[r] \in T!RequestRows /\ ~req[r].late
      BY <1>0, <1>4 DEF Rests, T!At, T!AuthorizeCreate
    <3>3. clock + days \in Nat BY <1>0
    <3>4. /\ n \in T!RequestRows /\ n.pc = "issue" /\ n.late = req[r].late
          /\ n.user = req[r].user
      BY <3>2, <3>3 DEF T!RequestRows, T!Phases
    <3>5. req' = [req EXCEPT ![r] = n] /\ req'[r] = n BY <1>0, <3>1
    <3>u. UNCHANGED T!Rows BY <1>4 DEF T!AuthorizeCreate
    <3> HIDE DEF n
    <3>6. Rests(r)' BY <2>2, <3>2, <3>4, <3>5, <3>u DEF Rests, T!Rows
    <3> QED BY <3>4, <3>5, <3>6, <3>u, RequestMoves DEF T!Rows
  <2> QED BY <1>4, <2>1, <2>2 DEF T!AuthorizeCreate
<1>5. ASSUME T!AuthorizeRevoke(r) PROVE TokensInv'
  <2>1. CASE T!Leave(r) BY <1>1, <1>5, <2>1 DEF T!AuthorizeRevoke
  <2>2. CASE /\ req[r].user \in active /\ req[r].own
             /\ req' = [req EXCEPT ![r].pc = "revoke", ![r].at = clock]
    <3> DEFINE n == [req[r] EXCEPT !.pc = "revoke", !.at = clock]
    <3>1. /\ req[r] \in T!RequestRows /\ ~req[r].late /\ req[r].target \in Tokens
          /\ token[req[r].target].stage # "none"
          /\ token[req[r].target].user = req[r].user
      BY <1>0, <1>5, <2>2 DEF Rests, T!At, T!AuthorizeRevoke
    <3>2. /\ n \in T!RequestRows /\ n.pc = "revoke" /\ n.late = req[r].late
          /\ n.user = req[r].user /\ n.target = req[r].target /\ n.own = req[r].own
          /\ n.at = clock
      BY <1>0, <3>1 DEF T!RequestRows, T!Phases
    <3>3. req' = [req EXCEPT ![r] = n] /\ req'[r] = n BY <1>0, <2>2
    <3>u. UNCHANGED T!Rows BY <1>5 DEF T!AuthorizeRevoke
    <3> HIDE DEF n
    <3>4. Rests(r)' BY <1>0, <2>2, <3>1, <3>2, <3>3, <3>u DEF Rests, T!Rows
    <3> QED BY <3>2, <3>3, <3>4, <3>u, RequestMoves DEF T!Rows
  <2> QED BY <1>5, <2>1, <2>2 DEF T!AuthorizeRevoke
<1>6. ASSUME T!CommitCreate(r) PROVE TokensInv'
  <2>1. PICK t \in Tokens :
          /\ T!At(r, "issue") /\ token[t].stage = "none"
          /\ token' = [token EXCEPT ![t] = [stage |-> "issued", user |-> req[r].user,
                                            until |-> req[r].at, revoked |-> 0]]
          /\ T!Leave(r)
          /\ UNCHANGED <<active, sessions, clock, moved>>
    BY <1>6 DEF T!CommitCreate
  <2>2. req[r] \in T!RequestRows BY <1>0, <2>1 DEF Rests, T!At
  <2>3. [stage |-> "issued", user |-> req[r].user, until |-> req[r].at, revoked |-> 0]
          \in T!TokenRows
    BY <2>2 DEF T!RequestRows, T!TokenRows
  <2>4. token' \in [Tokens -> T!TokenRows] BY <1>0, <2>1, <2>3
  <2>5. TokensKept BY <1>0, <2>1 DEF TokensKept, T!Ended
  <2> QED BY <1>2, <2>1, <2>4, <2>5
<1>7. ASSUME T!CommitRevoke(r) PROVE TokensInv'
  <2> DEFINE x == req[r].target
  <2>1. /\ T!At(r, "revoke") /\ T!Leave(r) /\ UNCHANGED <<active, sessions, clock, moved>>
        /\ token' = IF token[x].stage = "issued"
                    THEN [token EXCEPT ![x].revoked = req[r].at] ELSE token
    BY <1>7 DEF T!CommitRevoke
  <2>2. req[r] \in T!RequestRows /\ req[r].at # 0 /\ x \in Tokens
    BY <1>0, <2>1 DEF Rests, T!At
  <2>3. req[r].at \in Nat BY <2>2 DEF T!RequestRows
  <2> HIDE DEF x
  <2>4. token' \in [Tokens -> T!TokenRows] BY <1>0, <2>1, <2>3 DEF T!TokenRows
  <2>5. TokensKept BY <1>0, <2>1, <2>2 DEF TokensKept, T!Ended, T!TokenRows
  <2> QED BY <1>2, <2>1, <2>4, <2>5
<1> QED BY <1>3, <1>4, <1>5, <1>6, <1>7 DEF T!Commands

\* Changes of accounts and time, and retention.
LEMMA OthersKeepTokens ==
  ASSUME TokensInv,
         \/ \E u \in Users, on \in BOOLEAN : T!SetActive(u, on) \/ T!SetSession(u, on)
         \/ T!Tick \/ T!Retire
  PROVE  TokensInv'
<1>0. req \in [Callers -> T!RequestRows \cup {T!Idle}]
      /\ clock \in Nat \ {0} /\ token \in [Tokens -> T!TokenRows]
  BY DEF TokensInv
<1>1. ASSUME NEW u \in Users, NEW on \in BOOLEAN, T!SetActive(u, on) PROVE TokensInv'
  <2>1. TokensKept BY <1>1 DEF T!SetActive, TokensKept, T!Ended
  <2>2. ASSUME NEW s \in Callers, T!Holding(s), req[s].user \in active
        PROVE  req[s].user \in active'
    BY <1>1, <2>2 DEF T!SetActive, T!Shares
  <2> QED BY <1>0, <1>1, <2>1, <2>2, RowsMove DEF T!SetActive
<1>2. ASSUME NEW u \in Users, NEW on \in BOOLEAN, T!SetSession(u, on) PROVE TokensInv'
  <2>1. TokensKept BY <1>2 DEF T!SetSession, TokensKept, T!Ended
  <2> QED BY <1>0, <1>2, <2>1, RowsMove DEF T!SetSession
<1>3. ASSUME T!Tick PROVE TokensInv'
  <2>1. /\ clock' = clock + 1 /\ UNCHANGED <<active, token, req>> BY <1>3 DEF T!Tick
  <2>2. TokensKept BY <1>0, <2>1 DEF TokensKept, T!Ended, T!TokenRows
  <2> QED BY <1>0, <2>1, <2>2, RowsMove
<1>4. ASSUME T!Retire PROVE TokensInv'
  <2>1. /\ UNCHANGED <<active, clock, req>>
        /\ token' = [t \in Tokens |->
             IF t \in T!Old THEN [token[t] EXCEPT !.stage = "retired"] ELSE token[t]]
    BY <1>4 DEF T!Retire
  <2>2. token' \in [Tokens -> T!TokenRows] BY <1>0, <2>1 DEF T!TokenRows
  <2>3. TokensKept BY <1>0, <2>1 DEF TokensKept, T!Ended, T!TokenRows
  <2> QED BY <1>0, <2>1, <2>2, <2>3, RowsMove
<1> QED BY <1>1, <1>2, <1>3, <1>4

LEMMA TokensInductive ==
  ASSUME TokensInv, [T!Next]_(T!vars) PROVE TokensInv'
<1>1. CASE UNCHANGED T!vars
  BY <1>1 DEF T!vars, TokensInv, Rests, T!Running, T!Ended
<1> QED BY <1>1, ArrivalsKeepTokens, CommandsKeepTokens, OthersKeepTokens DEF T!Next

\* What a request commits, it commits for an account that is active at that moment,
\* with a token that had not ended when it arrived, and to that account's own tokens.
THEOREM RequestsActWithAuthority == T!Spec => ActsWithAuthority
<1>1. T!Init => TokensInv
  <2> SUFFICES ASSUME T!Init PROVE TokensInv OBVIOUS
  <2>1. token \in [Tokens -> T!TokenRows] /\ clock \in Nat \ {0}
    <3>1. T!FirstRows \subseteq T!TokenRows BY DEF T!FirstRows, T!TokenRows
    <3> QED BY <3>1 DEF T!Init
  <2> QED BY <2>1 DEF T!Init, TokensInv, Rests, T!Running
<1>2. TokensInv /\ [T!Next]_(T!vars) => TokensInv' BY TokensInductive
<1>3. TokensInv /\ [T!Next]_(T!vars) =>
        [\A r \in Callers : T!Commits(r) =>
           /\ req[r].user \in active /\ ~req[r].late
           /\ \A t \in Tokens : token'[t] # token[t] => token'[t].user = req[r].user]_(T!vars)
  <2> SUFFICES ASSUME TokensInv, T!Next, NEW r \in Callers, T!Holding(r),
                      req'[r] = T!Idle, token' # token
               PROVE  /\ req[r].user \in active /\ ~req[r].late
                      /\ \A t \in Tokens : token'[t] # token[t] =>
                           token'[t].user = req[r].user
    BY DEF T!Commits
  <2>0. /\ req \in [Callers -> T!RequestRows \cup {T!Idle}] /\ token \in [Tokens -> T!TokenRows]
        /\ Rests(r) /\ T!Running(r) /\ req[r].pc \in {"issue", "revoke"}
    BY DEF TokensInv, T!Holding, T!At
  <2>1. req[r].user \in active /\ ~req[r].late BY <2>0 DEF Rests
  <2>2. PICK s \in Callers : T!CommitCreate(s) \/ T!CommitRevoke(s)
    <3>1. ASSUME NEW s \in Callers, T!Authenticates(s) \/ T!Cancel(s) \/ T!LookUp(s)
                   \/ T!AuthorizeCreate(s) \/ T!AuthorizeRevoke(s)
          PROVE  FALSE
      <4>1. UNCHANGED T!Rows
        BY <3>1 DEF T!Authenticates, T!Arrive, T!ReadToken, T!ReadSession, T!ReadOwner,
           T!Resolve, T!LookUp, T!AuthorizeCreate, T!AuthorizeRevoke, T!Cancel
      <4> QED BY <4>1 DEF T!Rows
    <3>2. ASSUME NEW u \in Users, NEW on \in BOOLEAN, T!SetActive(u, on) \/ T!SetSession(u, on)
          PROVE  FALSE
      BY <3>2 DEF T!SetActive, T!SetSession
    <3>3. CASE T!Tick \/ T!Retire BY <2>0, <3>3 DEF T!Tick, T!Retire, T!Running
    <3> QED BY <3>1, <3>2, <3>3 DEF T!Next, T!Commands
  <2>3. s = r
    <3>1. req' = [req EXCEPT ![s] = T!Idle] BY <2>2 DEF T!CommitCreate, T!CommitRevoke, T!Leave
    <3> QED BY <2>0, <3>1 DEF T!Running
  <2>4. ASSUME NEW t \in Tokens, token'[t] # token[t] PROVE token'[t].user = req[r].user
    <3>1. CASE T!CommitCreate(r)
      BY <2>0, <2>4, <3>1 DEF T!CommitCreate
    <3>2. CASE T!CommitRevoke(r)
      <4>1. req[r].pc = "revoke" BY <3>2 DEF T!CommitRevoke, T!At
      <4>2. /\ req[r].target \in Tokens
            /\ token[req[r].target].user = req[r].user
        BY <2>0, <4>1 DEF Rests
      <4>3. token' = [token EXCEPT ![req[r].target].revoked = req[r].at] \/ token' = token
        BY <3>2 DEF T!CommitRevoke
      <4> QED BY <2>0, <2>4, <4>2, <4>3 DEF T!TokenRows
    <3> QED BY <2>2, <2>3, <3>1, <3>2
  <2> QED BY <2>1, <2>4
<1> QED BY <1>1, <1>2, <1>3, PTL DEF T!Spec, ActsWithAuthority, T!ActsWithAuthority
-------------------------------------------------------------------------------
(* Lookups.  Least and greatest positions, and the halves of a batch.        *)

P == L!Positions

LEMMA CountingIsCounting ==
  /\ \A S : L!Cardinality(S) = Cardinality(S)
  /\ \A S : L!IsFiniteSet(S) <=> IsFiniteSet(S)
<1>1. ASSUME NEW S PROVE L!Cardinality(S) = Cardinality(S)
  BY DEF L!Cardinality, Cardinality
<1>2. ASSUME NEW S PROVE L!IsFiniteSet(S) <=> IsFiniteSet(S)
  BY DEF L!IsFiniteSet, IsFiniteSet
<1> QED BY <1>1, <1>2

LEMMA PositionsAreFinite ==
  /\ IsFiniteSet(P) /\ P \subseteq Nat
  /\ \A S \in SUBSET P : IsFiniteSet(S) /\ Cardinality(S) \in Nat
<1>1. IsFiniteSet(P) /\ P \subseteq Nat
  BY LookupsAssumption, CountingIsCounting DEF P, L!Positions, L!KeyAssumption
<1>2. ASSUME NEW S \in SUBSET P PROVE IsFiniteSet(S) /\ Cardinality(S) \in Nat
  <2>1. IsFiniteSet(S) BY <1>1, FS_Subset
  <2> QED BY <2>1, FS_CardinalityType
<1> QED BY <1>1, <1>2

\* A finite set of integers has a least and a greatest element.
LEMMA Bounded ==
  ASSUME NEW S \in SUBSET Int, IsFiniteSet(S), S # {}
  PROVE  /\ \E x \in S : \A y \in S : x <= y
         /\ \E x \in S : \A y \in S : y <= x
<1>1. IsWellFoundedOn(StrictSubsetOrdering(S), SUBSET S)
  BY FS_StrictSubsetOrderingWellFounded, FS_FiniteSubsetsOfFinite
<1>2. \E x \in S : \A y \in S : x <= y
  <2> DEFINE Below(x) == {y \in S : y <= x}
             Sets == {Below(x) : x \in S}
  <2>1. Sets \subseteq SUBSET S /\ Sets # {} OBVIOUS
  <2>2. PICK M \in Sets : \A N \in Sets : <<N, M>> \notin StrictSubsetOrdering(S)
    <3> HIDE DEF Sets
    <3> QED BY <1>1, <2>1, WFMin
  <2>3. PICK x \in S : M = Below(x) BY <2>2
  <2>4. ASSUME NEW y \in S, y < x PROVE FALSE
    <3>1. Below(y) \subseteq M /\ x \notin Below(y) /\ x \in M
      <4>1. ASSUME NEW i \in S, i <= y PROVE i <= x BY <2>4, <4>1
      <4>2. ~(x <= y) /\ x <= x BY <2>4
      <4> QED BY <2>3, <4>1, <4>2
    <3>2. Below(y) \in Sets /\ Below(y) \subseteq S /\ M \subseteq S BY <2>3
    <3> QED BY <2>2, <3>1, <3>2 DEF StrictSubsetOrdering
  <2>5. ASSUME NEW y \in S PROVE x <= y BY <2>4
  <2> QED BY <2>5
<1>3. \E x \in S : \A y \in S : y <= x
  <2> DEFINE Above(x) == {y \in S : x <= y}
             Sets == {Above(x) : x \in S}
  <2>1. Sets \subseteq SUBSET S /\ Sets # {} OBVIOUS
  <2>2. PICK M \in Sets : \A N \in Sets : <<N, M>> \notin StrictSubsetOrdering(S)
    <3> HIDE DEF Sets
    <3> QED BY <1>1, <2>1, WFMin
  <2>3. PICK x \in S : M = Above(x) BY <2>2
  <2>4. ASSUME NEW y \in S, x < y PROVE FALSE
    <3>1. Above(y) \subseteq M /\ x \notin Above(y) /\ x \in M
      <4>1. ASSUME NEW i \in S, y <= i PROVE x <= i BY <2>4, <4>1
      <4>2. ~(y <= x) /\ x <= x BY <2>4
      <4> QED BY <2>3, <4>1, <4>2
    <3>2. Above(y) \in Sets /\ Above(y) \subseteq S /\ M \subseteq S BY <2>3
    <3> QED BY <2>2, <3>1, <3>2 DEF StrictSubsetOrdering
  <2>5. ASSUME NEW y \in S PROVE y <= x BY <2>4
  <2> QED BY <2>5
<1> QED BY <1>2, <1>3

\* Each half of a batch that asks for two keys or more asks for some and leaves some,
\* and no key is asked for in both.
LEMMA HalvesSplit ==
  ASSUME NEW S \in SUBSET P, Cardinality(L!Firsts(S)) > 1
  PROVE  /\ L!LowerHalf(S) \subseteq S /\ L!LowerHalf(S) # {} /\ L!LowerHalf(S) # S
         /\ \A p \in L!LowerHalf(S), q \in S \ L!LowerHalf(S) : Key[p] # Key[q]
<1> DEFINE F == L!Firsts(S)
           n == Cardinality(F)
           Before(f) == {q \in F : q < f}
<1>1. F \subseteq S /\ F \in SUBSET P /\ F \in SUBSET Int /\ IsFiniteSet(F) /\ n \in Nat
  <2>1. F \in SUBSET P BY DEF L!Firsts
  <2> HIDE DEF F
  <2>2. IsFiniteSet(F) /\ n \in Nat /\ F \in SUBSET Int BY <2>1, PositionsAreFinite
  <2> QED BY <2>1, <2>2 DEF F, L!Firsts
<1>2. n > 1 /\ F # {}
  BY <1>1, FS_EmptySet
<1>3. \A f, g \in F : Key[f] = Key[g] => f = g
  BY <1>1 DEF L!Firsts
<1>l. L!LowerHalf(S) = {p \in S : \E f \in F : Key[f] = Key[p] /\ Cardinality(Before(f)) < n \div 2}
  BY CountingIsCounting DEF L!LowerHalf
<1> HIDE DEF F
<1>4. PICK lo \in F : \A g \in F : lo <= g BY <1>1, <1>2, Bounded
<1>5. PICK hi \in F : \A g \in F : g <= hi BY <1>1, <1>2, Bounded
<1>6. lo \in L!LowerHalf(S)
  <2>1. Before(lo) = {}
    <3> SUFFICES ASSUME NEW q \in F, q < lo PROVE FALSE OBVIOUS
    <3>1. lo <= q /\ lo \in Int /\ q \in Int BY <1>1, <1>4
    <3> QED BY <3>1
  <2>2. Cardinality(Before(lo)) = 0 BY <2>1, FS_EmptySet
  <2>3. 0 < n \div 2 BY <1>1, <1>2
  <2> QED BY <1>1, <1>l, <2>2, <2>3
<1>7. hi \notin L!LowerHalf(S)
  <2>1. Before(hi) = F \ {hi}
    <3>1. ASSUME NEW q \in F PROVE q < hi <=> q # hi
      <4>1. q <= hi /\ hi \in Int /\ q \in Int BY <1>1, <1>5
      <4> QED BY <4>1
    <3> QED BY <3>1
  <2>2. Cardinality(Before(hi)) = n - 1 BY <1>1, <2>1, FS_RemoveElement
  <2>3. ~(n - 1 < n \div 2) BY <1>1, <1>2
  <2>4. ASSUME NEW f \in F, Key[f] = Key[hi] PROVE ~(Cardinality(Before(f)) < n \div 2)
    BY <1>3, <2>2, <2>3, <2>4
  <2> QED BY <1>l, <2>4
<1>8. ASSUME NEW p \in L!LowerHalf(S), NEW q \in S \ L!LowerHalf(S) PROVE Key[p] # Key[q]
  BY <1>l
<1> QED BY <1>1, <1>6, <1>7, <1>8, <1>l

-------------------------------------------------------------------------------
(* Lookups: the invariant. *)

\* What may be kept for a source.
Fits(p, o) ==
  /\ o.wait \in Nat
  /\ o.kind \in L!Papers => o.kind = Key[p].paper /\ Key[p].version \in {0, o.version}
KeysApart(todo) ==
  \A i, j \in DOMAIN todo : i # j => \A p \in todo[i], q \in todo[j] : Key[p] # Key[q]
\* A position whose answer is still to come, in this call or in a later one.
Asked(p) == \E t \in P : \E i \in DOMAIN tasks[t].todo : p \in tasks[t].todo[i]
Due(p) ==
  (groups # <<>> /\ p \in remaining) \/ \E i \in DOMAIN groups \ {1} : p \in groups[i]

TasksInv ==
  /\ tasks \in [P -> [todo : Seq(SUBSET P), asking : BOOLEAN]]
  /\ \A t \in P :
       /\ tasks[t].asking => tasks[t].todo # <<>>
       /\ Key[t].provider \notin Batched => tasks[t].todo \in {<<>>, <<{t}>>}
       /\ KeysApart(tasks[t].todo)
       /\ ~calling => tasks[t].todo = <<>>
  /\ Cardinality(L!Asking) <= Permits
GroupsInv ==
  /\ groups \in Seq(SUBSET P)
  /\ \A i, j \in DOMAIN groups : i # j => groups[i] \cap groups[j] = {}
  /\ groups # <<>> => remaining \subseteq groups[1]
  /\ attempt \in Nat /\ budget \in Nat /\ losses \in Nat
ResultsInv ==
  /\ \A p \in P : Fits(p, outcome[p]) /\ Fits(p, result[p])
  /\ \A i \in DOMAIN groups \ {1} : \A p \in groups[i] : result[p].kind = "none"
  /\ groups # <<>> => \A p \in remaining : result[p].kind \in {"none", "unavailable"}
  /\ pdfs \/ losses = 0 =>
       \A p \in P : Key[p].provider # "none" => result[p].kind # "none" \/ Due(p)
  /\ calling => /\ groups # <<>>
                /\ \A p \in remaining : outcome[p].kind # "none" \/ Asked(p)
LookupsInv == TasksInv /\ GroupsInv /\ ResultsInv

\* A step of one task.
LEMMA TaskMoves ==
  ASSUME LookupsInv, NEW t \in P, NEW todo \in Seq(SUBSET P), NEW asking \in BOOLEAN,
         tasks[t].todo # <<>>,
         tasks' = [tasks EXCEPT ![t] = [todo |-> todo, asking |-> asking]],
         asking => todo # <<>>,
         Key[t].provider \notin Batched => todo \in {<<>>, <<{t}>>},
         KeysApart(todo), (Cardinality(L!Asking) <= Permits)',
         UNCHANGED L!calls,
         \A p \in P : /\ Fits(p, outcome'[p])
                      /\ outcome[p].kind # "none" => outcome'[p].kind # "none",
         \A i \in DOMAIN tasks[t].todo : \A p \in tasks[t].todo[i] :
           outcome'[p].kind # "none" \/ \E j \in DOMAIN todo : p \in todo[j]
  PROVE  LookupsInv'
<1> USE DEF L!calls
<1>1. TasksInv'
  <2>0. tasks \in [P -> [todo : Seq(SUBSET P), asking : BOOLEAN]] /\ calling
    BY DEF LookupsInv, TasksInv
  <2>1. tasks' \in [P -> [todo : Seq(SUBSET P), asking : BOOLEAN]] BY <2>0
  <2>2. ASSUME NEW s \in P
        PROVE  /\ tasks'[s].asking => tasks'[s].todo # <<>>
               /\ Key[s].provider \notin Batched => tasks'[s].todo \in {<<>>, <<{s}>>}
               /\ KeysApart(tasks'[s].todo)
    <3>1. CASE s = t BY <2>0, <3>1
    <3>2. CASE s # t
      <4>1. tasks'[s] = tasks[s] BY <2>0, <3>2
      <4> QED BY <4>1 DEF LookupsInv, TasksInv
    <3> QED BY <3>1, <3>2
  <2> QED BY <2>0, <2>1, <2>2 DEF TasksInv, KeysApart
<1>2. GroupsInv' BY DEF LookupsInv, GroupsInv
<1>3. ResultsInv'
  <2>1. ASSUME NEW p \in remaining, calling PROVE outcome'[p].kind # "none" \/ Asked(p)'
    <3>1. p \in P /\ (outcome[p].kind # "none" \/ Asked(p))
      <4>1. p \in groups[1] /\ groups # <<>> /\ groups \in Seq(SUBSET P)
        BY <2>1 DEF LookupsInv, GroupsInv, ResultsInv
      <4>2. groups[1] \in SUBSET P BY <4>1
      <4> QED BY <2>1, <4>1, <4>2 DEF LookupsInv, ResultsInv
    <3>2. CASE outcome[p].kind # "none" BY <3>1, <3>2
    <3>3. ASSUME NEW s \in P, NEW i \in DOMAIN tasks[s].todo, p \in tasks[s].todo[i]
          PROVE  outcome'[p].kind # "none" \/ Asked(p)'
      <4>0. tasks \in [P -> [todo : Seq(SUBSET P), asking : BOOLEAN]]
        BY DEF LookupsInv, TasksInv
      <4>1. CASE s # t
        <5>1. tasks'[s] = tasks[s] BY <4>0, <4>1
        <5> QED BY <3>3, <5>1 DEF Asked
      <4>2. CASE s = t /\ \E j \in DOMAIN todo : p \in todo[j]
        <5>1. tasks'[t].todo = todo BY <4>0
        <5> QED BY <4>2, <5>1 DEF Asked
      <4> QED BY <3>3, <4>1, <4>2
    <3> QED BY <3>1, <3>2, <3>3 DEF Asked
  <2> QED BY <2>1 DEF LookupsInv, ResultsInv, Fits, Due
<1> QED BY <1>1, <1>2, <1>3 DEF LookupsInv

LEMMA AskKeepsLookups ==
  ASSUME LookupsInv, NEW t \in P, L!Ask(t) PROVE LookupsInv'
<1>0. /\ tasks[t] \in [todo : Seq(SUBSET P), asking : BOOLEAN]
      /\ tasks \in [P -> [todo : Seq(SUBSET P), asking : BOOLEAN]]
      /\ tasks[t].todo # <<>> /\ ~tasks[t].asking /\ Cardinality(L!Asking) < Permits
      /\ tasks' = [tasks EXCEPT ![t] = [todo |-> tasks[t].todo, asking |-> TRUE]]
      /\ UNCHANGED <<L!calls, outcome>>
  BY CountingIsCounting DEF LookupsInv, TasksInv, L!Ask, L!Becomes
<1>1. tasks' = [tasks EXCEPT ![t] = [todo |-> tasks[t].todo, asking |-> TRUE]] BY <1>0
<1>2. (Cardinality(L!Asking) <= Permits)'
  <2>1. L!Asking' = L!Asking \cup {t} /\ t \notin L!Asking /\ L!Asking \in SUBSET P
    BY <1>0 DEF L!Asking, P
  <2>2. IsFiniteSet(L!Asking) /\ Cardinality(L!Asking) \in Nat BY <2>1, PositionsAreFinite
  <2>3. Cardinality(L!Asking') = Cardinality(L!Asking) + 1 BY <2>1, <2>2, FS_AddElement
  <2>4. Permits \in Nat BY LookupsAssumption DEF L!BoundsAssumption
  <2> QED BY <1>0, <2>2, <2>3, <2>4
<1>3. /\ Key[t].provider \notin Batched => tasks[t].todo \in {<<>>, <<{t}>>}
      /\ KeysApart(tasks[t].todo)
      /\ \A p \in P : Fits(p, outcome[p])
  BY DEF LookupsInv, TasksInv, ResultsInv
<1> DEFINE todo == tasks[t].todo
<1>4. todo \in Seq(SUBSET P) BY <1>0
<1> HIDE DEF todo
<1>5. tasks' = [tasks EXCEPT ![t] = [todo |-> todo, asking |-> TRUE]] BY <1>1 DEF todo
<1>6. /\ todo # <<>> /\ KeysApart(todo) /\ tasks[t].todo = todo
      /\ Key[t].provider \notin Batched => todo \in {<<>>, <<{t}>>}
  BY <1>0, <1>3 DEF todo
<1> QED BY <1>0, <1>2, <1>3, <1>4, <1>5, <1>6, TaskMoves

\* A task that stops waiting gives its permit back.
LEMMA PermitsReturn ==
  ASSUME LookupsInv, \A s \in P : tasks'[s].asking => tasks[s].asking
  PROVE  (Cardinality(L!Asking) <= Permits)'
<1>1. L!Asking' \subseteq L!Asking /\ L!Asking \in SUBSET P
  BY DEF L!Asking, P
<1>2. IsFiniteSet(L!Asking) /\ Cardinality(L!Asking) \in Nat BY <1>1, PositionsAreFinite
<1>3. Cardinality(L!Asking') <= Cardinality(L!Asking) /\ Cardinality(L!Asking') \in Nat
  <2>1. L!Asking' \in SUBSET P BY <1>1
  <2> QED BY <1>1, <1>2, <2>1, FS_Subset, PositionsAreFinite
<1>4. Permits \in Nat /\ Cardinality(L!Asking) <= Permits
  BY LookupsAssumption DEF L!BoundsAssumption, LookupsInv, TasksInv
<1> QED BY <1>2, <1>3, <1>4

-------------------------------------------------------------------------------
(* Lookups: answers. *)

LEMMA Rest ==
  ASSUME NEW S, NEW s \in Seq(S), s # <<>>
  PROVE  /\ Tail(s) \in Seq(S) /\ Head(s) = s[1] /\ 1 \in DOMAIN s /\ s[1] \in S
         /\ Len(Tail(s)) = Len(s) - 1
         /\ \A i \in DOMAIN Tail(s) : i \in Nat \ {0} /\ i + 1 \in DOMAIN s /\ Tail(s)[i] = s[i + 1]
         /\ \A i \in DOMAIN s : i \in Nat \ {0} /\ (i # 1 => i - 1 \in DOMAIN Tail(s) /\ Tail(s)[i - 1] = s[i])
<1>1. Len(s) \in Nat \ {0} /\ DOMAIN s = 1..Len(s)
  BY EmptySeq
<1>2. /\ Tail(s) \in Seq(S) /\ Len(Tail(s)) = Len(s) - 1
      /\ \A i \in 1..Len(s) - 1 : Tail(s)[i] = s[i + 1]
  BY HeadTailProperties, <1>1
<1>3. DOMAIN Tail(s) = 1..Len(s) - 1 BY <1>2
<1> QED BY <1>1, <1>2, <1>3

\* What a task asks for is known to come from the group's positions.
LEMMA Request ==
  ASSUME LookupsInv, NEW t \in P, tasks[t].todo # <<>>
  PROVE  /\ tasks[t].todo \in Seq(SUBSET P) /\ KeysApart(tasks[t].todo)
         /\ L!Members(t) = tasks[t].todo[1] /\ L!Members(t) \in SUBSET P
         /\ 1 \in DOMAIN tasks[t].todo
<1>1. tasks[t].todo \in Seq(SUBSET P) /\ KeysApart(tasks[t].todo)
  BY DEF LookupsInv, TasksInv
<1> DEFINE s == tasks[t].todo
<1>2. s \in Seq(SUBSET P) /\ s # <<>> BY <1>1
<1> HIDE DEF s
<1>3. Head(s) = s[1] /\ 1 \in DOMAIN s /\ s[1] \in SUBSET P BY <1>2, Rest
<1> QED BY <1>1, <1>3 DEF s, L!Members

LEMMA AnsweredKeepsLookups ==
  ASSUME LookupsInv, NEW t \in P, NEW answers, L!Answered(t, answers),
         \A p \in L!Members(t) : p \in P => Fits(p, answers[p]) /\ answers[p].kind # "none"
  PROVE  LookupsInv'
<1> DEFINE s == tasks[t].todo
           rest == Tail(s)
<1>1. /\ tasks[t].asking /\ s # <<>> /\ UNCHANGED L!calls
      /\ tasks' = [tasks EXCEPT ![t] = [todo |-> rest, asking |-> FALSE]]
      /\ outcome' = [p \in P |-> IF p \in L!Members(t) THEN answers[p] ELSE outcome[p]]
  BY DEF LookupsInv, TasksInv, L!Answered, L!Becomes, P
<1>2. s \in Seq(SUBSET P) /\ KeysApart(s) /\ L!Members(t) = s[1] /\ L!Members(t) \in SUBSET P
  BY <1>1, Request
<1>3. Key[t].provider \notin Batched => s = <<{t}>>
  BY <1>1 DEF LookupsInv, TasksInv
<1>4. \A p \in P : Fits(p, outcome[p]) BY DEF LookupsInv, ResultsInv
<1>5. (Cardinality(L!Asking) <= Permits)'
  <2>1. tasks \in [P -> [todo : Seq(SUBSET P), asking : BOOLEAN]] BY DEF LookupsInv, TasksInv
  <2>2. \A r \in P : tasks'[r].asking => tasks[r].asking BY <1>1, <2>1
  <2> QED BY <2>2, PermitsReturn
<1>6. tasks[t].todo = s OBVIOUS
<1> HIDE DEF s
<1>7. /\ rest \in Seq(SUBSET P)
      /\ \A i \in DOMAIN rest : i \in Nat /\ i + 1 \in DOMAIN s /\ rest[i] = s[i + 1]
      /\ \A i \in DOMAIN s : i # 1 => i - 1 \in DOMAIN rest /\ rest[i - 1] = s[i]
  BY <1>1, <1>2, Rest
<1>8. Key[t].provider \notin Batched => rest \in {<<>>, <<{t}>>}
  <2>1. ASSUME NEW x PROVE Tail(<<x>>) = <<>> OBVIOUS
  <2> QED BY <1>3, <2>1
<1> HIDE DEF rest
<1>9. KeysApart(rest)
  <2>1. ASSUME NEW i \in DOMAIN rest, NEW j \in DOMAIN rest, i # j
        PROVE  \A p \in rest[i], q \in rest[j] : Key[p] # Key[q]
    <3>1. i + 1 \in DOMAIN s /\ j + 1 \in DOMAIN s /\ i + 1 # j + 1 BY <1>7, <2>1
    <3> QED BY <1>2, <1>7, <3>1 DEF KeysApart
  <2> QED BY <2>1 DEF KeysApart
<1>10. \A p \in P : Fits(p, outcome'[p]) /\ (outcome[p].kind # "none" => outcome'[p].kind # "none")
  <2> SUFFICES ASSUME NEW p \in P
               PROVE  Fits(p, outcome'[p]) /\ (outcome[p].kind # "none" => outcome'[p].kind # "none")
    OBVIOUS
  <2>1. CASE p \in L!Members(t)
    <3>1. outcome'[p] = answers[p] BY <1>1, <2>1
    <3> QED BY <2>1, <3>1
  <2>2. CASE p \notin L!Members(t)
    <3>1. outcome'[p] = outcome[p] BY <1>1, <2>2
    <3> QED BY <1>4, <3>1
  <2> QED BY <2>1, <2>2
<1>11. ASSUME NEW i \in DOMAIN s, NEW p \in s[i]
       PROVE  outcome'[p].kind # "none" \/ \E j \in DOMAIN rest : p \in rest[j]
  <2>1. CASE i = 1
    <3>1. p \in L!Members(t) /\ p \in P BY <1>2, <1>11, <2>1
    <3>2. outcome'[p] = answers[p] BY <1>1, <3>1
    <3> QED BY <3>1, <3>2
  <2>2. CASE i # 1 BY <1>7, <1>11, <2>2
  <2> QED BY <2>1, <2>2
<1> QED BY <1>1, <1>5, <1>6, <1>7, <1>8, <1>9, <1>10, <1>11, TaskMoves

\* Answers and errors fit the sources they are about.
LEMMA OutcomesFit ==
  ASSUME NEW p \in P
  PROVE  /\ \A k \in L!Kinds : Fits(p, L!Outcome(k)) /\ L!Outcome(k).kind = k
         /\ \A w \in RetryAfter : Fits(p, L!Limited(w)) /\ L!Limited(w).kind = "unavailable"
         /\ \A v : Key[p].version \in {0, v} =>
              /\ Fits(p, L!Record(Key[p].paper, v))
              /\ L!Record(Key[p].paper, v).kind # "none"
<1>1. \A k \in L!Kinds : k \notin L!Papers
  BY LookupsAssumption DEF L!KeyAssumption, L!Papers, L!Positions, P
<1>2. "none" \in L!Kinds /\ "unavailable" \in L!Kinds BY DEF L!Kinds
<1>3. Key[p].paper # "none" /\ RetryAfter \subseteq Nat
  BY <1>2, LookupsAssumption DEF L!KeyAssumption, L!BoundsAssumption, L!Positions, P
<1> QED BY <1>1, <1>2, <1>3 DEF Fits, L!Outcome, L!Limited, L!Record

LEMMA FoundFits ==
  ASSUME NEW feed, NEW p \in P
  PROVE  /\ Fits(p, L!Found(feed, p)) /\ L!Found(feed, p).kind # "none"
<1>1. \A v : v = L!Named(feed, p) => Key[p].version \in {0, v}
  BY DEF L!Named
<1>2. L!Found(feed, p) \in {L!Record(Key[p].paper, L!Named(feed, p)),
                           L!Outcome("unavailable"), L!Outcome("not_found")}
  BY DEF L!Found
<1>3. "unavailable" \in L!Kinds /\ "not_found" \in L!Kinds BY DEF L!Kinds
<1> QED BY <1>1, <1>2, <1>3, OutcomesFit

LEMMA AllKeepsLookups ==
  ASSUME LookupsInv, NEW t \in P, NEW o, L!All(t, o),
         \A p \in L!Members(t) : p \in P => Fits(p, o) /\ o.kind # "none"
  PROVE  LookupsInv'
<1> DEFINE answers == [p \in L!Members(t) |-> o]
<1>1. L!Answered(t, answers) BY DEF L!All
<1>2. \A p \in L!Members(t) : p \in P => Fits(p, answers[p]) /\ answers[p].kind # "none"
  OBVIOUS
<1> HIDE DEF answers
<1> QED BY <1>1, <1>2, AnsweredKeepsLookups

LEMMA FailsKeepsLookups ==
  ASSUME LookupsInv, NEW t \in P, L!Fails(t) PROVE LookupsInv'
<1>1. PICK w \in RetryAfter : L!All(t, L!Limited(w)) BY DEF L!Fails
<1>2. \A p \in P : Fits(p, L!Limited(w)) /\ L!Limited(w).kind # "none"
  BY OutcomesFit
<1> QED BY <1>1, <1>2, AllKeepsLookups

LEMMA AnswersKeepsLookups ==
  ASSUME LookupsInv, NEW t \in P, L!Answers(t) PROVE LookupsInv'
<1>1. PICK feed \in [L!Firsts(L!Members(t)) -> {-1, 0} \cup Editions],
           bad \in {{}} \cup {{Key[f]} : f \in L!Firsts(L!Members(t))},
           as \in {"unavailable", "not_found"} :
        L!Answered(t, [p \in L!Members(t) |->
          IF Key[p] \in bad /\ L!Found(feed, p).kind \in L!Papers
          THEN L!Outcome(as) ELSE L!Found(feed, p)])
  BY DEF L!Answers
<1> DEFINE answers == [p \in L!Members(t) |->
      IF Key[p] \in bad /\ L!Found(feed, p).kind \in L!Papers
      THEN L!Outcome(as) ELSE L!Found(feed, p)]
<1>2. L!Answered(t, answers) BY <1>1
<1>3. ASSUME NEW p \in L!Members(t), p \in P
      PROVE  Fits(p, answers[p]) /\ answers[p].kind # "none"
  <2>1. as \in L!Kinds /\ as # "none" BY DEF L!Kinds
  <2>2. answers[p] = L!Outcome(as) \/ answers[p] = L!Found(feed, p) OBVIOUS
  <2> HIDE DEF answers
  <2>3. Fits(p, L!Outcome(as)) /\ L!Outcome(as).kind # "none" BY <1>3, <2>1, OutcomesFit
  <2>4. Fits(p, L!Found(feed, p)) /\ L!Found(feed, p).kind # "none" BY <1>3, FoundFits
  <2> QED BY <2>2, <2>3, <2>4
<1> HIDE DEF answers
<1> QED BY <1>2, <1>3, AnsweredKeepsLookups

LEMMA LookedKeepsLookups ==
  ASSUME LookupsInv, NEW t \in P, tasks[t].asking, Key[t].provider \notin Batched, L!Looked(t)
  PROVE  LookupsInv'
<1>1. L!Members(t) = {t}
  <2>1. tasks[t].todo = <<{t}>> BY DEF LookupsInv, TasksInv
  <2> QED BY <2>1 DEF L!Members
<1>2. CASE L!All(t, L!Outcome("not_found"))
  <2>1. \A p \in P : Fits(p, L!Outcome("not_found")) /\ L!Outcome("not_found").kind # "none"
    BY OutcomesFit DEF L!Kinds
  <2> QED BY <1>2, <2>1, AllKeepsLookups
<1>3. ASSUME NEW e \in Editions, Key[t].version \in {0, e}, L!All(t, L!Record(Key[t].paper, e))
      PROVE  LookupsInv'
  <2>1. \A p \in L!Members(t) : Fits(p, L!Record(Key[t].paper, e))
                                /\ L!Record(Key[t].paper, e).kind # "none"
    BY <1>1, <1>3, OutcomesFit
  <2> QED BY <1>3, <2>1, AllKeepsLookups
<1> QED BY <1>2, <1>3 DEF L!Looked

LEMMA SplitKeepsLookups ==
  ASSUME LookupsInv, NEW t \in P, Key[t].provider \in Batched, tasks[t].asking,
         Cardinality(L!Firsts(L!Members(t))) > 1, L!TooLarge(t)
  PROVE  /\ LookupsInv'
         /\ \A i \in {1, 2} : /\ tasks'[t].todo[i] # {}
                              /\ tasks'[t].todo[i] # L!Members(t)
<1> DEFINE s == tasks[t].todo
           rest == Tail(s)
           M == L!Members(t)
           lower == L!LowerHalf(M)
           upper == M \ lower
           two == <<lower, upper>>
           todo == two \o rest
<1>1. /\ s # <<>> /\ UNCHANGED <<L!calls, outcome>>
      /\ tasks' = [tasks EXCEPT ![t] = [todo |-> todo, asking |-> FALSE]]
  BY CountingIsCounting DEF LookupsInv, TasksInv, L!TooLarge, L!Becomes, P
<1>2. s \in Seq(SUBSET P) /\ KeysApart(s) /\ M = s[1] /\ M \in SUBSET P
  BY <1>1, Request
<1>3. /\ lower \subseteq M /\ lower # {} /\ lower # M
      /\ \A p \in lower, q \in upper : Key[p] # Key[q]
  BY <1>2, HalvesSplit
<1>4. \A p \in P : Fits(p, outcome[p]) BY DEF LookupsInv, ResultsInv
<1>5. /\ tasks \in [P -> [todo : Seq(SUBSET P), asking : BOOLEAN]]
      /\ (Cardinality(L!Asking) <= Permits)'
  <2>1. tasks \in [P -> [todo : Seq(SUBSET P), asking : BOOLEAN]] BY DEF LookupsInv, TasksInv
  <2>2. \A r \in P : tasks'[r].asking => tasks[r].asking BY <1>1, <2>1
  <2> QED BY <2>1, <2>2, PermitsReturn
<1>6. tasks[t].todo = s OBVIOUS
<1> HIDE DEF s, M, lower
<1>7. /\ rest \in Seq(SUBSET P)
      /\ \A i \in DOMAIN rest : i \in Nat \ {0} /\ i + 1 \in DOMAIN s /\ rest[i] = s[i + 1]
      /\ \A i \in DOMAIN s : i \in Nat \ {0} /\ (i # 1 => i - 1 \in DOMAIN rest /\ rest[i - 1] = s[i])
      /\ 1 \in DOMAIN s
  BY <1>1, <1>2, Rest
<1> HIDE DEF rest
<1>8. /\ two \in Seq(SUBSET P) /\ Len(two) = 2 /\ two[1] = lower /\ two[2] = upper
  BY <1>2, <1>3
<1> HIDE DEF two, upper
<1>9. /\ todo \in Seq(SUBSET P) /\ Len(todo) = Len(rest) + 2 /\ Len(rest) \in Nat
      /\ todo[1] = lower /\ todo[2] = upper
      /\ \A i \in 3..Len(rest) + 2 : i - 2 \in DOMAIN rest /\ todo[i] = rest[i - 2]
      /\ DOMAIN todo = 1..Len(rest) + 2 /\ DOMAIN rest = 1..Len(rest)
  <2>1. /\ Len(rest) \in Nat /\ DOMAIN rest = 1..Len(rest) BY <1>7
  <2>2. /\ todo \in Seq(SUBSET P) /\ Len(todo) = 2 + Len(rest)
        /\ \A i \in 1..2 + Len(rest) : todo[i] = IF i <= 2 THEN two[i] ELSE rest[i - 2]
    <3>1. /\ two \o rest \in Seq(SUBSET P) /\ Len(two \o rest) = Len(two) + Len(rest)
          /\ \A i \in 1..Len(two) + Len(rest) :
               (two \o rest)[i] = IF i <= Len(two) THEN two[i] ELSE rest[i - Len(two)]
      <4>1. two \in Seq(SUBSET P) /\ rest \in Seq(SUBSET P) BY <1>7, <1>8
      <4> QED BY <4>1, ConcatProperties
    <3> QED BY <1>8, <3>1
  <2>3. DOMAIN todo = 1..Len(todo) BY <2>2
  <2> HIDE DEF todo
  <2>4. todo[1] = lower /\ todo[2] = upper BY <1>8, <2>1, <2>2
  <2>5. \A i \in 3..Len(rest) + 2 : i - 2 \in DOMAIN rest /\ todo[i] = rest[i - 2]
    BY <2>1, <2>2
  <2> QED BY <2>1, <2>2, <2>3, <2>4, <2>5
<1> HIDE DEF todo
<1>10. /\ lower \cup upper = M /\ lower \cap upper = {} /\ upper # {} /\ upper # M
  BY <1>3 DEF upper
<1>11. ASSUME NEW i \in DOMAIN todo, NEW j \in DOMAIN todo, i < j,
              NEW p \in todo[i], NEW q \in todo[j]
       PROVE  Key[p] # Key[q]
  <2>1. CASE j = 2
    <3>1. i = 1 BY <1>9, <1>11, <2>1
    <3> QED BY <1>3, <1>9, <1>11, <2>1, <3>1
  <2>2. CASE j # 2
    <3>1. j \in 3..Len(rest) + 2 /\ j - 1 \in DOMAIN s /\ todo[j] = s[j - 1]
      <4>1. j \in 3..Len(rest) + 2 BY <1>9, <1>11, <2>2
      <4>2. j - 2 \in DOMAIN rest /\ todo[j] = rest[j - 2] BY <1>9, <4>1
      <4>3. (j - 2) + 1 = j - 1 BY <4>1
      <4> QED BY <1>7, <4>1, <4>2, <4>3
    <3>2. CASE i \in {1, 2}
      <4>1. p \in s[1] /\ j - 1 # 1 BY <1>2, <1>9, <1>10, <1>11, <3>1, <3>2
      <4> QED BY <1>2, <1>7, <1>11, <3>1, <4>1 DEF KeysApart
    <3>3. CASE i \notin {1, 2}
      <4>1. i \in 3..Len(rest) + 2 BY <1>9, <3>3
      <4>2. i - 2 \in DOMAIN rest /\ todo[i] = rest[i - 2] BY <1>9, <4>1
      <4>3. (i - 2) + 1 = i - 1 /\ i - 1 # j - 1 BY <1>11, <3>1, <4>1
      <4>4. i - 1 \in DOMAIN s /\ todo[i] = s[i - 1] BY <1>7, <4>2, <4>3
      <4> QED BY <1>2, <1>11, <3>1, <4>3, <4>4 DEF KeysApart
    <3> QED BY <3>2, <3>3
  <2> QED BY <2>1, <2>2
<1>12. KeysApart(todo)
  <2> SUFFICES ASSUME NEW i \in DOMAIN todo, NEW j \in DOMAIN todo, i # j,
                      NEW p \in todo[i], NEW q \in todo[j]
               PROVE  Key[p] # Key[q]
    BY DEF KeysApart
  <2>1. i < j \/ j < i BY <1>9
  <2> QED BY <1>11, <2>1
<1>13. ASSUME NEW i \in DOMAIN s, NEW p \in s[i]
       PROVE  \E j \in DOMAIN todo : p \in todo[j]
  <2>1. CASE i = 1
    <3>1. p \in todo[1] \/ p \in todo[2] BY <1>2, <1>9, <1>10, <1>13, <2>1
    <3>2. 1 \in DOMAIN todo /\ 2 \in DOMAIN todo BY <1>9
    <3> QED BY <3>1, <3>2
  <2>2. CASE i # 1
    <3>1. i - 1 \in DOMAIN rest /\ rest[i - 1] = s[i] BY <1>7, <2>2
    <3>2. i + 1 \in 3..Len(rest) + 2 /\ (i + 1) - 2 = i - 1 BY <1>7, <1>9, <3>1
    <3>3. todo[i + 1] = s[i] /\ i + 1 \in DOMAIN todo BY <1>9, <3>1, <3>2
    <3> QED BY <1>13, <3>3
  <2> QED BY <2>1, <2>2
<1>14. LookupsInv'
  <2>1. todo # <<>> BY <1>9
  <2>2. \A p \in P : Fits(p, outcome'[p]) /\ (outcome[p].kind # "none" => outcome'[p].kind # "none")
    BY <1>1, <1>4
  <2> QED BY <1>1, <1>5, <1>6, <1>9, <1>12, <1>13, <2>2, TaskMoves
<1>15. tasks'[t].todo = todo BY <1>1, <1>5
<1> QED BY <1>3, <1>9, <1>10, <1>14, <1>15 DEF M

LEMMA TooLargeKeepsLookups ==
  ASSUME LookupsInv, NEW t \in P, Key[t].provider \in Batched, tasks[t].asking, L!TooLarge(t)
  PROVE  LookupsInv'
<1>1. CASE Cardinality(L!Firsts(L!Members(t))) > 1 BY <1>1, SplitKeepsLookups
<1>2. CASE ~(Cardinality(L!Firsts(L!Members(t))) > 1)
  <2>1. L!All(t, L!Outcome("unavailable")) BY <1>2, CountingIsCounting DEF L!TooLarge
  <2>2. \A p \in P : Fits(p, L!Outcome("unavailable")) /\ L!Outcome("unavailable").kind # "none"
    BY OutcomesFit DEF L!Kinds
  <2> QED BY <2>1, <2>2, AllKeepsLookups
<1> QED BY <1>1, <1>2

LEMMA AnswerKeepsLookups ==
  ASSUME LookupsInv, NEW t \in P, L!Answer(t) PROVE LookupsInv'
BY TooLargeKeepsLookups, FailsKeepsLookups, AnswersKeepsLookups, LookedKeepsLookups DEF L!Answer

-------------------------------------------------------------------------------
(* Lookups: calls, attempts and losses. *)

LEMMA NobodyAsks ==
  ASSUME \A t \in P : ~tasks'[t].asking PROVE (Cardinality(L!Asking) <= Permits)'
<1>1. L!Asking' = {} BY DEF L!Asking, P
<1>2. Permits \in Nat /\ Cardinality({}) = 0 BY LookupsAssumption, FS_EmptySet DEF L!BoundsAssumption
<1> QED BY <1>1, <1>2

\* A new call asks for all the positions of its attempt whose provider is known.
LEMMA TodoCovers ==
  ASSUME remaining \subseteq P
  PROVE  /\ \A t \in P : /\ L!Todo(t) \in Seq(SUBSET P) /\ KeysApart(L!Todo(t))
                         /\ Key[t].provider \notin Batched => L!Todo(t) \in {<<>>, <<{t}>>}
         /\ \A p \in remaining : Key[p].provider # "none" =>
              \E t \in P : \E i \in DOMAIN L!Todo(t) : p \in L!Todo(t)[i]
<1> DEFINE Of(provider) == {p \in remaining : Key[p].provider = provider}
<1>1. ASSUME NEW S \in SUBSET P
      PROVE  <<S>> \in Seq(SUBSET P) /\ KeysApart(<<S>>) /\ DOMAIN <<S>> = {1} /\ <<S>>[1] = S
  BY DEF KeysApart
<1>2. <<>> \in Seq(SUBSET P) /\ KeysApart(<<>>)
  BY DEF KeysApart
<1>3. ASSUME NEW t \in P
      PROVE  /\ L!Todo(t) \in {<<>>, <<{t}>>, <<Of(Key[t].provider)>>}
             /\ Key[t].provider \notin Batched => L!Todo(t) \in {<<>>, <<{t}>>}
  BY DEF L!Todo
<1>4. ASSUME NEW t \in P
      PROVE  /\ L!Todo(t) \in Seq(SUBSET P) /\ KeysApart(L!Todo(t))
             /\ Key[t].provider \notin Batched => L!Todo(t) \in {<<>>, <<{t}>>}
  <2>1. {t} \in SUBSET P /\ Of(Key[t].provider) \in SUBSET P OBVIOUS
  <2> HIDE DEF Of
  <2>2. <<{t}>> \in Seq(SUBSET P) /\ KeysApart(<<{t}>>) BY <1>1, <2>1
  <2>3. <<Of(Key[t].provider)>> \in Seq(SUBSET P) /\ KeysApart(<<Of(Key[t].provider)>>) BY <1>1, <2>1
  <2> QED BY <1>2, <1>3, <2>2, <2>3
<1>5. ASSUME NEW p \in remaining, Key[p].provider # "none"
      PROVE  \E t \in P : \E i \in DOMAIN L!Todo(t) : p \in L!Todo(t)[i]
  <2>1. CASE Key[p].provider \notin Batched
    <3>1. L!Todo(p) = <<{p}>> /\ p \in P BY <1>5, <2>1 DEF L!Todo
    <3>2. DOMAIN <<{p}>> = {1} /\ <<{p}>>[1] = {p} BY <1>1, <3>1
    <3> QED BY <3>1, <3>2
  <2>2. CASE Key[p].provider \in Batched
    <3> DEFINE S == Of(Key[p].provider)
               t == L!Least(Key[p].provider)
    <3>1. S \in SUBSET P /\ S # {} OBVIOUS
    <3>2. t = CHOOSE x \in S : \A y \in S : x <= y BY DEF L!Least, L!Min
    <3> HIDE DEF S, t
    <3>3. \E x \in S : \A y \in S : x <= y
      <4>1. IsFiniteSet(S) /\ S \in SUBSET Int BY <3>1, PositionsAreFinite
      <4> QED BY <3>1, <4>1, Bounded
    <3>4. t \in S BY <3>2, <3>3
    <3>5. t \in P /\ t \in remaining /\ Key[t].provider = Key[p].provider BY <3>4 DEF S
    <3>6. t = L!Least(Key[t].provider) BY <3>5 DEF t
    <3>7. L!Todo(t) = <<Of(Key[t].provider)>> BY <1>5, <2>2, <3>5, <3>6 DEF L!Todo
    <3>8. L!Todo(t) = <<S>> BY <3>5, <3>7 DEF S
    <3>9. DOMAIN <<S>> = {1} /\ <<S>>[1] = S BY <1>1, <3>1
    <3>10. p \in S BY DEF S
    <3> QED BY <3>5, <3>8, <3>9, <3>10
  <2> QED BY <2>1, <2>2
<1> QED BY <1>4, <1>5

LEMMA Attempted ==
  ASSUME LookupsInv, groups # <<>> PROVE remaining \subseteq P
<1>1. groups \in Seq(SUBSET P) /\ remaining \subseteq groups[1] BY DEF LookupsInv, GroupsInv
<1>2. groups[1] \in SUBSET P BY <1>1, Rest
<1> QED BY <1>1, <1>2

LEMMA CallKeepsLookups ==
  ASSUME LookupsInv, L!Call PROVE LookupsInv'
<1>1. /\ ~calling /\ calling' /\ groups # <<>>
      /\ UNCHANGED <<pdfs, groups, remaining, attempt, budget, result, discarded, losses>>
  BY DEF L!Call
<1>2. GroupsInv' BY <1>1 DEF LookupsInv, GroupsInv
<1>3. remaining \subseteq P BY <1>1, Attempted
<1>4. \A t \in P : tasks[t].todo = <<>> /\ ~tasks[t].asking
  BY <1>1 DEF LookupsInv, TasksInv
<1>5. TasksInv' /\ \A p \in P : Fits(p, outcome'[p])
  <2>1. CASE pdfs /\ discarded
    <3>1. tasks' = tasks /\ outcome' = [p \in P |-> L!Outcome("discarded")]
      BY <2>1 DEF L!Call, P
    <3>2. \A t \in P : ~tasks'[t].asking BY <1>4, <3>1
    <3>3. TasksInv'
      <4>1. (Cardinality(L!Asking) <= Permits)' BY <3>2, NobodyAsks
      <4> QED BY <1>1, <3>1, <4>1 DEF LookupsInv, TasksInv
    <3>4. \A p \in P : Fits(p, L!Outcome("discarded")) BY OutcomesFit DEF L!Kinds
    <3> QED BY <3>1, <3>3, <3>4
  <2>2. CASE ~(pdfs /\ discarded)
    <3>1. /\ tasks' = [t \in P |-> [todo |-> L!Todo(t), asking |-> FALSE]]
          /\ outcome' = [p \in P |-> L!Outcome(
               IF p \in remaining /\ Key[p].provider = "none" THEN "invalid_request" ELSE "none")]
      BY <2>2 DEF L!Call, P
    <3>2. \A t \in P : tasks'[t].todo = L!Todo(t) /\ ~tasks'[t].asking BY <3>1
    <3>3. TasksInv'
      <4>1. (Cardinality(L!Asking) <= Permits)' BY <3>2, NobodyAsks
      <4>2. tasks' \in [P -> [todo : Seq(SUBSET P), asking : BOOLEAN]]
        BY <1>3, <3>1, TodoCovers
      <4> QED BY <1>1, <1>3, <3>2, <4>1, <4>2, TodoCovers DEF TasksInv, KeysApart
    <3>4. \A p \in P : Fits(p, L!Outcome("invalid_request")) /\ Fits(p, L!Outcome("none"))
      BY OutcomesFit DEF L!Kinds
    <3>5. \A p \in P : outcome'[p] \in {L!Outcome("invalid_request"), L!Outcome("none")} BY <3>1
    <3> QED BY <3>3, <3>4, <3>5
  <2> QED BY <2>1, <2>2
<1>6. ASSUME NEW p \in remaining PROVE outcome'[p].kind # "none" \/ Asked(p)'
  <2>0. p \in P BY <1>3
  <2>1. CASE pdfs /\ discarded
    <3>1. outcome'[p] = L!Outcome("discarded") BY <2>0, <2>1 DEF L!Call, P
    <3> QED BY <3>1 DEF L!Outcome
  <2>2. CASE ~(pdfs /\ discarded) /\ Key[p].provider = "none"
    <3>1. outcome'[p] = L!Outcome("invalid_request") BY <1>6, <2>0, <2>2 DEF L!Call, P
    <3> QED BY <3>1 DEF L!Outcome
  <2>3. CASE ~(pdfs /\ discarded) /\ Key[p].provider # "none"
    <3>1. tasks' = [t \in P |-> [todo |-> L!Todo(t), asking |-> FALSE]]
      BY <2>3 DEF L!Call, P
    <3>2. PICK t \in P : \E i \in DOMAIN L!Todo(t) : p \in L!Todo(t)[i]
      BY <1>3, <1>6, <2>3, TodoCovers
    <3>3. tasks'[t].todo = L!Todo(t) BY <3>1
    <3> QED BY <3>2, <3>3 DEF Asked
  <2> QED BY <2>1, <2>2, <2>3
<1>7. ResultsInv'
  BY <1>1, <1>5, <1>6 DEF LookupsInv, ResultsInv, Due
<1> QED BY <1>2, <1>5, <1>7 DEF LookupsInv

LEMMA LoseKeepsLookups ==
  ASSUME LookupsInv, L!Lose PROVE LookupsInv'
<1>0. /\ tasks' = [p \in P |-> [todo |-> <<>>, asking |-> FALSE]]
      /\ outcome' = [p \in P |-> L!Outcome("none")]
      /\ losses' = losses + 1 /\ calling' = FALSE
      /\ UNCHANGED <<pdfs, attempt, budget, result>>
      /\ IF pdfs THEN UNCHANGED <<groups, remaining>> ELSE groups' = <<>> /\ remaining' = {}
  BY DEF L!Lose, L!NoTasks, L!Nothing, P
<1>1. TasksInv'
  <2>1. \A t \in P : tasks'[t].todo = <<>> /\ ~tasks'[t].asking BY <1>0
  <2>2. (Cardinality(L!Asking) <= Permits)' BY <2>1, NobodyAsks
  <2>3. tasks' \in [P -> [todo : Seq(SUBSET P), asking : BOOLEAN]] BY <1>0
  <2>4. KeysApart(<<>>) BY DEF KeysApart
  <2> QED BY <2>1, <2>2, <2>3, <2>4 DEF TasksInv, KeysApart
<1>2. GroupsInv'
  <2>1. CASE pdfs BY <1>0, <2>1 DEF LookupsInv, GroupsInv
  <2>2. CASE ~pdfs
    <3>1. groups' = <<>> /\ DOMAIN groups' = {} /\ groups' \in Seq(SUBSET P) BY <1>0, <2>2
    <3> QED BY <1>0, <3>1 DEF LookupsInv, GroupsInv
  <2> QED BY <2>1, <2>2
<1>3. ResultsInv'
  <2>1. \A p \in P : Fits(p, L!Outcome("none")) BY OutcomesFit DEF L!Kinds
  <2>2. losses' # 0 BY <1>0 DEF LookupsInv, GroupsInv
  <2>3. CASE pdfs BY <1>0, <2>1, <2>3 DEF LookupsInv, ResultsInv, Due
  <2>4. CASE ~pdfs
    <3>1. groups' = <<>> /\ DOMAIN groups' = {} BY <1>0, <2>4
    <3>2. \A p \in P : Fits(p, outcome'[p]) /\ Fits(p, result'[p])
      BY <1>0, <2>1 DEF LookupsInv, ResultsInv
    <3> QED BY <1>0, <2>2, <2>4, <3>1, <3>2 DEF ResultsInv, Fits
  <2> QED BY <2>3, <2>4
<1> QED BY <1>1, <1>2, <1>3 DEF LookupsInv

LEMMA DelayIsInt == LookupsInv /\ groups # <<>> => L!Delay \in Int
<1> SUFFICES ASSUME LookupsInv, groups # <<>> PROVE L!Delay \in Int
  OBVIOUS
<1> DEFINE wait == [p \in L!Retried |->
             IF outcome[p].wait > 0 THEN outcome[p].wait ELSE 2 ^ attempt]
           W == {IF outcome[p].wait > 0 THEN outcome[p].wait ELSE 2 ^ attempt : p \in L!Retried}
           S == {0} \cup W
<1>1. L!Retried \in SUBSET P BY Attempted DEF L!Retried
<1>2. attempt \in Nat /\ \A p \in P : outcome[p].wait \in Nat
  BY DEF LookupsInv, GroupsInv, ResultsInv, Fits
<1>3. 2 ^ attempt \in Int BY <1>2
<1>4. W \in SUBSET Int BY <1>1, <1>2, <1>3
<1>5. IsFiniteSet(W)
  <2>1. wait \in Surjection(L!Retried, W) BY DEF Surjection
  <2> HIDE DEF wait, W
  <2> QED BY <1>1, <2>1, PositionsAreFinite, FS_Surjection
<1>6. L!Delay = CHOOSE x \in S : \A y \in S : x >= y BY DEF L!Delay, L!Max
<1> HIDE DEF W
<1>7. S \in SUBSET Int /\ IsFiniteSet(S) /\ S # {} BY <1>4, <1>5, FS_AddElement
<1> HIDE DEF S
<1>8. \E x \in S : \A y \in S : x >= y
  <2>1. PICK x \in S : \A y \in S : y <= x BY <1>7, Bounded
  <2>2. \A y \in S : x >= y BY <1>7, <2>1
  <2> QED BY <2>2
<1> QED BY <1>6, <1>7, <1>8

LEMMA ReturnKeepsLookups ==
  ASSUME LookupsInv, L!Return PROVE LookupsInv'
<1>1. /\ calling /\ calling' = FALSE /\ groups # <<>> /\ tasks' = tasks
      /\ UNCHANGED <<pdfs, discarded, losses>>
      /\ outcome' = [p \in P |-> L!Outcome("none")]
      /\ result' = [p \in P |-> IF p \in remaining THEN outcome[p] ELSE result[p]]
  BY DEF L!Return, L!Nothing, P, LookupsInv, ResultsInv
<1>2. \A t \in P : tasks[t].todo = <<>> BY DEF L!Return, P
<1>3. remaining \subseteq P BY <1>1, Attempted
<1>4. \A p \in remaining : outcome[p].kind # "none"
  <2>1. ASSUME NEW p \in remaining PROVE ~Asked(p)
    <3>1. DOMAIN <<>> = {} OBVIOUS
    <3> QED BY <1>2, <3>1 DEF Asked
  <2> QED BY <1>1, <2>1 DEF LookupsInv, ResultsInv
<1>5. TasksInv'
  <2>1. L!Asking' = L!Asking BY <1>1 DEF L!Asking
  <2> QED BY <1>1, <1>2, <2>1 DEF LookupsInv, TasksInv
<1>6. /\ \A p \in P : Fits(p, outcome'[p]) /\ Fits(p, result'[p])
      /\ \A p \in P : result[p].kind # "none" => result'[p].kind # "none"
      /\ \A p \in P \ remaining : result'[p] = result[p]
      /\ \A p \in remaining : result'[p].kind # "none" /\ result'[p] = outcome[p]
  <2>1. \A p \in P : Fits(p, L!Outcome("none")) BY OutcomesFit DEF L!Kinds
  <2>2. \A p \in P : Fits(p, outcome[p]) /\ Fits(p, result[p]) BY DEF LookupsInv, ResultsInv
  <2>3. ASSUME NEW p \in P
        PROVE  /\ Fits(p, result'[p])
               /\ result[p].kind # "none" => result'[p].kind # "none"
    <3>1. CASE p \in remaining
      <4>1. result'[p] = outcome[p] BY <1>1, <3>1
      <4> QED BY <1>4, <2>2, <3>1, <4>1
    <3>2. CASE p \notin remaining
      <4>1. result'[p] = result[p] BY <1>1, <3>2
      <4> QED BY <2>2, <4>1
    <3> QED BY <3>1, <3>2
  <2>4. \A p \in P : outcome'[p] = L!Outcome("none") BY <1>1
  <2>5. \A p \in P \ remaining : result'[p] = result[p] BY <1>1
  <2>6. \A p \in remaining : result'[p] = outcome[p] BY <1>1, <1>3
  <2> QED BY <1>4, <2>1, <2>3, <2>4, <2>5, <2>6
<1>7. /\ groups \in Seq(SUBSET P) /\ attempt \in Nat /\ budget \in Nat /\ losses \in Nat
      /\ \A i, j \in DOMAIN groups : i # j => groups[i] \cap groups[j] = {}
      /\ remaining \subseteq groups[1] /\ 1 \in DOMAIN groups
      /\ \A i \in DOMAIN groups : groups[i] \in SUBSET P
      /\ \A i \in DOMAIN groups \ {1} : \A p \in groups[i] : result[p].kind = "none"
      /\ pdfs \/ losses = 0 =>
           \A p \in P : Key[p].provider # "none" => result[p].kind # "none" \/ Due(p)
  <2>1. groups \in Seq(SUBSET P) BY DEF LookupsInv, GroupsInv
  <2>2. 1 \in DOMAIN groups BY <1>1, <2>1, Rest
  <2> QED BY <1>1, <2>1, <2>2 DEF LookupsInv, GroupsInv, ResultsInv
<1>8. \A i \in DOMAIN groups \ {1} : \A p \in groups[i] :
        p \in P /\ p \notin remaining /\ result'[p].kind = "none"
  <2>1. ASSUME NEW i \in DOMAIN groups \ {1}, NEW p \in groups[i]
        PROVE  p \in P /\ p \notin remaining
    <3>1. groups[i] \cap groups[1] = {} BY <1>7
    <3> QED BY <1>7, <2>1, <3>1
  <2> QED BY <1>6, <1>7, <2>1
<1>9. CASE L!Settled
  <2> DEFINE rest == Tail(groups)
  <2>1. /\ groups' = rest /\ attempt' = 0 /\ budget' = budget
        /\ remaining' = IF rest = <<>> THEN {} ELSE Head(rest)
    BY <1>9 DEF L!Return
  <2>2. /\ rest \in Seq(SUBSET P)
        /\ \A i \in DOMAIN rest : i \in Nat \ {0} /\ i + 1 \in DOMAIN groups /\ rest[i] = groups[i + 1]
        /\ \A i \in DOMAIN groups : i # 1 => i - 1 \in DOMAIN rest /\ rest[i - 1] = groups[i]
    BY <1>1, <1>7, Rest
  <2> HIDE DEF rest
  <2>3. rest # <<>> => remaining' = rest[1] /\ 1 \in DOMAIN rest
    <3>1. rest # <<>> => Head(rest) = rest[1] /\ 1 \in DOMAIN rest BY <2>2, Rest
    <3> QED BY <2>1, <3>1
  <2>4. \A i \in DOMAIN rest : \A p \in rest[i] :
          p \in P /\ p \notin remaining /\ result'[p].kind = "none"
    <3>1. ASSUME NEW i \in DOMAIN rest PROVE i + 1 \in DOMAIN groups \ {1} /\ rest[i] = groups[i + 1]
      BY <2>2
    <3> QED BY <1>8, <3>1
  <2>5. GroupsInv'
    <3>1. ASSUME NEW i \in DOMAIN rest, NEW j \in DOMAIN rest, i # j
          PROVE  rest[i] \cap rest[j] = {}
      <4>1. i + 1 # j + 1 BY <2>2, <3>1
      <4> QED BY <1>7, <2>2, <4>1
    <3> QED BY <1>1, <1>7, <2>1, <2>2, <2>3, <3>1 DEF GroupsInv
  <2>6. ASSUME pdfs' \/ losses' = 0, NEW p \in P, Key[p].provider # "none"
        PROVE  result'[p].kind # "none" \/ Due(p)'
    <3>1. CASE result[p].kind # "none" BY <1>6, <3>1
    <3>2. CASE p \in remaining BY <1>6, <3>2
    <3>3. ASSUME NEW i \in DOMAIN groups \ {1}, p \in groups[i]
          PROVE  Due(p)'
      <4>1. i - 1 \in DOMAIN rest /\ p \in rest[i - 1] BY <2>2, <3>3
      <4>2. CASE i - 1 = 1
        <5>1. rest # <<>> /\ p \in rest[1]
          <6>1. DOMAIN <<>> = {} OBVIOUS
          <6> QED BY <4>1, <4>2, <6>1
        <5>2. p \in remaining' BY <2>3, <5>1
        <5> QED BY <2>1, <5>1, <5>2 DEF Due
      <4>3. CASE i - 1 # 1 BY <2>1, <4>1, <4>3 DEF Due
      <4> QED BY <4>2, <4>3
    <3>4. result[p].kind # "none" \/ Due(p) BY <1>1, <1>7, <2>6
    <3> QED BY <3>1, <3>2, <3>3, <3>4 DEF Due
  <2>7. ResultsInv'
    <3>1. rest # <<>> => \A p \in remaining' : result'[p].kind = "none" BY <2>3, <2>4
    <3>2. \A i \in DOMAIN rest \ {1} : \A p \in rest[i] : result'[p].kind = "none" BY <2>4
    <3> QED BY <1>1, <1>6, <2>1, <2>6, <3>1, <3>2 DEF ResultsInv
  <2> QED BY <1>5, <2>5, <2>7 DEF LookupsInv
<1>10. CASE ~L!Settled
  <2>1. /\ remaining' = L!Retried /\ attempt' = attempt + 1 /\ budget' = budget - L!Delay
        /\ groups' = groups /\ ~(L!Delay > budget)
    BY <1>10 DEF L!Return, L!Again, L!Settled
  <2>2. L!Delay \in Int BY <1>1, DelayIsInt
  <2>3. budget' \in Nat BY <1>7, <2>1, <2>2
  <2>4. remaining' \subseteq remaining /\ \A p \in remaining' : outcome[p].kind = "unavailable"
    BY <2>1 DEF L!Retried
  <2>5. GroupsInv' BY <1>1, <1>7, <2>1, <2>3, <2>4 DEF GroupsInv
  <2>6. ASSUME pdfs' \/ losses' = 0, NEW p \in P, Key[p].provider # "none"
        PROVE  result'[p].kind # "none" \/ Due(p)'
    <3>1. CASE result[p].kind # "none" BY <1>6, <3>1
    <3>2. CASE p \in remaining BY <1>6, <3>2
    <3>3. CASE \E i \in DOMAIN groups \ {1} : p \in groups[i] BY <2>1, <3>3 DEF Due
    <3>4. result[p].kind # "none" \/ Due(p) BY <1>1, <1>7, <2>6
    <3> QED BY <3>1, <3>2, <3>3, <3>4 DEF Due
  <2>7. ResultsInv'
    <3>1. \A p \in remaining' : result'[p].kind = "unavailable" BY <1>6, <2>4
    <3> QED BY <1>1, <1>6, <1>8, <2>1, <2>6, <3>1 DEF ResultsInv
  <2> QED BY <1>5, <2>5, <2>7 DEF LookupsInv
<1> QED BY <1>9, <1>10

LEMMA LookupsStart == L!Init => LookupsInv
<1> SUFFICES ASSUME L!Init PROVE LookupsInv OBVIOUS
<1>1. /\ remaining = Head(groups) /\ attempt = 0 /\ budget = MaxWait /\ calling = FALSE
      /\ tasks = [p \in P |-> [todo |-> <<>>, asking |-> FALSE]]
      /\ outcome = [p \in P |-> L!Outcome("none")] /\ result = [p \in P |-> L!Outcome("none")]
      /\ losses = 0
  BY DEF L!Init, L!NoTasks, L!Nothing, P
<1>2. TasksInv
  <2>1. \A t \in P : tasks[t].todo = <<>> /\ ~tasks[t].asking BY <1>1
  <2>2. Cardinality(L!Asking) <= Permits
    <3>1. L!Asking = {} BY <2>1 DEF L!Asking, P
    <3> QED BY <3>1, LookupsAssumption, FS_EmptySet DEF L!BoundsAssumption
  <2>3. tasks \in [P -> [todo : Seq(SUBSET P), asking : BOOLEAN]] BY <1>1
  <2>4. KeysApart(<<>>) BY DEF KeysApart
  <2> QED BY <2>1, <2>2, <2>3, <2>4 DEF TasksInv
\* The groups of an import are the sources of its providers, each provider once.
<1>3. /\ groups \in Seq(SUBSET P)
      /\ \A i, j \in DOMAIN groups : i # j => groups[i] \cap groups[j] = {}
      /\ \A p \in P : Key[p].provider # "none" => \E i \in DOMAIN groups : p \in groups[i]
  <2>1. CASE ~pdfs
    <3>1. groups = <<P>> BY <2>1 DEF L!Init, P
    <3>2. groups \in Seq(SUBSET P) /\ DOMAIN groups = {1} /\ groups[1] = P
      <4>1. ASSUME NEW x PROVE <<x>> \in Seq({x}) /\ DOMAIN <<x>> = {1} /\ <<x>>[1] = x OBVIOUS
      <4>2. <<P>> \in Seq(SUBSET P) OBVIOUS
      <4> QED BY <3>1, <4>1, <4>2
    <3> QED BY <3>2
  <2>2. CASE pdfs
    <3> DEFINE Real == L!Providers \ {"none"}
               n == Cardinality(Real)
    <3>1. PICK order \in [1..n -> Real] :
            /\ \A i, j \in DOMAIN order : order[i] = order[j] => i = j
            /\ groups = [i \in DOMAIN order |-> {p \in P : Key[p].provider = order[i]}]
      BY <2>2, CountingIsCounting DEF L!Init, P
    <3>2. IsFiniteSet(Real) /\ n \in Nat
      <4> DEFINE provider == [p \in P |-> Key[p].provider]
      <4>1. provider \in Surjection(P, L!Providers) BY DEF Surjection, L!Providers, P
      <4> HIDE DEF provider
      <4>2. IsFiniteSet(L!Providers) BY <4>1, PositionsAreFinite, FS_Surjection
      <4>3. IsFiniteSet(Real) BY <4>2, FS_Subset
      <4> QED BY <4>3, FS_CardinalityType
    <3>3. order \in Surjection(1..n, Real)
      <4> HIDE DEF Real
      <4>1. order \in Injection(1..n, Real) BY <3>1 DEF Injection, IsInjective
      <4> HIDE DEF n
      <4>2. Cardinality(1..n) = n BY <3>2, FS_Interval
      <4> QED BY <3>2, <4>1, <4>2, FS_Injection DEF n
    <3>4. /\ groups \in [1..n -> SUBSET P] /\ DOMAIN groups = 1..n
          /\ \A i \in 1..n : groups[i] = {p \in P : Key[p].provider = order[i]}
      BY <3>1
    <3>5. groups \in Seq(SUBSET P)
      <4> HIDE DEF n
      <4> QED BY <3>2, <3>4
    <3>6. \A i, j \in DOMAIN groups : i # j => groups[i] \cap groups[j] = {}
      BY <3>1, <3>4
    <3>7. ASSUME NEW p \in P, Key[p].provider # "none"
          PROVE  \E i \in DOMAIN groups : p \in groups[i]
      <4>1. Key[p].provider \in Real BY <3>7 DEF L!Providers, P
      <4>2. PICK i \in 1..n : order[i] = Key[p].provider BY <3>3, <4>1 DEF Surjection
      <4> QED BY <3>4, <4>2
    <3> QED BY <3>5, <3>6, <3>7
  <2> QED BY <2>1, <2>2
<1>4. groups # <<>> => remaining = groups[1] /\ 1 \in DOMAIN groups BY <1>1, <1>3, Rest
<1>5. GroupsInv
  <2>1. MaxWait \in Nat BY LookupsAssumption DEF L!BoundsAssumption
  <2> QED BY <1>1, <1>3, <1>4, <2>1 DEF GroupsInv
<1>6. ResultsInv
  <2>1. \A p \in P : Fits(p, L!Outcome("none")) /\ L!Outcome("none").kind = "none"
    BY OutcomesFit DEF L!Kinds
  <2>2. \A p \in P : outcome[p] = L!Outcome("none") /\ result[p] = L!Outcome("none") BY <1>1
  <2>3. \A i \in DOMAIN groups : \A p \in groups[i] : p \in P
    <3>1. \A i \in DOMAIN groups : groups[i] \in SUBSET P BY <1>3
    <3> QED BY <3>1
  <2>4. ASSUME NEW p \in P, Key[p].provider # "none" PROVE Due(p)
    <3>1. PICK i \in DOMAIN groups : p \in groups[i] BY <1>3, <2>4
    <3>2. groups # <<>>
      <4>1. DOMAIN <<>> = {} OBVIOUS
      <4> QED BY <3>1, <4>1
    <3> QED BY <1>4, <3>1, <3>2 DEF Due
  <2>5. groups # <<>> => \A p \in remaining : p \in P BY <1>4, <2>3
  <2> QED BY <1>1, <2>1, <2>2, <2>3, <2>4, <2>5 DEF ResultsInv
<1> QED BY <1>2, <1>5, <1>6 DEF LookupsInv

LEMMA NextKeepsLookups == LookupsInv /\ [L!Next]_(looking) => LookupsInv'
<1> SUFFICES ASSUME LookupsInv, [L!Next]_(looking) PROVE LookupsInv' OBVIOUS
<1>1. CASE UNCHANGED looking
  <2>1. L!Asking' = L!Asking BY <1>1 DEF L!Asking, looking
  <2> QED BY <1>1, <2>1 DEF looking, LookupsInv, TasksInv, GroupsInv, ResultsInv, Due, Asked
<1>2. CASE L!Discard
  <2>1. L!Asking' = L!Asking BY <1>2 DEF L!Asking, L!Discard
  <2> QED BY <1>2, <2>1 DEF L!Discard, LookupsInv, TasksInv, GroupsInv, ResultsInv, Due, Asked
<1>3. CASE \E t \in P : L!Ask(t) \/ L!Answer(t)
  BY <1>3, AskKeepsLookups, AnswerKeepsLookups
<1> QED
  BY <1>1, <1>2, <1>3, CallKeepsLookups, ReturnKeepsLookups, LoseKeepsLookups DEF L!Next, P

\* A request is replaced by more requests only when both ask for a part of it.
LEMMA OnlySplitsGrow ==
  ASSUME LookupsInv, [L!Next]_(looking), NEW t \in P,
         Len(tasks'[t].todo) > Len(tasks[t].todo), tasks[t].todo # <<>>
  PROVE  \A i \in {1, 2} : tasks'[t].todo[i] # {} /\ tasks'[t].todo[i] # L!Members(t)
<1> DEFINE s == tasks[t].todo
           n == Len(s)
<1>1. /\ tasks \in [P -> [todo : Seq(SUBSET P), asking : BOOLEAN]]
      /\ s \in Seq(SUBSET P) /\ n \in Nat /\ calling
  BY DEF LookupsInv, TasksInv
<1>2. ASSUME tasks'[t].todo = s PROVE FALSE BY <1>1, <1>2
<1>3. ASSUME tasks'[t].todo \in {<<>>, Tail(s)} PROVE FALSE
  <2> HIDE DEF s
  <2>1. Len(Tail(s)) = n - 1 /\ Len(<<>>) = 0 BY <1>1, Rest DEF s
  <2>2. Len(tasks'[t].todo) \in {0, n - 1} BY <1>3, <2>1
  <2>3. Len(tasks'[t].todo) > n BY DEF s
  <2> HIDE DEF n
  <2> QED BY <1>1, <2>2, <2>3
<1> HIDE DEF s
<1>4. ASSUME NEW r \in P, NEW answers, L!Answered(r, answers) PROVE FALSE
  <2>1. tasks' = [tasks EXCEPT ![r] = [todo |-> Tail(tasks[r].todo), asking |-> FALSE]]
    BY <1>4 DEF L!Answered, L!Becomes
  <2>2. CASE r = t BY <1>1, <1>3, <2>1, <2>2 DEF s
  <2>3. CASE r # t BY <1>1, <1>2, <2>1, <2>3 DEF s
  <2> QED BY <2>2, <2>3
<1>5. ASSUME NEW r \in P, NEW o, L!All(r, o) PROVE FALSE BY <1>4, <1>5 DEF L!All
<1>6. CASE L!Call BY <1>1, <1>6 DEF L!Call
<1>7. CASE L!Return BY <1>2, <1>7 DEF L!Return, s
<1>8. CASE L!Lose
  <2>1. tasks'[t].todo = <<>> BY <1>8 DEF L!Lose, L!NoTasks, P
  <2> QED BY <1>3, <2>1
<1>9. CASE L!Discard \/ UNCHANGED looking BY <1>2, <1>9 DEF L!Discard, looking, s
<1>10. ASSUME NEW r \in P, L!Ask(r) PROVE FALSE
  <2>1. tasks' = [tasks EXCEPT ![r] = [todo |-> tasks[r].todo, asking |-> TRUE]]
    BY <1>10 DEF L!Ask, L!Becomes
  <2>2. CASE r = t BY <1>1, <1>2, <2>1, <2>2 DEF s
  <2>3. CASE r # t BY <1>1, <1>2, <2>1, <2>3 DEF s
  <2> QED BY <2>2, <2>3
<1>11. ASSUME NEW r \in P, L!Fails(r) PROVE FALSE BY <1>5, <1>11 DEF L!Fails
<1>12. ASSUME NEW r \in P, L!Answers(r) PROVE FALSE BY <1>4, <1>12 DEF L!Answers
<1>13. ASSUME NEW r \in P, L!Looked(r) PROVE FALSE BY <1>5, <1>13 DEF L!Looked
<1>14. ASSUME NEW r \in P, Key[r].provider \in Batched, tasks[r].asking, L!TooLarge(r)
       PROVE  \A i \in {1, 2} : tasks'[t].todo[i] # {} /\ tasks'[t].todo[i] # L!Members(t)
  <2>1. CASE ~(Cardinality(L!Firsts(L!Members(r))) > 1)
    BY <1>5, <1>14, <2>1, CountingIsCounting DEF L!TooLarge
  <2>2. CASE Cardinality(L!Firsts(L!Members(r))) > 1 /\ r # t
    <3>1. tasks'[t] = tasks[t]
      BY <1>1, <1>14, <2>2, CountingIsCounting DEF L!TooLarge, L!Becomes
    <3> QED BY <1>2, <3>1 DEF s
  <2>3. CASE Cardinality(L!Firsts(L!Members(r))) > 1 /\ r = t
    BY <1>14, <2>3, SplitKeepsLookups
  <2> QED BY <2>1, <2>2, <2>3
<1> QED
  BY <1>6, <1>7, <1>8, <1>9, <1>10, <1>11, <1>12, <1>13, <1>14 DEF L!Next, L!Answer, P

\* What a source has been told stays: its position is not looked up again.
LEMMA AnswersStay ==
  ASSUME LookupsInv, [L!Next]_(looking), NEW p \in P,
         result[p].kind \notin {"none", "unavailable"}
  PROVE  result'[p] = result[p]
<1>1. CASE L!Return
  <2>1. p \notin remaining
    <3>1. calling /\ groups # <<>> BY <1>1 DEF L!Return, LookupsInv, ResultsInv
    <3> QED BY <3>1 DEF LookupsInv, ResultsInv
  <2> QED BY <1>1, <2>1 DEF L!Return, P
<1>2. CASE ~L!Return
  <2>1. ASSUME NEW r \in P, L!Answer(r) PROVE result' = result
    BY <2>1 DEF L!Answer, L!TooLarge, L!Fails, L!Answers, L!Looked, L!All, L!Answered, L!calls
  <2>2. ASSUME NEW r \in P, L!Ask(r) PROVE result' = result BY <2>2 DEF L!Ask, L!calls
  <2>3. result' = result
    BY <1>2, <2>1, <2>2 DEF L!Next, L!Call, L!Lose, L!Discard, looking, P
  <2> QED BY <2>3
<1> QED BY <1>1, <1>2

\* Looking up sources (runtime.py, workflows.py): what is kept for a source is a record
\* of its own identifier and stays; every source is answered in the end, unless a crash
\* lost a user's request; and a batch whose answer is too large is split into less.
THEOREM EverySourceKeepsItsAnswer == L!Spec => LookupsHold
<1>1. L!Init => LookupsInv BY LookupsStart
<1>2. LookupsInv /\ [L!Next]_(L!vars) => LookupsInv'
  BY NextKeepsLookups DEF L!vars, looking
<1>3. LookupsInv =>
        /\ \A p \in L!Positions : LET r == result[p] IN
             r.kind \in L!Papers => r.kind = Key[p].paper /\ Key[p].version \in {0, r.version}
        /\ groups = <<>> /\ (pdfs \/ losses = 0) =>
             \A p \in L!Positions : Key[p].provider # "none" => result[p].kind # "none"
  <2>1. DOMAIN <<>> = {} OBVIOUS
  <2> QED BY <2>1 DEF LookupsInv, ResultsInv, Fits, Due, P
<1>4. LookupsInv =>
        /\ \A t \in L!Positions : \A i, j \in DOMAIN tasks[t].todo :
             i # j => \A p \in tasks[t].todo[i], q \in tasks[t].todo[j] : Key[p] # Key[q]
        /\ L!Cardinality({t \in L!Positions : tasks[t].asking}) <= Permits /\ budget >= 0
  <2> SUFFICES ASSUME LookupsInv
               PROVE  /\ \A t \in L!Positions : \A i, j \in DOMAIN tasks[t].todo :
                           i # j => \A p \in tasks[t].todo[i], q \in tasks[t].todo[j] : Key[p] # Key[q]
                      /\ L!Cardinality({t \in L!Positions : tasks[t].asking}) <= Permits
                      /\ budget >= 0
    OBVIOUS
  <2>1. budget >= 0 BY DEF LookupsInv, GroupsInv
  <2>2. L!Cardinality(L!Asking) <= Permits BY CountingIsCounting DEF LookupsInv, TasksInv
  <2>3. \A t \in P : KeysApart(tasks[t].todo) BY DEF LookupsInv, TasksInv
  <2> QED BY <2>1, <2>2, <2>3 DEF L!Asking, KeysApart, P
<1>5. LookupsInv /\ [L!Next]_(L!vars) =>
        [\A p \in L!Positions :
           result[p].kind \notin {"none", "unavailable"} => result'[p] = result[p]]_(L!vars)
  BY AnswersStay DEF L!vars, looking, P
<1>6. LookupsInv /\ [L!Next]_(L!vars) =>
        [\A t \in L!Positions :
           Len(tasks'[t].todo) > Len(tasks[t].todo) /\ tasks[t].todo # <<>> =>
             \A i \in {1, 2} : tasks'[t].todo[i] # {} /\ tasks'[t].todo[i] # L!Members(t)]_(L!vars)
  BY OnlySplitsGrow DEF L!vars, looking, P
<1> QED
  BY <1>1, <1>2, <1>3, <1>4, <1>5, <1>6, PTL
     DEF L!Spec, LookupsHold, L!LookupsHold, L!AnswersStand, L!SplitsShrink
===============================================================================
