---------------------------- MODULE DocumentsProofs ----------------------------
(***************************************************************************)
(* Theorems about Documents, for any uploads, attachments, exports, retries *)
(* and faults: what a committed row names is in the store; about the       *)
(* Annotations and the downloads of its readers (Reading), for any sessions *)
(* and any request; and about the byte ranges that are served.             *)
(*                                                                         *)
(* The argument for objects: one is first promised (stored, by an          *)
(* execution that will name it), then named, then given up.  Whatever a    *)
(* deletion has asked for can no longer be promised, so the recheck of its *)
(* references, once passed, stays true until the object is removed.        *)
(*                                                                         *)
(* For Annotations: whatever a client was shown is a row as it was, and    *)
(* versions only rise, so an edit that finds its version replaces what its *)
(* author has seen.  For downloads: what a request is still to look at,    *)
(* with what it has, covers what the Item shows, and rows go first.        *)
(***************************************************************************)
EXTENDS Reading, Ranges, FiniteSetTheorems, TLAPS

USE ProducersAssumption, AbstractsAssumption, BoundsAssumption

-------------------------------------------------------------------------------
(* The inductive invariant. *)

\* The execution of an upload has not reserved its row yet.
Early == {"none", "waiting", "received"}

\* Keys that no row may name yet but one still can.
AwaitedThumb(j) ==
  \/ job[<<j[1], 0>>] \in Early
  \/ Row(j[1]) /\ rev[j[1]].run < j[2]
  \/ Owns(j) /\ job[j] \in {"reserved", "looked", "drawn"}
Awaited ==
  {Pdf(u) : u \in {v \in Uploads : job[<<v, 0>>] \in Early}}
    \cup {Png(j) : j \in {i \in Uploads \X (0..MaxRetries) : AwaitedThumb(i)}}
    \cup {Bin(a) : a \in {b \in Attachments : job[<<b, 0>>] \in Early \cup {"validated"}}}
    \cup {Out(e) : e \in {x \in Exports : job[<<x, 0>>] \in {"none", "waiting", "built"}}}
    \cup (IF copy.phase = "over" THEN {} ELSE {CopyOf(k) : k \in OwnKeys})

\* Keys that a row is about to name, on the word of the execution that stored
\* the object.
Sent(x) == http[x] = "stored" \/ mail[x] = "complete"
Promised ==
  {FileOf(x) : x \in {y \in Senders :
       job[<<y, 0>>] = "received" \/ (job[<<y, 0>>] = "waiting" /\ Sent(y))}}
    \cup {Bin(a) : a \in {b \in Attachments : job[<<b, 0>>] = "validated"}}
    \cup {Png(j) : j \in {i \in Uploads \X (0..MaxRetries) : job[i] = "drawn" /\ Owns(i)}}
    \cup {Out(e) : e \in {x \in Exports : job[<<x, 0>>] = "built"}}
    \cup (IF copy.phase \in {"copying", "copied"} THEN copy.done ELSE {})

\* Keys whose producer has begun.
Begun ==
  {FileOf(x) : x \in {y \in Senders : job[<<y, 0>>] # "none"}}
    \cup {Png(j) : j \in {i \in Uploads \X (0..MaxRetries) : job[i] # "none"}}
    \cup {Out(e) : e \in {x \in Exports : job[<<x, 0>>] # "none"}}
    \cup copy.done

\* A deletion is asked for when nobody can come to name its object, and is
\* decided when nobody does.
SweptIsOver == \A s \in sweep :
  s.key \notin Awaited /\ (s.phase = "doomed" => s.key \notin Referenced)

\* What an execution has reached agrees with the row it works for.
RowsFollowRuns == \A u \in Uploads : Row(u) =>
  /\ job[<<u, 0>>] \notin Early
  /\ rev[u].state # "ready" => rev[u].thumb = {}
  /\ rev[u].state = "ready" => rev[u].thumb = {Png(<<u, rev[u].run>>)}
  /\ rev[u].state = "failed" => job[<<u, rev[u].run>>] \in {"clearing", "ended"}
  /\ \A n \in 0..MaxRetries : n > rev[u].run => job[<<u, n>>] = "none"
RunsFollowRows == \A u \in Uploads, n \in 0..MaxRetries :
  /\ n > 0 /\ job[<<u, n>>] # "none" => job[<<u, 0>>] \notin Early
  /\ job[<<u, n>>] \in {"published", "superseded"} => ~Owns(<<u, n>>)
  /\ job[<<u, n>>] \in {"looked", "drawn"} /\ Row(u) /\ rev[u].run = n => rev[u].state = "pending"
RequestsFollow == \A x \in Senders :
  /\ http[x] = "none" <=> job[<<x, 0>>] = "none"
  /\ http[x] = "none" => mail[x] # "complete"
OutputsFollow ==
  /\ \A a \in Attachments : att[a] # "none" => job[<<a, 0>>] \notin Early \cup {"validated"}
  /\ \A e \in Exports : art[e] # "none" => job[<<e, 0>>] \notin {"none", "waiting", "built"}
  /\ tgt # {} => copy.phase = "over"
DeadIsRunning == \A j \in dead : job[j] \in {"looked", "drawn", "published", "superseded"}

CopiesKnown == copy.done \cup tgt \subseteq {CopyOf(k) : k \in OwnKeys}
\* The objects a copy has made are those of its snapshot.
CopyInv ==
  /\ copy.phase = "none" => copy.done = {}
  /\ copy.phase = "copying" => copy.done \subseteq {CopyOf(k) : k \in SnapshotKeys}
  /\ copy.phase = "copied" => copy.done = {CopyOf(k) : k \in SnapshotKeys}
  /\ CopiesKnown

StoreInv == NamedIsStored /\ Promised \subseteq store /\ store \subseteq Begun
RunsInv ==
  RowsFollowRuns /\ RunsFollowRows /\ RequestsFollow /\ OutputsFollow /\ DeadIsRunning
IInv == TypeOK /\ StoreInv /\ SweptIsOver /\ RunsInv /\ CopyInv

-------------------------------------------------------------------------------
(* Types. *)

Swept == [key : Keys, by : Sweepers, phase : {"asked", "unreserved", "doomed"}]

LEMMA JobKinds ==
  /\ \A x \in Senders : <<x, 0>> \in Jobs
  /\ \A e \in Exports : <<e, 0>> \in Jobs
  /\ \A u \in Uploads, n \in 0..MaxRetries : <<u, n>> \in Jobs
  /\ \A u \in Uploads : RunsOf(u) \subseteq Jobs
  /\ Jobs \subseteq Sweepers /\ Cleanup \in Sweepers
BY DEF Jobs, Senders, RunsOf, Sweepers

LEMMA KeyKinds ==
  /\ \A x \in Senders : FileOf(x) \in OwnKeys
  /\ \A u \in Uploads : Pdf(u) \in OwnKeys
  /\ \A a \in Attachments : Bin(a) \in OwnKeys
  /\ \A e \in Exports : Out(e) \in OwnKeys
  /\ \A j \in Uploads \X (0..MaxRetries) : Png(j) \in OwnKeys
  /\ OwnKeys \subseteq Keys
  /\ \A k \in OwnKeys : CopyOf(k) \in Keys
<1>1. \A u \in Uploads : Pdf(u) \in OwnKeys BY DEF OwnKeys, FileOf, Senders
<1>2. \A a \in Attachments : Bin(a) \in OwnKeys
  <2>1. \A a \in Attachments : FileOf(a) = Bin(a) BY DEF FileOf
  <2> QED BY <2>1 DEF OwnKeys, Senders
<1> QED BY <1>1, <1>2 DEF OwnKeys, Keys, FileOf, Senders

LEMMA JobMoves ==
  ASSUME TypeOK, NEW j \in Jobs, NEW phase \in Phases, Becomes(j, phase)
  PROVE  /\ job' \in [Jobs -> Phases]
         /\ job'[j] = phase
         /\ \A i \in Jobs : i # j => job'[i] = job[i]
BY DEF TypeOK, Becomes

LEMMA AskTypes ==
  ASSUME NEW keys \in SUBSET Keys, NEW by \in Sweepers PROVE Ask(keys, by) \subseteq Swept
BY DEF Ask, Swept

LEMMA AsksTypes ==
  ASSUME TypeOK, NEW keys \in SUBSET Keys, NEW by \in Sweepers, Asks(keys, by)
  PROVE  sweep' \subseteq Swept
BY AskTypes DEF Asks, TypeOK, Swept

LEMMA ReservesTypes == \A j \in Jobs : Reserves(j) \subseteq OwnKeys
<1> SUFFICES ASSUME NEW j \in Jobs PROVE Reserves(j) \subseteq OwnKeys OBVIOUS
<1>1. CASE j[1] \in Uploads
  <2>1. j \in Uploads \X (0..MaxRetries) BY <1>1 DEF Jobs
  <2> QED BY <1>1, <2>1, KeyKinds DEF Reserves
<1>2. CASE j[1] \in Attachments BY <1>2, KeyKinds DEF Reserves
<1>3. CASE j[1] \notin Uploads \cup Attachments
  <2>1. j[1] \in Exports BY <1>3 DEF Jobs
  <2> QED BY <1>3, <2>1, KeyKinds DEF Reserves
<1> QED BY <1>1, <1>2, <1>3

LEMMA NamedTypes ==
  ASSUME TypeOK
  PROVE  /\ ItemKeys \subseteq OwnKeys /\ Referenced \subseteq Keys
         /\ \A u \in Uploads : RevisionKeys(rev, u) \subseteq OwnKeys
         /\ SnapshotKeys \subseteq OwnKeys
<1>1. ASSUME NEW r \in [Uploads -> RevisionRows \cup {NoRow}], NEW u \in Uploads
      PROVE  RevisionKeys(r, u) \subseteq OwnKeys
  <2>1. CASE r[u] = NoRow BY <2>1 DEF RevisionKeys
  <2>2. CASE r[u] \in RevisionRows
    <3>1. r[u].thumb \subseteq OwnKeys BY <2>2 DEF RevisionRows
    <3> QED BY <3>1, KeyKinds DEF RevisionKeys
  <2> QED BY <2>1, <2>2
<1>2. \A t : AttachmentKeys(t) \subseteq OwnKeys BY KeyKinds DEF AttachmentKeys
<1>3. rev \in [Uploads -> RevisionRows \cup {NoRow}]
      /\ copy.rev \in [Uploads -> RevisionRows \cup {NoRow}]
  BY DEF TypeOK, Copies
<1>4. ItemKeys \subseteq OwnKeys BY <1>1, <1>2, <1>3 DEF ItemKeys
<1>5. SnapshotKeys \subseteq OwnKeys BY <1>1, <1>2, <1>3 DEF SnapshotKeys
<1>6. Referenced \subseteq Keys BY <1>4, KeyKinds DEF Referenced, TypeOK
<1> QED BY <1>1, <1>3, <1>4, <1>5, <1>6

LEMMA RequestTypes ==
  ASSUME TypeOK, NEW x \in Senders, Request(x) PROVE TypeOK'
<1>0. <<x, 0>> \in Jobs /\ FileOf(x) \in Keys BY JobKinds, KeyKinds
<1>1. CASE StartUpload(x)
  <2>1. job' \in [Jobs -> Phases] BY <1>0, <1>1, JobMoves DEF StartUpload, Phases
  <2> QED BY <1>1, <2>1 DEF StartUpload, TypeOK, docs
<1>2. ASSUME NEW m \in {"complete", "failed"}, Post(x, m)
      PROVE  mail' \in [Senders -> {"none", "complete", "failed"}]
  BY <1>2 DEF Post, TypeOK
<1>3. CASE PutObject(x) BY <1>0, <1>3 DEF PutObject, TypeOK, docs
<1>4. CASE SendComplete(x) BY <1>0, <1>2, <1>4 DEF SendComplete, TypeOK, docs
<1>5. CASE UploadFails(x)
  <2>1. mail' \in [Senders -> {"none", "complete", "failed"}]
    BY <1>2, <1>5 DEF UploadFails, TypeOK
  <2>2. store' \in SUBSET Keys BY <1>0, <1>5 DEF UploadFails, TypeOK
  <2> QED BY <1>5, <2>1, <2>2 DEF UploadFails, TypeOK, docs
<1> QED BY <1>1, <1>3, <1>4, <1>5 DEF Request

LEMMA UploadTypes ==
  ASSUME TypeOK, NEW x \in Senders, Receive(x) \/ Abandon(x) PROVE TypeOK'
<1>0. <<x, 0>> \in Jobs /\ <<x, 0>> \in Sweepers /\ Reserves(<<x, 0>>) \in SUBSET Keys
  BY JobKinds, KeyKinds, ReservesTypes
<1>1. CASE Receive(x)
  <2>1. job' \in [Jobs -> Phases] BY <1>0, <1>1, JobMoves DEF Receive, Phases
  <2> QED BY <1>1, <2>1 DEF Receive, TypeOK, docs
<1>2. CASE Abandon(x)
  <2>1. job' \in [Jobs -> Phases] BY <1>0, <1>2, JobMoves DEF Abandon, Phases
  <2>2. sweep' \subseteq Swept BY <1>0, <1>2, AsksTypes DEF Abandon
  <2> QED BY <1>2, <2>1, <2>2 DEF Abandon, TypeOK, docs, Swept
<1> QED BY <1>1, <1>2

\* A row changes in one field.
LEMMA RowTypes ==
  ASSUME TypeOK, NEW u \in Uploads, NEW row \in RevisionRows \cup {NoRow},
         rev' = [rev EXCEPT ![u] = row]
  PROVE  /\ rev' \in [Uploads -> RevisionRows \cup {NoRow}]
         /\ rev'[u] = row
         /\ \A v \in Uploads : v # u => rev'[v] = rev[v]
BY DEF TypeOK

LEMMA FieldTypes ==
  ASSUME TypeOK, NEW u \in Uploads, Row(u)
  PROVE  /\ rev[u] \in RevisionRows
         /\ \A s \in {"pending", "ready", "failed"} :
              /\ [rev[u] EXCEPT !.state = s] \in RevisionRows
              /\ [rev[u] EXCEPT !.state = s]
                   = [state |-> s, run |-> rev[u].run, thumb |-> rev[u].thumb]
<1>1. rev[u] \in RevisionRows BY DEF TypeOK, Row
<1>2. ASSUME NEW s \in {"pending", "ready", "failed"}
      PROVE  [rev[u] EXCEPT !.state = s] = [state |-> s, run |-> rev[u].run, thumb |-> rev[u].thumb]
  BY <1>1 DEF RevisionRows
<1>3. ASSUME NEW s \in {"pending", "ready", "failed"}
      PROVE  [state |-> s, run |-> rev[u].run, thumb |-> rev[u].thumb] \in RevisionRows
  BY <1>1 DEF RevisionRows
<1> QED BY <1>1, <1>2, <1>3

LEMMA TwoFields ==
  ASSUME NEW r \in RevisionRows, NEW s \in {"pending", "ready", "failed"}, NEW n, NEW t
  PROVE  /\ [[r EXCEPT !.state = s] EXCEPT !.run = n] = [state |-> s, run |-> n, thumb |-> r.thumb]
         /\ [[r EXCEPT !.state = s] EXCEPT !.thumb = t] = [state |-> s, run |-> r.run, thumb |-> t]
<1>0. PICK q : q = [r EXCEPT !.state = s] OBVIOUS
<1>1. q \in RevisionRows /\ q.state = s /\ q.run = r.run /\ q.thumb = r.thumb
  BY <1>0 DEF RevisionRows
<1>2. [q EXCEPT !.run = n] = [state |-> q.state, run |-> n, thumb |-> q.thumb]
  BY <1>1 DEF RevisionRows
<1>3. [q EXCEPT !.thumb = t] = [state |-> q.state, run |-> q.run, thumb |-> t]
  BY <1>1 DEF RevisionRows
<1> QED BY <1>0, <1>1, <1>2, <1>3

LEMMA RunNumbers ==
  ASSUME TypeOK, NEW u \in Uploads, Row(u)
  PROVE  rev[u].run \in 0..MaxRetries /\ rev[u].run \in Nat
<1>1. rev[u] \in RevisionRows BY FieldTypes
<1>2. \A r \in RevisionRows : r.run \in 0..MaxRetries BY DEF RevisionRows
<1> QED BY <1>1, <1>2

LEMMA NoRowTypes == NoRow.state = "none" /\ NoRow \notin RevisionRows
BY DEF NoRow, RevisionRows

LEMMA RowStates ==
  ASSUME TypeOK, NEW u \in Uploads
  PROVE  Row(u) <=> rev[u].state # "none"
<1>1. rev[u] \in RevisionRows \/ rev[u] = NoRow BY DEF TypeOK
<1> QED BY <1>1, NoRowTypes DEF Row, RevisionRows

\* What the actions that write a row make of it.
LEMMA ReserveRow ==
  ASSUME TypeOK, NEW u \in Uploads, ReserveRevision(u)
  PROVE  /\ [state |-> "pending", run |-> 0, thumb |-> {}] \in RevisionRows
         /\ rev' = [rev EXCEPT ![u] = [state |-> "pending", run |-> 0, thumb |-> {}]]
<1>1. 0 \in 0..MaxRetries OBVIOUS
<1> QED BY <1>1 DEF ReserveRevision, RevisionRows

LEMMA PublishRow ==
  ASSUME TypeOK, NEW j \in Uploads \X (0..MaxRetries), Publish(j)
  PROVE  LET row == [state |-> "ready", run |-> rev[j[1]].run, thumb |-> {Png(j)}]
         IN  row \in RevisionRows /\ rev' = [rev EXCEPT ![j[1]] = row]
<1> DEFINE row == [state |-> "ready", run |-> rev[j[1]].run, thumb |-> {Png(j)}]
<1>0. PICK u \in Uploads : u = j[1] OBVIOUS
<1>1. rev[u].state = "pending" /\ Row(u) BY <1>0, RowStates DEF Publish, Owns
<1>2. rev[u] \in RevisionRows BY <1>1, FieldTypes
<1>3. row \in RevisionRows BY <1>0, <1>2, KeyKinds DEF RevisionRows
<1>4. PICK t : t = {Png(j)} OBVIOUS
<1>5. rev' = [rev EXCEPT ![u].state = "ready", ![u].thumb = t] BY <1>0, <1>4 DEF Publish
<1>8. PICK r \in RevisionRows : r = rev[u] BY <1>2
<1>6. [[r EXCEPT !.state = "ready"] EXCEPT !.thumb = t]
        = [state |-> "ready", run |-> r.run, thumb |-> t]
  BY TwoFields
<1>7. rev' = [rev EXCEPT ![u] = [[rev[u] EXCEPT !.state = "ready"] EXCEPT !.thumb = t]]
  BY <1>5 DEF TypeOK
<1> QED BY <1>0, <1>3, <1>4, <1>6, <1>7, <1>8

LEMMA FailRow ==
  ASSUME TypeOK, NEW j \in Uploads \X (0..MaxRetries), FailRevision(j)
  PROVE  LET row == [state |-> "failed", run |-> rev[j[1]].run, thumb |-> rev[j[1]].thumb]
         IN  IF Row(j[1]) /\ Owns(j)
             THEN row \in RevisionRows /\ rev' = [rev EXCEPT ![j[1]] = row]
             ELSE rev' = rev
<1>0. PICK u \in Uploads : u = j[1] OBVIOUS
<1>1. CASE Row(u) /\ Owns(j)
  <2>1. rev' = [rev EXCEPT ![u].state = "failed"] BY <1>0, <1>1 DEF FailRevision
  <2>2. rev' = [rev EXCEPT ![u] = [rev[u] EXCEPT !.state = "failed"]] BY <2>1 DEF TypeOK
  <2> QED BY <1>0, <1>1, <2>2, FieldTypes
<1> QED BY <1>0, <1>1 DEF FailRevision

LEMMA RetryRow ==
  ASSUME TypeOK, NEW u \in Uploads, NEW n \in 0..MaxRetries, Retry(u, n)
  PROVE  LET row == [state |-> "pending", run |-> n, thumb |-> rev[u].thumb]
         IN  Row(u) /\ row \in RevisionRows /\ rev' = [rev EXCEPT ![u] = row]
<1>1. Row(u) /\ rev[u] \in RevisionRows BY RowStates, FieldTypes DEF Retry
<1>2. [state |-> "pending", run |-> n, thumb |-> rev[u].thumb] \in RevisionRows
  BY <1>1 DEF RevisionRows
<1>3. rev' = [rev EXCEPT ![u].state = "pending", ![u].run = n] BY DEF Retry
<1>4. PICK r \in RevisionRows : r = rev[u] BY <1>1
<1>6. [[r EXCEPT !.state = "pending"] EXCEPT !.run = n]
        = [state |-> "pending", run |-> n, thumb |-> r.thumb]
  BY TwoFields
<1>5. rev' = [rev EXCEPT ![u] = [[rev[u] EXCEPT !.state = "pending"] EXCEPT !.run = n]]
  BY <1>3 DEF TypeOK
<1> QED BY <1>1, <1>2, <1>4, <1>5, <1>6

LEMMA InspectionTypes ==
  ASSUME TypeOK, NEW j \in Uploads \X (0..MaxRetries), Inspection(j) PROVE TypeOK'
<1>0. /\ j \in Jobs /\ j \in Sweepers /\ j[1] \in Uploads
      /\ Png(j) \in Keys /\ {Png(j)} \in SUBSET Keys
  BY JobKinds, KeyKinds
<1>1. CASE Look(j)
  <2>1. job' \in [Jobs -> Phases] BY <1>0, <1>1, JobMoves DEF Look, Phases, InspectionPhases
  <2> QED BY <1>1, <2>1 DEF Look, TypeOK, docs
<1>2. CASE Draw(j)
  <2>1. job' \in [Jobs -> Phases] BY <1>0, <1>2, JobMoves DEF Draw, Phases, InspectionPhases
  <2> QED BY <1>0, <1>2, <2>1 DEF Draw, TypeOK, docs
<1>3. CASE Publish(j)
  <2>1. job' \in [Jobs -> Phases] BY <1>0, <1>3, JobMoves DEF Publish, Phases, InspectionPhases
  <2>2. rev' \in [Uploads -> RevisionRows \cup {NoRow}] BY <1>0, <1>3, PublishRow, RowTypes
  <2> QED BY <1>3, <2>1, <2>2 DEF Publish, TypeOK
<1>4. CASE Superseded(j)
  <2>1. job' \in [Jobs -> Phases] BY <1>0, <1>4, JobMoves DEF Superseded, Phases, InspectionPhases
  <2>2. sweep' \subseteq Swept BY <1>0, <1>4, AsksTypes DEF Superseded
  <2> QED BY <1>4, <2>1, <2>2 DEF Superseded, TypeOK, docs, Swept
<1>5. CASE StepEnds(j)
  <2>1. job' \in [Jobs -> Phases] BY <1>0, <1>5, JobMoves DEF StepEnds, Phases
  <2> QED BY <1>5, <2>1 DEF StepEnds, TypeOK, docs
<1>6. CASE StepRefuses(j)
  <2>1. job' \in [Jobs -> Phases]
    BY <1>0, <1>6, JobMoves DEF StepRefuses, GivesUp, Phases
  <2> QED BY <1>6, <2>1 DEF StepRefuses, GivesUp, TypeOK, docs
<1>7. CASE FailRevision(j)
  <2>1. job' \in [Jobs -> Phases] BY <1>0, <1>7, JobMoves DEF FailRevision, Phases
  <2>2. rev' \in [Uploads -> RevisionRows \cup {NoRow}]
    BY <1>0, <1>7, FailRow, RowTypes DEF TypeOK
  <2>3. sweep' \subseteq Swept BY <1>0, <1>7, AsksTypes DEF FailRevision
  <2> QED BY <1>7, <2>1, <2>2, <2>3 DEF FailRevision, TypeOK, Swept
<1> QED BY <1>1, <1>2, <1>3, <1>4, <1>5, <1>6, <1>7 DEF Inspection

LEMMA RunTypes ==
  ASSUME TypeOK, NEW j \in Jobs, Cleared(j) \/ Fault(j) PROVE TypeOK'
<1>1. CASE Cleared(j)
  <2>1. job' \in [Jobs -> Phases] BY <1>1, JobMoves DEF Cleared, Phases
  <2> QED BY <1>1, <2>1 DEF Cleared, TypeOK, docs
<1>0. faults < MaxFaults /\ faults' = faults + 1 => faults' \in 0..MaxFaults BY DEF TypeOK
<1>2. CASE Redo(j)
  <2>1. job' \in [Jobs -> Phases] BY <1>2, JobMoves DEF Redo, Phases, InspectionPhases
  <2>2. store' \in SUBSET Keys BY <1>2 DEF Redo, TypeOK
  <2> QED BY <1>0, <1>2, <2>1, <2>2 DEF Redo, TypeOK, docs
<1>3. CASE StepBreaks(j)
  <2>1. job' \in [Jobs -> Phases] BY <1>3, JobMoves DEF StepBreaks, GivesUp, Phases
  <2> QED BY <1>0, <1>3, <2>1 DEF StepBreaks, GivesUp, TypeOK, docs
<1>4. CASE Die(j)
  <2>1. job' \in [Jobs -> Phases] BY <1>4, JobMoves DEF Die, Phases
  <2> QED BY <1>0, <1>4, <2>1 DEF Die, TypeOK, docs
<1>5. CASE Outlive(j) BY <1>0, <1>5 DEF Outlive, TypeOK, docs
<1> QED BY <1>1, <1>2, <1>3, <1>4, <1>5 DEF Fault

LEMMA CommitTypes ==
  ASSUME TypeOK, NEW j \in Jobs, NEW q \in Phases, Commits(j, q)
  PROVE  job' \in [Jobs -> Phases] /\ sweep' \subseteq Swept /\ faults' \in 0..MaxFaults
<1>1. job' \in [Jobs -> Phases] BY JobMoves DEF Commits, Phases
<1>2. CASE UNCHANGED <<sweep, faults>> BY <1>1, <1>2 DEF TypeOK, Swept
<1>3. CASE /\ faults < MaxFaults /\ faults' = faults + 1
           /\ Asks(Reserves(j), j)
  <2>1. Reserves(j) \in SUBSET Keys /\ j \in Sweepers BY ReservesTypes, KeyKinds, JobKinds
  <2>2. sweep' \subseteq Swept BY <1>3, <2>1, AsksTypes
  <2> QED BY <1>1, <1>3, <2>2 DEF TypeOK
<1> QED BY <1>2, <1>3 DEF Commits

LEMMA RowCommandTypes ==
  ASSUME TypeOK, NEW u \in Uploads,
         \/ ReserveRevision(u)
         \/ DeleteRevision(u)
         \/ \E n \in 0..MaxRetries : Retry(u, n)
  PROVE  TypeOK'
<1>0. u \in Senders /\ <<u, 0>> \in Jobs /\ Cleanup \in Sweepers BY JobKinds DEF Senders
<1>1. CASE ReserveRevision(u)
  <2>1. job' \in [Jobs -> Phases] /\ sweep' \subseteq Swept /\ faults' \in 0..MaxFaults
    BY <1>0, <1>1, CommitTypes DEF ReserveRevision, Phases, InspectionPhases
  <2>2. rev' \in [Uploads -> RevisionRows \cup {NoRow}] BY <1>1, ReserveRow, RowTypes
  <2> QED BY <1>1, <2>1, <2>2 DEF ReserveRevision, TypeOK, Swept
<1>2. CASE DeleteRevision(u)
  <2>1. rev' \in [Uploads -> RevisionRows \cup {NoRow}] BY <1>2, RowTypes DEF DeleteRevision
  <2>2. RevisionKeys(rev, u) \in SUBSET Keys BY NamedTypes, KeyKinds
  <2>3. sweep' \subseteq Swept BY <1>0, <1>2, <2>2, AsksTypes DEF DeleteRevision
  <2> QED BY <1>2, <2>1, <2>3 DEF DeleteRevision, TypeOK, Swept
<1>3. ASSUME NEW n \in 0..MaxRetries, Retry(u, n) PROVE TypeOK'
  <2>1. <<u, n>> \in Jobs BY JobKinds
  <2>2. job' \in [Jobs -> Phases] BY <1>3, <2>1, JobMoves DEF Retry, Phases, InspectionPhases
  <2>3. rev' \in [Uploads -> RevisionRows \cup {NoRow}] BY <1>3, RetryRow, RowTypes
  <2> QED BY <1>3, <2>2, <2>3 DEF Retry, TypeOK
<1> QED BY <1>1, <1>2, <1>3

LEMMA AttachmentTypes ==
  ASSUME TypeOK, NEW a \in Attachments,
         ValidateAttachment(a) \/ CommitAttachment(a) \/ DeleteAttachment(a)
  PROVE  TypeOK'
<1>0. /\ a \in Senders /\ <<a, 0>> \in Jobs /\ <<a, 0>> \in Sweepers /\ Cleanup \in Sweepers
      /\ {Bin(a)} \in SUBSET Keys
  BY JobKinds, KeyKinds DEF Senders
<1>1. CASE ValidateAttachment(a)
  <2>1. job' \in [Jobs -> Phases] BY <1>0, <1>1, JobMoves DEF ValidateAttachment, Phases
  <2>2. sweep' \subseteq Swept BY <1>0, <1>1, AsksTypes DEF ValidateAttachment, TypeOK, Swept
  <2> QED BY <1>1, <2>1, <2>2 DEF ValidateAttachment, TypeOK, docs, Swept
<1>2. CASE CommitAttachment(a)
  <2>1. job' \in [Jobs -> Phases] /\ sweep' \subseteq Swept /\ faults' \in 0..MaxFaults
    BY <1>0, <1>2, CommitTypes DEF CommitAttachment, Phases
  <2>2. att' \in [Attachments -> {"none", "plain", "abstract"}]
    BY <1>2 DEF CommitAttachment, TypeOK
  <2> QED BY <1>2, <2>1, <2>2 DEF CommitAttachment, TypeOK, Swept
<1>3. CASE DeleteAttachment(a)
  <2>1. sweep' \subseteq Swept BY <1>0, <1>3, AsksTypes DEF DeleteAttachment
  <2>2. att' \in [Attachments -> {"none", "plain", "abstract"}]
    BY <1>3 DEF DeleteAttachment, TypeOK
  <2> QED BY <1>3, <2>1, <2>2 DEF DeleteAttachment, TypeOK, Swept
<1> QED BY <1>1, <1>2, <1>3

LEMMA ExportTypes ==
  ASSUME TypeOK, NEW e \in Exports,
         StartExport(e) \/ ExportRuns(e) \/ Expire(e) \/ Retire(e)
  PROVE  TypeOK'
<1>0. /\ <<e, 0>> \in Jobs /\ <<e, 0>> \in Sweepers /\ Cleanup \in Sweepers
      /\ Out(e) \in Keys /\ {Out(e)} \in SUBSET Keys
  BY JobKinds, KeyKinds
<1>1. CASE StartExport(e)
  <2>1. job' \in [Jobs -> Phases] BY <1>0, <1>1, JobMoves DEF StartExport, Phases
  <2> QED BY <1>1, <2>1 DEF StartExport, TypeOK, docs
<1>2. CASE Build(e)
  <2>1. job' \in [Jobs -> Phases] BY <1>0, <1>2, JobMoves DEF Build, Phases
  <2>2. store' \in SUBSET Keys BY <1>0, <1>2 DEF Build, TypeOK
  <2> QED BY <1>2, <2>1, <2>2 DEF Build, TypeOK, docs
<1>3. CASE RecordArtifact(e)
  <2>1. job' \in [Jobs -> Phases] BY <1>0, <1>3, JobMoves DEF RecordArtifact, Phases
  <2>2. art' \in [Exports -> {"none", "live", "expired"}] BY <1>3 DEF RecordArtifact, TypeOK
  <2> QED BY <1>3, <2>1, <2>2 DEF RecordArtifact, TypeOK
<1>4. CASE ExportRaises(e)
  <2>1. job' \in [Jobs -> Phases] BY <1>0, <1>4, JobMoves DEF ExportRaises, Phases
  <2>2. sweep' \subseteq Swept BY <1>0, <1>4, AsksTypes DEF ExportRaises
  <2> QED BY <1>4, <2>1, <2>2 DEF ExportRaises, TypeOK, docs, Swept
<1>5. CASE ExportEnds(e)
  <2>1. job' \in [Jobs -> Phases] BY <1>0, <1>5, JobMoves DEF ExportEnds, Phases
  <2> QED BY <1>5, <2>1 DEF ExportEnds, TypeOK, docs
<1>6. CASE Expire(e)
  <2>1. art' \in [Exports -> {"none", "live", "expired"}] BY <1>6 DEF Expire, TypeOK
  <2> QED BY <1>6, <2>1 DEF Expire, TypeOK
<1>7. CASE Retire(e)
  <2>1. art' \in [Exports -> {"none", "live", "expired"}] BY <1>7 DEF Retire, TypeOK
  <2>2. sweep' \subseteq Swept BY <1>0, <1>7, AsksTypes DEF Retire
  <2> QED BY <1>7, <2>1, <2>2 DEF Retire, TypeOK, Swept
<1> QED BY <1>1, <1>2, <1>3, <1>4, <1>5, <1>6, <1>7 DEF ExportRuns

\* The copy after an object more, or after its end.
LEMMA CopyRecords ==
  ASSUME NEW c \in Copies
  PROVE  /\ [c EXCEPT !.phase = "over"]
              = [phase |-> "over", rev |-> c.rev, att |-> c.att, done |-> c.done]
         /\ \A d, p : [c EXCEPT !.done = d, !.phase = p]
              = [phase |-> p, rev |-> c.rev, att |-> c.att, done |-> d]
<1>1. [c EXCEPT !.phase = "over"]
        = [phase |-> "over", rev |-> c.rev, att |-> c.att, done |-> c.done]
  BY DEF Copies
<1>2. ASSUME NEW d, NEW p
      PROVE  [c EXCEPT !.done = d, !.phase = p]
               = [phase |-> p, rev |-> c.rev, att |-> c.att, done |-> d]
  <2>1. PICK x, y, z : x = c.rev /\ y = c.att /\ z = c.phase OBVIOUS
  <2>2. PICK b : b = [c EXCEPT !.done = d] OBVIOUS
  <2>3. b = [phase |-> z, rev |-> x, att |-> y, done |-> d] BY <2>1, <2>2 DEF Copies
  <2>4. [[phase |-> z, rev |-> x, att |-> y, done |-> d] EXCEPT !.phase = p]
          = [phase |-> p, rev |-> x, att |-> y, done |-> d]
    OBVIOUS
  <2>5. [c EXCEPT !.done = d, !.phase = p] = [b EXCEPT !.phase = p] BY <2>2 DEF Copies
  <2> QED BY <2>1, <2>3, <2>4, <2>5
<1> QED BY <1>1, <1>2

LEMMA CopyTypes == ASSUME TypeOK, CopyStep PROVE TypeOK'
<1>0. /\ Cleanup \in Sweepers /\ copy.done \in SUBSET Keys
      /\ copy.rev \in [Uploads -> RevisionRows \cup {NoRow}]
      /\ copy.att \in [Attachments -> {"none", "plain", "abstract"}]
      /\ copy.phase \in {"none", "copying", "copied", "over"} /\ copy \in Copies
  BY DEF TypeOK, Copies, Sweepers
<1>1. Ask(copy.done, Cleanup) \subseteq Swept BY <1>0, AskTypes
<1>2. [copy EXCEPT !.phase = "over"] \in Copies BY <1>0, CopyRecords DEF Copies
<1>3. CASE StartCopy
  <2>1. [phase |-> "copying", rev |-> rev, att |-> att, done |-> {}] \in Copies
    BY DEF Copies, TypeOK
  <2> QED BY <1>3, <2>1 DEF StartCopy, TypeOK, docs
<1>4. CASE Install BY <1>0, <1>1, <1>2, <1>4 DEF Install, TypeOK, Swept
<1>5. CASE CopyFails BY <1>1, <1>2, <1>5 DEF CopyFails, TypeOK, docs, Swept
<1>6. ASSUME NEW k \in OwnKeys, CopyObject(k) PROVE TypeOK'
  <2>1. CopyOf(k) \in Keys BY KeyKinds
  <2>2. PICK p \in {"copied", copy.phase} :
          copy' = [copy EXCEPT !.done = @ \cup {CopyOf(k)}, !.phase = p]
    BY <1>6 DEF CopyObject
  <2>3. PICK d : d = copy.done \cup {CopyOf(k)} OBVIOUS
  <2>4. copy' = [copy EXCEPT !.done = d, !.phase = p] BY <2>2, <2>3 DEF TypeOK, Copies
  <2>5. copy' \in Copies BY <1>0, <2>1, <2>3, <2>4, CopyRecords DEF Copies
  <2> QED BY <1>6, <2>1, <2>5 DEF CopyObject, TypeOK, docs
<1> QED BY <1>3, <1>4, <1>5, <1>6 DEF CopyStep

LEMMA ObjectTypes == ASSUME TypeOK, ObjectStep \/ DeleteItem \/ Authority PROVE TypeOK'
<1>0. Cleanup \in Sweepers /\ ItemKeys \in SUBSET Keys BY NamedTypes, KeyKinds DEF Sweepers
<1>1. ASSUME NEW s \in sweep, NEW phase \in {"unreserved", "doomed"}, Replace(s, phase)
      PROVE  sweep' \subseteq Swept
  <2>1. s \in Swept BY DEF TypeOK, Swept
  <2>2. [s EXCEPT !.phase = phase] \in Swept BY <2>1 DEF Swept
  <2> QED BY <1>1, <2>2 DEF Replace, TypeOK, Swept
<1>2. ASSUME NEW s \in sweep, Recheck(s) PROVE TypeOK'
  <2>1. sweep' \subseteq Swept BY <1>1, <1>2 DEF Recheck, TypeOK, Swept
  <2> QED BY <1>2, <2>1 DEF Recheck, TypeOK, docs, Swept
<1>3. ASSUME NEW s \in sweep, Remove(s) PROVE TypeOK' BY <1>3 DEF Remove, TypeOK, docs
<1>4. ASSUME NEW s \in sweep, Drop(s) PROVE TypeOK' BY <1>4 DEF Drop, TypeOK, docs
<1>5. ASSUME NEW k \in Keys, Scan(k) PROVE TypeOK'
  <2>1. sweep' \subseteq Swept BY <1>0, <1>5, AsksTypes DEF Scan
  <2> QED BY <1>5, <2>1 DEF Scan, TypeOK, docs, Swept
<1>6. CASE DeleteItem
  <2>1. sweep' \subseteq Swept BY <1>0, <1>6, AsksTypes DEF DeleteItem
  <2> QED BY <1>6, <2>1 DEF DeleteItem, TypeOK, Swept
<1>7. CASE Authority BY <1>7 DEF Authority, TypeOK
<1> QED BY <1>2, <1>3, <1>4, <1>5, <1>6, <1>7 DEF ObjectStep, Collect

LEMMA NextType == TypeOK /\ [Next]_vars => TypeOK'
<1> SUFFICES ASSUME TypeOK, [Next]_vars PROVE TypeOK' OBVIOUS
<1>1. ASSUME NEW u \in Uploads, UploadStep(u) PROVE TypeOK'
  <2>1. u \in Senders /\ RunsOf(u) \subseteq Uploads \X (0..MaxRetries) /\ RunsOf(u) \subseteq Jobs
    BY JobKinds DEF Senders, RunsOf
  <2>2. \A j \in RunsOf(u) : j[2] \in 0..MaxRetries BY DEF RunsOf
  <2>3. ASSUME NEW j \in RunsOf(u), Inspection(j) \/ Retry(u, j[2]) \/ Fault(j) \/ Cleared(j)
        PROVE  TypeOK'
    BY <2>1, <2>2, <2>3, InspectionTypes, RunTypes, RowCommandTypes
  <2> QED BY <1>1, <2>1, <2>3, RequestTypes, UploadTypes, RowCommandTypes
          DEF UploadStep, UploadRuns
<1>2. ASSUME NEW a \in Attachments, AttachmentStep(a) PROVE TypeOK'
  <2>1. a \in Senders /\ <<a, 0>> \in Jobs BY JobKinds DEF Senders
  <2> QED BY <1>2, <2>1, RequestTypes, UploadTypes, AttachmentTypes, RunTypes
          DEF AttachmentStep, AttachmentRuns, Fault
<1>3. ASSUME NEW e \in Exports, ExportStep(e) PROVE TypeOK'
  <2>1. <<e, 0>> \in Jobs BY JobKinds
  <2> QED BY <1>3, <2>1, ExportTypes, RunTypes DEF ExportStep, Fault
<1>4. CASE UNCHANGED vars BY <1>4 DEF TypeOK, vars, docs
<1> QED BY <1>1, <1>2, <1>3, <1>4, CopyTypes, ObjectTypes DEF Next

LEMMA InitType == Init => TypeOK
<1> SUFFICES ASSUME Init PROVE TypeOK OBVIOUS
<1>1. NoCopy \in Copies BY DEF NoCopy, Copies
<1> QED BY <1>1 DEF Init, TypeOK, Phases

\* Documents, executions, copies, objects and deletions keep their shapes.
THEOREM TypeCorrect == Spec => []TypeOK
BY InitType, NextType, PTL DEF Spec

-------------------------------------------------------------------------------
(* The keys in each set, kind by kind.                                        *)

Revisions == Uploads \X (0..MaxRetries)

LEMMA DistinctKeys ==
  /\ \A u, v \in Uploads : Pdf(u) = Pdf(v) => u = v
  /\ \A i, j \in Revisions : Png(i) = Png(j) => i = j
  /\ \A a, b \in Attachments : Bin(a) = Bin(b) => a = b
  /\ \A e, f \in Exports : Out(e) = Out(f) => e = f
  /\ \A k, l : CopyOf(k) = CopyOf(l) => k = l
  /\ \A u : Pdf(u)[1] = "pdf"
  /\ \A j : Png(j)[1] = "png"
  /\ \A a : Bin(a)[1] = "bin"
  /\ \A e : Out(e)[1] = "out"
  /\ \A k : CopyOf(k)[1] = "copy"
<1>1. \A i, j \in Revisions : Png(i) = Png(j) => i = j BY DEF Png, Revisions
<1>2. /\ \A u, v \in Uploads : Pdf(u) = Pdf(v) => u = v
      /\ \A a, b \in Attachments : Bin(a) = Bin(b) => a = b
      /\ \A e, f \in Exports : Out(e) = Out(f) => e = f
      /\ \A k, l : CopyOf(k) = CopyOf(l) => k = l
  BY DEF Pdf, Bin, Out, CopyOf
<1>3. /\ \A u : Pdf(u)[1] = "pdf"
      /\ \A j : Png(j)[1] = "png"
      /\ \A a : Bin(a)[1] = "bin"
      /\ \A e : Out(e)[1] = "out"
      /\ \A k : CopyOf(k)[1] = "copy"
  BY DEF Pdf, Png, Bin, Out, CopyOf
<1> QED BY <1>1, <1>2, <1>3

LEMMA SenderFiles ==
  /\ \A u \in Uploads : FileOf(u) = Pdf(u) /\ u \in Senders
  /\ \A a \in Attachments : FileOf(a) = Bin(a) /\ a \in Senders /\ a \notin Uploads
  /\ \A x \in Senders : x \in Uploads \/ x \in Attachments
BY DEF FileOf, Senders

\* A set of keys is known by its keys of each kind.
LEMMA KeyCases ==
  ASSUME NEW k \in Keys
  PROVE  \/ \E u \in Uploads : k = Pdf(u)
         \/ \E j \in Revisions : k = Png(j)
         \/ \E a \in Attachments : k = Bin(a)
         \/ \E e \in Exports : k = Out(e)
         \/ \E l \in OwnKeys : k = CopyOf(l)
<1>1. CASE k \in OwnKeys BY <1>1, SenderFiles DEF OwnKeys, Revisions
<1> QED BY <1>1 DEF Keys

\* The set of some keys of each kind.
KeySet(us, js, ats, es, cs) ==
  {Pdf(u) : u \in us} \cup {Png(j) : j \in js} \cup {Bin(a) : a \in ats}
    \cup {Out(e) : e \in es} \cup cs

Consists(K, us, js, ats, es, cs) ==
  /\ \A u \in Uploads : Pdf(u) \in K <=> u \in us
  /\ \A j \in Revisions : Png(j) \in K <=> j \in js
  /\ \A a \in Attachments : Bin(a) \in K <=> a \in ats
  /\ \A e \in Exports : Out(e) \in K <=> e \in es
  /\ \A k \in OwnKeys : CopyOf(k) \in K <=> CopyOf(k) \in cs
  /\ K \subseteq Keys

LEMMA KeySets ==
  ASSUME NEW us \in SUBSET Uploads, NEW js \in SUBSET Revisions, NEW ats \in SUBSET Attachments,
         NEW es \in SUBSET Exports, NEW cs \in SUBSET {CopyOf(k) : k \in OwnKeys}
  PROVE  Consists(KeySet(us, js, ats, es, cs), us, js, ats, es, cs)
<1> PICK K : K = KeySet(us, js, ats, es, cs) OBVIOUS
<1> DEFINE pdfs == {Pdf(u) : u \in us}
           pngs == {Png(j) : j \in js}
           bins == {Bin(a) : a \in ats}
           outs == {Out(e) : e \in es}
<1>0. \A c \in cs : c[1] = "copy" BY DistinctKeys
<1>7. K = pdfs \cup pngs \cup bins \cup outs \cup cs BY DEF KeySet
<1>6. K \subseteq Keys
  <2>1. pdfs \subseteq Keys /\ bins \subseteq Keys /\ outs \subseteq Keys BY KeyKinds
  <2>2. pngs \subseteq Keys BY KeyKinds DEF Revisions
  <2>3. cs \subseteq Keys BY KeyKinds
  <2> QED BY <1>7, <2>1, <2>2, <2>3
<1> HIDE DEF pdfs, pngs, bins, outs
<1>1. ASSUME NEW u \in Uploads PROVE Pdf(u) \in K <=> u \in us
  <2>1. Pdf(u) \in pdfs <=> u \in us BY DistinctKeys DEF pdfs
  <2>2. Pdf(u) \notin pngs BY DistinctKeys DEF pngs
  <2>3. Pdf(u) \notin bins BY DistinctKeys DEF bins
  <2>4. Pdf(u) \notin outs BY DistinctKeys DEF outs
  <2>5. Pdf(u) \notin cs BY <1>0, DistinctKeys
  <2> QED BY <2>1, <2>2, <2>3, <2>4, <2>5, <1>7
<1>2. ASSUME NEW j \in Revisions PROVE Png(j) \in K <=> j \in js
  <2>1. Png(j) \in pngs <=> j \in js BY DistinctKeys DEF pngs
  <2>2. Png(j) \notin pdfs BY DistinctKeys DEF pdfs
  <2>3. Png(j) \notin bins BY DistinctKeys DEF bins
  <2>4. Png(j) \notin outs BY DistinctKeys DEF outs
  <2>5. Png(j) \notin cs BY <1>0, DistinctKeys
  <2> QED BY <2>1, <2>2, <2>3, <2>4, <2>5, <1>7
<1>3. ASSUME NEW a \in Attachments PROVE Bin(a) \in K <=> a \in ats
  <2>0. \A b \in ats : Bin(b) = Bin(a) => b = a BY DistinctKeys
  <2>1. Bin(a) \in bins <=> a \in ats BY <2>0 DEF bins
  <2>2. Bin(a) \notin pdfs BY DistinctKeys DEF pdfs
  <2>3. Bin(a) \notin pngs BY DistinctKeys DEF pngs
  <2>4. Bin(a) \notin outs BY DistinctKeys DEF outs
  <2>5. Bin(a) \notin cs BY <1>0, DistinctKeys
  <2> QED BY <2>1, <2>2, <2>3, <2>4, <2>5, <1>7
<1>4. ASSUME NEW e \in Exports PROVE Out(e) \in K <=> e \in es
  <2>1. Out(e) \in outs <=> e \in es BY DistinctKeys DEF outs
  <2>2. Out(e) \notin pdfs BY DistinctKeys DEF pdfs
  <2>3. Out(e) \notin pngs BY DistinctKeys DEF pngs
  <2>4. Out(e) \notin bins BY DistinctKeys DEF bins
  <2>5. Out(e) \notin cs BY <1>0, DistinctKeys
  <2> QED BY <2>1, <2>2, <2>3, <2>4, <2>5, <1>7
<1>5. ASSUME NEW k \in OwnKeys PROVE CopyOf(k) \in K <=> CopyOf(k) \in cs
  <2>1. CopyOf(k) \notin pdfs BY DistinctKeys DEF pdfs
  <2>2. CopyOf(k) \notin pngs BY DistinctKeys DEF pngs
  <2>3. CopyOf(k) \notin bins BY DistinctKeys DEF bins
  <2>4. CopyOf(k) \notin outs BY DistinctKeys DEF outs
  <2> QED BY <2>1, <2>2, <2>3, <2>4, <1>7
<1> QED BY <1>1, <1>2, <1>3, <1>4, <1>5, <1>6 DEF Consists

AwaitedByKind ==
  /\ \A u \in Uploads : Pdf(u) \in Awaited <=> job[<<u, 0>>] \in Early
  /\ \A j \in Revisions : Png(j) \in Awaited <=> AwaitedThumb(j)
  /\ \A a \in Attachments : Bin(a) \in Awaited <=> job[<<a, 0>>] \in Early \cup {"validated"}
  /\ \A e \in Exports : Out(e) \in Awaited <=> job[<<e, 0>>] \in {"none", "waiting", "built"}
  /\ \A k \in OwnKeys : CopyOf(k) \in Awaited <=> copy.phase # "over"
  /\ Awaited \subseteq Keys
LEMMA AwaitedKeys == AwaitedByKind
<1> DEFINE us == {v \in Uploads : job[<<v, 0>>] \in Early}
           js == {i \in Revisions : AwaitedThumb(i)}
           ats == {b \in Attachments : job[<<b, 0>>] \in Early \cup {"validated"}}
           es == {x \in Exports : job[<<x, 0>>] \in {"none", "waiting", "built"}}
           cs == IF copy.phase = "over" THEN {} ELSE {CopyOf(k) : k \in OwnKeys}
<1>1. Awaited = KeySet(us, js, ats, es, cs) BY DEF Awaited, Revisions, KeySet
<1>2. \A k \in OwnKeys : CopyOf(k) \in cs <=> copy.phase # "over" OBVIOUS
<1>3. /\ \A u \in Uploads : Pdf(u) \in Awaited <=> u \in us
      /\ \A j \in Revisions : Png(j) \in Awaited <=> j \in js
      /\ \A a \in Attachments : Bin(a) \in Awaited <=> a \in ats
      /\ \A e \in Exports : Out(e) \in Awaited <=> e \in es
      /\ \A k \in OwnKeys : CopyOf(k) \in Awaited <=> CopyOf(k) \in cs
      /\ Awaited \subseteq Keys
  <2>1. cs \subseteq {CopyOf(k) : k \in OwnKeys} OBVIOUS
  <2> HIDE DEF us, js, ats, es, cs
  <2>2. /\ us \subseteq Uploads /\ js \subseteq Revisions
        /\ ats \subseteq Attachments /\ es \subseteq Exports
    BY DEF us, js, ats, es
  <2>9. Consists(Awaited, us, js, ats, es, cs) BY <1>1, <2>1, <2>2, KeySets
  <2> QED BY <2>9 DEF Consists
<1> QED BY <1>2, <1>3 DEF AwaitedByKind

PromisedFile(x) == job[<<x, 0>>] = "received" \/ (job[<<x, 0>>] = "waiting" /\ Sent(x))
PromisedCopies == IF copy.phase \in {"copying", "copied"} THEN copy.done ELSE {}

PromisedByKind ==
  /\ \A u \in Uploads : Pdf(u) \in Promised <=> PromisedFile(u)
  /\ \A j \in Revisions : Png(j) \in Promised <=> job[j] = "drawn" /\ Owns(j)
  /\ \A a \in Attachments : Bin(a) \in Promised <=> PromisedFile(a) \/ job[<<a, 0>>] = "validated"
  /\ \A e \in Exports : Out(e) \in Promised <=> job[<<e, 0>>] = "built"
  /\ \A k \in OwnKeys : CopyOf(k) \in Promised <=> CopyOf(k) \in PromisedCopies
  /\ Promised \subseteq Keys
LEMMA PromisedKeys == CopiesKnown => PromisedByKind
<1> SUFFICES ASSUME CopiesKnown PROVE PromisedByKind OBVIOUS
<1> DEFINE us == {v \in Uploads : PromisedFile(v)}
           js == {i \in Revisions : job[i] = "drawn" /\ Owns(i)}
           ats == {b \in Attachments : PromisedFile(b) \/ job[<<b, 0>>] = "validated"}
           es == {x \in Exports : job[<<x, 0>>] = "built"}
<1>1. Promised = KeySet(us, js, ats, es, PromisedCopies)
  <2>1. {FileOf(x) : x \in {y \in Senders : PromisedFile(y)}}
          = {Pdf(u) : u \in us} \cup {Bin(a) : a \in {b \in Attachments : PromisedFile(b)}}
    BY SenderFiles
  <2>2. Promised = {FileOf(x) : x \in {y \in Senders : PromisedFile(y)}}
           \cup {Bin(a) : a \in {b \in Attachments : job[<<b, 0>>] = "validated"}}
           \cup {Png(j) : j \in js} \cup {Out(e) : e \in es} \cup PromisedCopies
    BY DEF Promised, PromisedFile, PromisedCopies, Revisions
  <2>3. {Bin(a) : a \in ats} = {Bin(a) : a \in {b \in Attachments : PromisedFile(b)}}
           \cup {Bin(a) : a \in {b \in Attachments : job[<<b, 0>>] = "validated"}}
    OBVIOUS
  <2> QED BY <2>1, <2>2, <2>3 DEF KeySet
<1>2. PromisedCopies \subseteq {CopyOf(k) : k \in OwnKeys} BY DEF PromisedCopies, CopiesKnown
<1>3. /\ \A u \in Uploads : Pdf(u) \in Promised <=> u \in us
      /\ \A j \in Revisions : Png(j) \in Promised <=> j \in js
      /\ \A a \in Attachments : Bin(a) \in Promised <=> a \in ats
      /\ \A e \in Exports : Out(e) \in Promised <=> e \in es
      /\ \A k \in OwnKeys : CopyOf(k) \in Promised <=> CopyOf(k) \in PromisedCopies
      /\ Promised \subseteq Keys
  <2> HIDE DEF us, js, ats, es
  <2>2. /\ us \subseteq Uploads /\ js \subseteq Revisions
        /\ ats \subseteq Attachments /\ es \subseteq Exports
    BY DEF us, js, ats, es
  <2>9. Consists(Promised, us, js, ats, es, PromisedCopies) BY <1>1, <1>2, <2>2, KeySets
  <2> QED BY <2>9 DEF Consists
<1> QED BY <1>3 DEF PromisedByKind

BegunByKind ==
  /\ \A u \in Uploads : Pdf(u) \in Begun <=> job[<<u, 0>>] # "none"
  /\ \A j \in Revisions : Png(j) \in Begun <=> job[j] # "none"
  /\ \A a \in Attachments : Bin(a) \in Begun <=> job[<<a, 0>>] # "none"
  /\ \A e \in Exports : Out(e) \in Begun <=> job[<<e, 0>>] # "none"
  /\ \A k \in OwnKeys : CopyOf(k) \in Begun <=> CopyOf(k) \in copy.done
  /\ Begun \subseteq Keys
LEMMA BegunKeys == CopiesKnown => BegunByKind
<1> SUFFICES ASSUME CopiesKnown PROVE BegunByKind OBVIOUS
<1> DEFINE us == {v \in Uploads : job[<<v, 0>>] # "none"}
           js == {i \in Revisions : job[i] # "none"}
           ats == {b \in Attachments : job[<<b, 0>>] # "none"}
           es == {x \in Exports : job[<<x, 0>>] # "none"}
<1>1. Begun = KeySet(us, js, ats, es, copy.done)
  <2>1. {FileOf(x) : x \in {y \in Senders : job[<<y, 0>>] # "none"}}
          = {Pdf(u) : u \in us} \cup {Bin(a) : a \in ats}
    BY SenderFiles
  <2> QED BY <2>1 DEF Begun, Revisions, KeySet
<1>2. copy.done \subseteq {CopyOf(k) : k \in OwnKeys} BY DEF CopiesKnown
<1>3. /\ \A u \in Uploads : Pdf(u) \in Begun <=> u \in us
      /\ \A j \in Revisions : Png(j) \in Begun <=> j \in js
      /\ \A a \in Attachments : Bin(a) \in Begun <=> a \in ats
      /\ \A e \in Exports : Out(e) \in Begun <=> e \in es
      /\ \A k \in OwnKeys : CopyOf(k) \in Begun <=> CopyOf(k) \in copy.done
      /\ Begun \subseteq Keys
  <2> HIDE DEF us, js, ats, es
  <2>2. /\ us \subseteq Uploads /\ js \subseteq Revisions
        /\ ats \subseteq Attachments /\ es \subseteq Exports
    BY DEF us, js, ats, es
  <2>9. Consists(Begun, us, js, ats, es, copy.done) BY <1>1, <1>2, <2>2, KeySets
  <2> QED BY <2>9 DEF Consists
<1> QED BY <1>3 DEF BegunByKind

ReferencedByKind ==
  /\ \A u \in Uploads : Pdf(u) \in Referenced <=> Row(u)
  /\ \A j \in Revisions : Png(j) \in Referenced <=>
       rev[j[1]].state = "ready" /\ rev[j[1]].run = j[2]
  /\ \A a \in Attachments : Bin(a) \in Referenced <=> att[a] # "none"
  /\ \A e \in Exports : Out(e) \in Referenced <=> art[e] # "none"
  /\ \A k \in OwnKeys : CopyOf(k) \in Referenced <=> CopyOf(k) \in tgt
  /\ Referenced \subseteq Keys
LEMMA ReferencedKeys == TypeOK /\ RowsFollowRuns /\ CopiesKnown => ReferencedByKind
<1> SUFFICES ASSUME TypeOK, RowsFollowRuns, CopiesKnown PROVE ReferencedByKind OBVIOUS
<1> DEFINE Readied == {j \in Revisions : rev[j[1]].state = "ready" /\ rev[j[1]].run = j[2]}
<1>1. UNION {RevisionKeys(rev, u) : u \in Uploads}
        = {Pdf(u) : u \in {v \in Uploads : Row(v)}} \cup {Png(j) : j \in Readied}
  <2>1. ASSUME NEW u \in Uploads, NEW k \in RevisionKeys(rev, u)
        PROVE  k \in {Pdf(v) : v \in {x \in Uploads : Row(x)}} \cup {Png(j) : j \in Readied}
    <3>1. Row(u) /\ rev[u] \in RevisionRows BY <2>1, FieldTypes DEF RevisionKeys, Row
    <3>2. CASE k = Pdf(u) BY <3>1, <3>2
    <3>3. CASE k # Pdf(u)
      <4>1. k \in rev[u].thumb BY <2>1, <3>3 DEF RevisionKeys
      <4>2. (rev[u].state # "ready" => rev[u].thumb = {})
              /\ (rev[u].state = "ready" => rev[u].thumb = {Png(<<u, rev[u].run>>)})
        BY <3>1 DEF RowsFollowRuns
      <4>4. rev[u].state = "ready" /\ k = Png(<<u, rev[u].run>>) BY <4>1, <4>2
      <4>3. <<u, rev[u].run>> \in Readied BY <3>1, <4>4 DEF Revisions, RevisionRows
      <4> QED BY <4>3, <4>4
    <3> QED BY <3>2, <3>3
  <2>2. ASSUME NEW u \in Uploads, Row(u) PROVE Pdf(u) \in RevisionKeys(rev, u)
    BY <2>2 DEF RevisionKeys, Row
  <2>3. ASSUME NEW j \in Readied PROVE j[1] \in Uploads /\ Png(j) \in RevisionKeys(rev, j[1])
    <3>1. PICK u \in Uploads, n \in 0..MaxRetries : j = <<u, n>> BY DEF Revisions
    <3>2. Row(u) BY <3>1, RowStates
    <3>3. rev[u].thumb = {Png(j)} BY <3>1, <3>2 DEF RowsFollowRuns
    <3> QED BY <3>1, <3>2, <3>3 DEF RevisionKeys, Row
  <2> QED BY <2>1, <2>2, <2>3
<1>2. AttachmentKeys(att) = {Bin(a) : a \in {b \in Attachments : att[b] # "none"}}
  BY DEF AttachmentKeys
<1>3. Referenced = {Pdf(u) : u \in {v \in Uploads : Row(v)}} \cup {Png(j) : j \in Readied}
                     \cup {Bin(a) : a \in {b \in Attachments : att[b] # "none"}}
                     \cup {Out(e) : e \in {x \in Exports : art[x] # "none"}} \cup tgt
  BY <1>1, <1>2 DEF Referenced, ItemKeys
<1>5. tgt \subseteq {CopyOf(k) : k \in OwnKeys} BY DEF CopiesKnown
<1>6. Consists(Referenced, {v \in Uploads : Row(v)}, Readied,
               {b \in Attachments : att[b] # "none"}, {x \in Exports : art[x] # "none"}, tgt)
  BY <1>3, <1>5, KeySets DEF KeySet
<1> QED BY <1>6 DEF Consists, ReferencedByKind

-------------------------------------------------------------------------------
(* What a step may do, one execution, request and row at a time.              *)

\* A phase that an execution enters and what it takes.
FileGoes(j) ==
  /\ job'[j] # "none"
  /\ job'[j] = "waiting" => job[j] = "none" /\ (j[1] \in Senders => ~Sent(j[1])')
  /\ job'[j] = "received" => job[j] = "waiting" /\ mail[j[1]] = "complete"
  /\ job'[j] = "validated" => job[j] = "received" /\ Bin(j[1]) \in store
  /\ job'[j] = "built" => job[j] = "waiting" /\ Out(j[1]) \in store'
FilesGo == \A j \in Jobs : job'[j] # job[j] => FileGoes(j)

\* The same of an inspection, while no row is processed by anyone new.
RunGoes(j) ==
  /\ job[j] = "none" => j[2] = 0
  /\ job'[j] \in {"reserved", "looked", "drawn"} => job[j] \in InspectionPhases
  /\ job'[j] \in {"looked", "drawn"} =>
       /\ job[j] \in {"reserved", "looked"}
       /\ Row(j[1]) /\ rev[j[1]].run = j[2] => rev[j[1]].state = "pending"
  /\ job'[j] = "drawn" => Png(j) \in store'
  /\ job'[j] \in {"published", "superseded"} => ~Owns(j)
  /\ job[j] \in {"clearing", "ended"} => job'[j] \in {"clearing", "ended"}
RunsGo == \A j \in Revisions : job'[j] # job[j] => RunGoes(j)
RowsStay == \A u \in Uploads : rev'[u] \in {rev[u], NoRow}

RequestsGo == \A x \in Senders : Sent(x)' =>
  \/ Sent(x) \/ FileOf(x) \in store'
  \/ job[<<x, 0>>] \notin {"none", "waiting"}

CopyGoes ==
  /\ copy.phase = "over" => copy'.phase = "over"
  /\ copy'.phase \in {"copying", "copied"} => copy'.done \subseteq PromisedCopies \cup store'
  /\ copy.done \subseteq copy'.done
NamesGo ==
  /\ \A a \in Attachments : att'[a] # "none" => att[a] # "none" \/ job[<<a, 0>>] = "validated"
  /\ \A e \in Exports : art'[e] # "none" => art[e] # "none" \/ job[<<e, 0>>] = "built"
  /\ tgt' \subseteq tgt \cup PromisedCopies

\* What every step does to the rows and to what their executions may name.
RowsMove ==
  /\ RowsFollowRuns' /\ RunsFollowRows'
  /\ \A j \in Revisions :
       /\ AwaitedThumb(j)' => AwaitedThumb(j)
       /\ job'[j] = "drawn" /\ Owns(j)' => (job[j] = "drawn" /\ Owns(j)) \/ Png(j) \in store'
       /\ rev'[j[1]].state = "ready" /\ rev'[j[1]].run = j[2] =>
            \/ rev[j[1]].state = "ready" /\ rev[j[1]].run = j[2]
            \/ job[j] = "drawn" /\ Owns(j)
  /\ \A u \in Uploads : Row(u)' => Row(u) \/ job[<<u, 0>>] = "received"

KeysMove ==
  /\ Awaited' \subseteq Awaited
  /\ Promised' \subseteq Promised \cup store'
  /\ Referenced' \subseteq Referenced \cup Promised
  /\ Begun \subseteq Begun'

NewSweeps == \A s \in sweep' \ sweep :
  s.key \notin Awaited' /\ (s.phase = "doomed" => s.key \notin Referenced')
StoreMoves ==
  /\ \A k \in store \ store' : k \notin Referenced' \cup Promised'
  /\ \A k \in store' \ store : k \in Begun'

-------------------------------------------------------------------------------
(* What the invariant says of keys.                                           *)

LEMMA KindsHold ==
  ASSUME IInv PROVE AwaitedByKind /\ PromisedByKind /\ BegunByKind /\ ReferencedByKind
BY AwaitedKeys, PromisedKeys, BegunKeys, ReferencedKeys DEF IInv, CopyInv, RunsInv

LEMMA KindsNext ==
  ASSUME TypeOK', RowsFollowRuns', CopiesKnown'
  PROVE  (AwaitedByKind /\ PromisedByKind /\ BegunByKind /\ ReferencedByKind)'
BY AwaitedKeys, PromisedKeys, BegunKeys, ReferencedKeys, PTL

LEMMA ByKinds ==
  ASSUME NEW K \in SUBSET Keys, NEW L,
         \A u \in Uploads : Pdf(u) \in K => Pdf(u) \in L,
         \A j \in Revisions : Png(j) \in K => Png(j) \in L,
         \A a \in Attachments : Bin(a) \in K => Bin(a) \in L,
         \A e \in Exports : Out(e) \in K => Out(e) \in L,
         \A k \in OwnKeys : CopyOf(k) \in K => CopyOf(k) \in L
  PROVE  K \subseteq L
<1> SUFFICES ASSUME NEW k \in K PROVE k \in L OBVIOUS
<1> QED BY KeyCases

LEMMA RevisionPairs == \A j \in Revisions :
  /\ j = <<j[1], j[2]>> /\ j[1] \in Uploads /\ j[2] \in 0..MaxRetries /\ j[2] \in Nat
  /\ j \in Jobs /\ <<j[1], 0>> \in Jobs /\ <<j[1], 0>> \in Revisions
BY DEF Revisions, Jobs

\* What is promised is still awaited.
LEMMA PromisedAreAwaited == IInv => Promised \subseteq Awaited
<1> SUFFICES ASSUME IInv PROVE Promised \subseteq Awaited OBVIOUS
<1>1. AwaitedByKind /\ PromisedByKind BY KindsHold
<1>2. \A x \in Senders : PromisedFile(x) => job[<<x, 0>>] \in Early BY DEF PromisedFile, Early
<1>3. \A u \in Uploads : Pdf(u) \in Promised => Pdf(u) \in Awaited
  BY <1>1, <1>2, SenderFiles DEF AwaitedByKind, PromisedByKind
<1>4. \A j \in Revisions : Png(j) \in Promised => Png(j) \in Awaited
  BY <1>1 DEF AwaitedByKind, PromisedByKind, AwaitedThumb
<1>5. \A a \in Attachments : Bin(a) \in Promised => Bin(a) \in Awaited
  BY <1>1, <1>2, SenderFiles DEF AwaitedByKind, PromisedByKind
<1>6. \A e \in Exports : Out(e) \in Promised => Out(e) \in Awaited
  BY <1>1 DEF AwaitedByKind, PromisedByKind
<1>7. \A k \in OwnKeys : CopyOf(k) \in Promised => CopyOf(k) \in Awaited
  BY <1>1 DEF AwaitedByKind, PromisedByKind, PromisedCopies
<1>8. Promised \in SUBSET Keys BY <1>1 DEF PromisedByKind
<1> QED BY <1>3, <1>4, <1>5, <1>6, <1>7, <1>8, ByKinds

\* What a row names is no longer awaited.
LEMMA NamedIsOver == IInv => \A k \in Referenced : k \notin Awaited
<1> SUFFICES ASSUME IInv PROVE \A k \in Referenced : k \notin Awaited OBVIOUS
<1>1. AwaitedByKind /\ ReferencedByKind BY KindsHold
<1>2. RowsFollowRuns /\ OutputsFollow /\ TypeOK BY DEF IInv, RunsInv
<1>3. ASSUME NEW u \in Uploads, Pdf(u) \in Referenced PROVE Pdf(u) \notin Awaited
  BY <1>1, <1>2, <1>3 DEF AwaitedByKind, ReferencedByKind, RowsFollowRuns
<1>4. ASSUME NEW j \in Revisions, Png(j) \in Referenced PROVE Png(j) \notin Awaited
  <2>1. rev[j[1]].state = "ready" /\ rev[j[1]].run = j[2]
    BY <1>1, <1>4 DEF ReferencedByKind
  <2>2. Row(j[1]) BY <1>2, <2>1, RevisionPairs, RowStates
  <2>3. job[<<j[1], 0>>] \notin Early BY <1>2, <2>2, RevisionPairs DEF RowsFollowRuns
  <2>4. ~AwaitedThumb(j) BY <2>1, <2>3, RevisionPairs DEF AwaitedThumb, Owns
  <2> QED BY <1>1, <2>4 DEF AwaitedByKind
<1>5. ASSUME NEW a \in Attachments, Bin(a) \in Referenced PROVE Bin(a) \notin Awaited
  <2>1. job[<<a, 0>>] \notin Early \cup {"validated"}
    BY <1>1, <1>2, <1>5 DEF ReferencedByKind, OutputsFollow
  <2> QED BY <1>1, <2>1 DEF AwaitedByKind, Early
<1>6. ASSUME NEW e \in Exports, Out(e) \in Referenced PROVE Out(e) \notin Awaited
  BY <1>1, <1>2, <1>6 DEF AwaitedByKind, ReferencedByKind, OutputsFollow
<1>7. ASSUME NEW k \in OwnKeys, CopyOf(k) \in Referenced PROVE CopyOf(k) \notin Awaited
  BY <1>1, <1>2, <1>7 DEF AwaitedByKind, ReferencedByKind, OutputsFollow
<1>8. Referenced \subseteq Keys BY <1>1 DEF ReferencedByKind
<1> QED BY <1>3, <1>4, <1>5, <1>6, <1>7, <1>8, KeyCases

\* Nor are the keys of an execution that is past naming them.
Past == {"published", "superseded", "failing", "clearing", "ended", "recorded"}
PastOver == \A j \in Jobs : job[j] \in Past => \A k \in Reserves(j) : k \notin Awaited
LEMMA PastIsOver == TypeOK /\ RunsInv => PastOver
<1> SUFFICES ASSUME TypeOK, RunsInv, NEW j \in Jobs, job[j] \in Past, NEW k \in Reserves(j)
             PROVE  k \notin Awaited
  BY DEF PastOver
<1>1. AwaitedByKind BY AwaitedKeys
<1>2. RowsFollowRuns /\ RunsFollowRows BY DEF RunsInv
<1>3. job[j] \notin Early \cup {"none", "waiting", "built", "validated"}
      /\ job[j] \notin {"reserved", "looked", "drawn"} BY DEF Past, Early
<1>4. CASE j[1] \in Uploads
  <2>1. j \in Revisions BY <1>4 DEF Jobs, Revisions
  <2>2. job[<<j[1], 0>>] \notin Early
    <3>1. PICK n \in 0..MaxRetries : j = <<j[1], n>> BY <2>1, RevisionPairs
    <3>2. CASE n = 0
      <4>1. job[j] \notin Early BY <1>3
      <4> QED BY <3>1, <3>2, <4>1
    <3>3. CASE n # 0
      <4>1. n > 0 BY <3>3
      <4>2. job[<<j[1], n>>] # "none" BY <1>3, <3>1 DEF Early
      <4> QED BY <1>2, <1>4, <4>1, <4>2 DEF RunsFollowRows
    <3> QED BY <3>2, <3>3
  <2>3. ~AwaitedThumb(j)
    <3>1. Row(j[1]) /\ rev[j[1]].run < j[2] => job[j] = "none"
      <4>1. PICK n \in 0..MaxRetries : j = <<j[1], n>> /\ n = j[2] BY <2>1, RevisionPairs
      <4>2. Row(j[1]) => (n > rev[j[1]].run => job[<<j[1], n>>] = "none")
        BY <1>2, <1>4 DEF RowsFollowRuns
      <4>3. Row(j[1]) => rev[j[1]].run \in Nat BY <1>4, RunNumbers
      <4>4. Row(j[1]) /\ rev[j[1]].run < n => job[<<j[1], n>>] = "none" BY <4>2, <4>3
      <4> QED BY <4>1, <4>4
    <3> QED BY <1>3, <2>2, <3>1 DEF AwaitedThumb
  <2>4. k \in {Pdf(j[1]), Png(j)} BY <1>4 DEF Reserves
  <2> QED BY <1>1, <1>4, <2>1, <2>2, <2>3, <2>4 DEF AwaitedByKind
<1>5. CASE j[1] \in Attachments
  <2>1. k = Bin(j[1]) /\ j = <<j[1], 0>> BY <1>5 DEF Reserves, Jobs
  <2> QED BY <1>1, <1>3, <1>5, <2>1 DEF AwaitedByKind
<1>6. CASE j[1] \in Exports
  <2>1. k = Out(j[1]) /\ j = <<j[1], 0>> BY <1>6 DEF Reserves, Jobs
  <2> QED BY <1>1, <1>3, <1>6, <2>1 DEF AwaitedByKind
<1> QED BY <1>4, <1>5, <1>6 DEF Jobs

-------------------------------------------------------------------------------
(* From what a step does to executions and rows to what it does to keys.      *)

LEMMA KeysMoveOn ==
  ASSUME IInv, TypeOK', CopiesKnown', RowsMove, FilesGo, RequestsGo, CopyGoes, NamesGo
  PROVE  KeysMove
<1>1. AwaitedByKind /\ PromisedByKind /\ BegunByKind /\ ReferencedByKind BY KindsHold
<1>2. RowsFollowRuns' BY DEF RowsMove
<1>3. (AwaitedByKind /\ PromisedByKind /\ BegunByKind /\ ReferencedByKind)'
  BY <1>2, KindsNext
<1>4. \A x \in Senders : job'[<<x, 0>>] \in Early => job[<<x, 0>>] \in Early
  BY JobKinds DEF FilesGo, FileGoes, Early
<1>5. Awaited' \subseteq Awaited
  <2>1. \A u \in Uploads : Pdf(u) \in Awaited' => Pdf(u) \in Awaited
    BY <1>1, <1>3, <1>4, SenderFiles DEF AwaitedByKind
  <2>2. \A j \in Revisions : Png(j) \in Awaited' => Png(j) \in Awaited
    BY <1>1, <1>3 DEF AwaitedByKind, RowsMove
  <2>3. ASSUME NEW a \in Attachments, Bin(a) \in Awaited' PROVE Bin(a) \in Awaited
    <3>1. job'[<<a, 0>>] \in Early \cup {"validated"} BY <1>3, <2>3 DEF AwaitedByKind
    <3>2. job[<<a, 0>>] \in Early \cup {"validated"}
      BY <3>1, SenderFiles, JobKinds DEF FilesGo, FileGoes, Early
    <3> QED BY <1>1, <3>2 DEF AwaitedByKind
  <2>4. ASSUME NEW e \in Exports, Out(e) \in Awaited' PROVE Out(e) \in Awaited
    <3>1. job'[<<e, 0>>] \in {"none", "waiting", "built"} BY <1>3, <2>4 DEF AwaitedByKind
    <3>2. job[<<e, 0>>] \in {"none", "waiting", "built"} BY <3>1, JobKinds DEF FilesGo, FileGoes
    <3> QED BY <1>1, <3>2 DEF AwaitedByKind
  <2>5. \A k \in OwnKeys : CopyOf(k) \in Awaited' => CopyOf(k) \in Awaited
    BY <1>1, <1>3 DEF AwaitedByKind, CopyGoes
  <2>6. Awaited' \in SUBSET Keys BY <1>3 DEF AwaitedByKind, Keys, OwnKeys
  <2> QED BY <2>1, <2>2, <2>3, <2>4, <2>5, <2>6, ByKinds
<1>6. Promised' \subseteq Promised \cup store'
  <2> DEFINE L == Promised \cup store'
  <2>0. ASSUME NEW x \in Senders, PromisedFile(x)'
        PROVE  PromisedFile(x) \/ FileOf(x) \in store'
    <3>1. <<x, 0>> \in Jobs BY JobKinds
    <3>2. CASE job'[<<x, 0>>] = "received"
      <4>1. job[<<x, 0>>] = "received" \/ (job[<<x, 0>>] = "waiting" /\ mail[x] = "complete")
        BY <3>1, <3>2 DEF FilesGo, FileGoes
      <4> QED BY <4>1 DEF PromisedFile, Sent
    <3>3. CASE job'[<<x, 0>>] = "waiting" /\ Sent(x)'
      <4>1. job[<<x, 0>>] = "waiting" BY <3>1, <3>3 DEF FilesGo, FileGoes
      <4>2. Sent(x) \/ FileOf(x) \in store' BY <3>3, <4>1 DEF RequestsGo
      <4> QED BY <4>1, <4>2 DEF PromisedFile
    <3> QED BY <2>0, <3>2, <3>3 DEF PromisedFile
  <2>1. \A u \in Uploads : Pdf(u) \in Promised' => Pdf(u) \in L
    BY <1>1, <1>3, <2>0, SenderFiles DEF PromisedByKind
  <2>2. \A j \in Revisions : Png(j) \in Promised' => Png(j) \in L
    BY <1>1, <1>3 DEF PromisedByKind, RowsMove
  <2>3. ASSUME NEW a \in Attachments, Bin(a) \in Promised' PROVE Bin(a) \in L
    <3>1. PromisedFile(a)' \/ job'[<<a, 0>>] = "validated" BY <1>3, <2>3 DEF PromisedByKind
    <3>2. CASE PromisedFile(a)' BY <1>1, <2>0, <3>2, SenderFiles DEF PromisedByKind
    <3>3. CASE job'[<<a, 0>>] = "validated"
      <4>1. job[<<a, 0>>] = "validated" \/ job[<<a, 0>>] = "received"
        BY <3>3, SenderFiles, JobKinds DEF FilesGo, FileGoes
      <4> QED BY <1>1, <4>1 DEF PromisedByKind, PromisedFile
    <3> QED BY <3>1, <3>2, <3>3
  <2>4. ASSUME NEW e \in Exports, Out(e) \in Promised' PROVE Out(e) \in L
    <3>1. job'[<<e, 0>>] = "built" BY <1>3, <2>4 DEF PromisedByKind
    <3>2. job[<<e, 0>>] = "built" \/ Out(e) \in store' BY <3>1, JobKinds DEF FilesGo, FileGoes
    <3> QED BY <1>1, <3>2 DEF PromisedByKind
  <2>5. \A k \in OwnKeys : CopyOf(k) \in Promised' => CopyOf(k) \in L
    BY <1>1, <1>3 DEF PromisedByKind, CopyGoes, PromisedCopies
  <2>6. Promised' \in SUBSET Keys BY <1>3 DEF PromisedByKind, Keys, OwnKeys
  <2> HIDE DEF L
  <2>7. Promised' \subseteq L BY <2>1, <2>2, <2>3, <2>4, <2>5, <2>6, ByKinds
  <2> QED BY <2>7 DEF L
<1>7. Referenced' \subseteq Referenced \cup Promised
  <2> DEFINE L == Referenced \cup Promised
  <2>1. \A u \in Uploads : Pdf(u) \in Referenced' => Pdf(u) \in L
    BY <1>1, <1>3 DEF ReferencedByKind, PromisedByKind, PromisedFile, RowsMove
  <2>2. \A j \in Revisions : Png(j) \in Referenced' => Png(j) \in L
    BY <1>1, <1>3 DEF ReferencedByKind, PromisedByKind, RowsMove
  <2>3. \A a \in Attachments : Bin(a) \in Referenced' => Bin(a) \in L
    BY <1>1, <1>3 DEF ReferencedByKind, PromisedByKind, NamesGo
  <2>4. \A e \in Exports : Out(e) \in Referenced' => Out(e) \in L
    BY <1>1, <1>3 DEF ReferencedByKind, PromisedByKind, NamesGo
  <2>5. \A k \in OwnKeys : CopyOf(k) \in Referenced' => CopyOf(k) \in L
    BY <1>1, <1>3 DEF ReferencedByKind, PromisedByKind, NamesGo
  <2>6. Referenced' \in SUBSET Keys BY <1>3 DEF ReferencedByKind, Keys, OwnKeys
  <2> HIDE DEF L
  <2>7. Referenced' \subseteq L BY <2>1, <2>2, <2>3, <2>4, <2>5, <2>6, ByKinds
  <2> QED BY <2>7 DEF L
<1>8. Begun \subseteq Begun'
  <2>0. \A j \in Jobs : job[j] # "none" => job'[j] # "none" BY DEF FilesGo, FileGoes
  <2>1. \A u \in Uploads : Pdf(u) \in Begun => Pdf(u) \in Begun'
    BY <1>1, <1>3, <2>0, SenderFiles, JobKinds DEF BegunByKind
  <2>2. \A j \in Revisions : Png(j) \in Begun => Png(j) \in Begun'
    BY <1>1, <1>3, <2>0, RevisionPairs DEF BegunByKind
  <2>3. \A a \in Attachments : Bin(a) \in Begun => Bin(a) \in Begun'
    BY <1>1, <1>3, <2>0, SenderFiles, JobKinds DEF BegunByKind
  <2>4. \A e \in Exports : Out(e) \in Begun => Out(e) \in Begun'
    BY <1>1, <1>3, <2>0, JobKinds DEF BegunByKind
  <2>5. \A k \in OwnKeys : CopyOf(k) \in Begun => CopyOf(k) \in Begun'
    BY <1>1, <1>3 DEF BegunByKind, CopyGoes
  <2>6. Begun \in SUBSET Keys BY <1>1 DEF BegunByKind
  <2> QED BY <2>1, <2>2, <2>3, <2>4, <2>5, <2>6, ByKinds
<1> QED BY <1>5, <1>6, <1>7, <1>8 DEF KeysMove

\* A step of which this is so, and that neither removes an object a row may
\* name nor asks for one to be removed, keeps the invariant.
LEMMA ObjectsStayNamed ==
  ASSUME IInv, TypeOK', RunsInv', CopyInv', KeysMove, StoreMoves, NewSweeps
  PROVE  IInv'
<1>1. Promised \subseteq Awaited /\ \A k \in Referenced : k \notin Awaited
  BY PromisedAreAwaited, NamedIsOver
<1>2. StoreInv /\ SweptIsOver BY DEF IInv
<1>3. NamedIsStored' BY <1>2 DEF StoreInv, NamedIsStored, KeysMove, StoreMoves
<1>4. (Promised \subseteq store)' BY <1>2 DEF StoreInv, KeysMove, StoreMoves
<1>5. (store \subseteq Begun)' BY <1>2 DEF StoreInv, KeysMove, StoreMoves
<1>6. SweptIsOver'
  <2> SUFFICES ASSUME NEW s \in sweep'
               PROVE  s.key \notin Awaited' /\ (s.phase = "doomed" => s.key \notin Referenced')
    BY DEF SweptIsOver
  <2>1. CASE s \in sweep
    <3>1. s.key \notin Awaited /\ (s.phase = "doomed" => s.key \notin Referenced)
      BY <1>2, <2>1 DEF SweptIsOver
    <3> QED BY <1>1, <3>1 DEF KeysMove
  <2>2. CASE s \notin sweep BY <2>2 DEF NewSweeps
  <2> QED BY <2>1, <2>2
<1> QED BY <1>3, <1>4, <1>5, <1>6 DEF IInv, StoreInv

-------------------------------------------------------------------------------
(* Steps that leave each row as it is, or delete it.                          *)

LEMMA RowsStayOn ==
  ASSUME IInv, TypeOK', RowsStay, FilesGo, RunsGo PROVE RowsMove
<1>0. TypeOK /\ RowsFollowRuns /\ RunsFollowRows BY DEF IInv, RunsInv
<1>1. \A u \in Uploads : Row(u)' => Row(u) /\ rev'[u] = rev[u] BY DEF RowsStay, Row
<1>2. \A j \in Revisions : Owns(j)' => Owns(j) /\ rev'[j[1]] = rev[j[1]]
  BY RevisionPairs, NoRowTypes DEF RowsStay, Owns
<1>3. \A u \in Uploads : job'[<<u, 0>>] \in Early => job[<<u, 0>>] \in Early
  BY JobKinds, SenderFiles DEF FilesGo, FileGoes, Early
<1>4. ASSUME NEW u \in Uploads, NEW n \in 0..MaxRetries
      PROVE  /\ <<u, n>> \in Revisions /\ <<u, n>>[1] = u /\ <<u, n>>[2] = n
             /\ Png(<<u, n>>) = Png(<<u, n>>) /\ n \in Nat
  BY DEF Revisions
<1>5. RowsFollowRuns'
  <2> SUFFICES ASSUME NEW u \in Uploads, Row(u)'
               PROVE  /\ job'[<<u, 0>>] \notin Early
                      /\ rev'[u].state # "ready" => rev'[u].thumb = {}
                      /\ rev'[u].state = "ready" => rev'[u].thumb = {Png(<<u, rev'[u].run>>)}
                      /\ rev'[u].state = "failed" =>
                           job'[<<u, rev'[u].run>>] \in {"clearing", "ended"}
                      /\ \A n \in 0..MaxRetries : n > rev'[u].run => job'[<<u, n>>] = "none"
    BY DEF RowsFollowRuns, Png
  <2>1. Row(u) /\ rev'[u] = rev[u] BY <1>1
  <2>2. /\ job[<<u, 0>>] \notin Early
        /\ rev[u].state # "ready" => rev[u].thumb = {}
        /\ rev[u].state = "ready" => rev[u].thumb = {Png(<<u, rev[u].run>>)}
        /\ rev[u].state = "failed" => job[<<u, rev[u].run>>] \in {"clearing", "ended"}
        /\ \A n \in 0..MaxRetries : n > rev[u].run => job[<<u, n>>] = "none"
    BY <1>0, <2>1 DEF RowsFollowRuns
  <2>3. rev[u].run \in 0..MaxRetries /\ rev[u].run \in Nat BY <1>0, <2>1, RunNumbers
  <2>4. rev[u].state = "failed" => job'[<<u, rev[u].run>>] \in {"clearing", "ended"}
    BY <1>4, <2>2, <2>3 DEF RunsGo, RunGoes
  <2>5. ASSUME NEW n \in 0..MaxRetries, n > rev[u].run PROVE job'[<<u, n>>] = "none"
    <3>1. job[<<u, n>>] = "none" /\ n # 0 BY <2>2, <2>3, <2>5
    <3> QED BY <1>4, <3>1 DEF RunsGo, RunGoes
  <2> QED BY <1>3, <2>1, <2>2, <2>4, <2>5
<1>6. RunsFollowRows'
  <2> SUFFICES ASSUME NEW u \in Uploads, NEW n \in 0..MaxRetries
               PROVE  /\ n > 0 /\ job'[<<u, n>>] # "none" => job'[<<u, 0>>] \notin Early
                      /\ job'[<<u, n>>] \in {"published", "superseded"} => ~Owns(<<u, n>>)'
                      /\ job'[<<u, n>>] \in {"looked", "drawn"} /\ Row(u)' /\ rev'[u].run = n =>
                           rev'[u].state = "pending"
    BY DEF RunsFollowRows, Owns
  <2>1. /\ n > 0 /\ job[<<u, n>>] # "none" => job[<<u, 0>>] \notin Early
        /\ job[<<u, n>>] \in {"published", "superseded"} => ~Owns(<<u, n>>)
        /\ job[<<u, n>>] \in {"looked", "drawn"} /\ Row(u) /\ rev[u].run = n =>
             rev[u].state = "pending"
    BY <1>0 DEF RunsFollowRows
  <2>2. job'[<<u, n>>] # "none" /\ n > 0 => job[<<u, n>>] # "none" BY <1>4 DEF RunsGo, RunGoes
  <2>3. job'[<<u, n>>] \in {"published", "superseded"} => ~Owns(<<u, n>>)
    BY <1>4, <2>1 DEF RunsGo, RunGoes
  <2>4. job'[<<u, n>>] \in {"looked", "drawn"} /\ Row(u) /\ rev[u].run = n =>
          rev[u].state = "pending"
    BY <1>4, <2>1 DEF RunsGo, RunGoes
  <2>5. Owns(<<u, n>>)' => Owns(<<u, n>>) BY <1>2, <1>4
  <2> QED BY <1>1, <1>3, <2>1, <2>2, <2>3, <2>4, <2>5
<1>7. ASSUME NEW j \in Revisions
      PROVE  /\ AwaitedThumb(j)' => AwaitedThumb(j)
             /\ job'[j] = "drawn" /\ Owns(j)' => (job[j] = "drawn" /\ Owns(j)) \/ Png(j) \in store'
             /\ rev'[j[1]].state = "ready" /\ rev'[j[1]].run = j[2] =>
                  rev[j[1]].state = "ready" /\ rev[j[1]].run = j[2]
  <2>1. j[1] \in Uploads BY RevisionPairs
  <2>2. Owns(j) => job[j] \notin {"published", "superseded"}
    <3>1. PICK u \in Uploads, n \in 0..MaxRetries : j = <<u, n>> BY DEF Revisions
    <3> QED BY <1>0, <3>1 DEF RunsFollowRows
  <2>3. Owns(j)' /\ job'[j] \in {"reserved", "looked", "drawn"} =>
          Owns(j) /\ job[j] \in {"reserved", "looked", "drawn"}
    BY <1>2, <2>2 DEF RunsGo, RunGoes, InspectionPhases
  <2>4. AwaitedThumb(j)' => AwaitedThumb(j) BY <1>1, <1>3, <2>1, <2>3 DEF AwaitedThumb
  <2>5. job'[j] = "drawn" /\ Owns(j)' => (job[j] = "drawn" /\ Owns(j)) \/ Png(j) \in store'
    BY <1>2 DEF RunsGo, RunGoes
  <2>6. rev'[j[1]].state = "ready" => rev'[j[1]] = rev[j[1]] BY <2>1, NoRowTypes DEF RowsStay
  <2> QED BY <2>4, <2>5, <2>6
<1> QED BY <1>1, <1>5, <1>6, <1>7 DEF RowsMove

-------------------------------------------------------------------------------
(* Steps of one execution.                                                    *)

LEMMA CopyStays ==
  ASSUME IInv, copy' = copy, tgt' = tgt PROVE CopyInv' /\ CopiesKnown' /\ CopyGoes
<1>1. CopyInv BY DEF IInv
<1>2. SnapshotKeys' = SnapshotKeys BY DEF SnapshotKeys, RevisionKeys, AttachmentKeys
<1>3. CopyInv' BY <1>1, <1>2 DEF CopyInv, CopiesKnown
<1>4. CopyGoes BY DEF CopyGoes, PromisedCopies
<1> QED BY <1>3, <1>4 DEF CopyInv

Running == {"looked", "drawn", "published", "superseded"}

\* An execution moves on; rows and copies stay.
LEMMA RunMovesOn ==
  ASSUME IInv, TypeOK', UNCHANGED <<docs, http, mail, copy>>, NEW j \in Jobs, NEW q \in Phases,
         Becomes(j, q), FileGoes(j), j \in Revisions => RunGoes(j),
         job[j] # "ended", job[j] = "none" => j[1] \in Exports,
         dead' \subseteq dead,
         j \in dead' /\ job[j] \in Running => q \in Running
  PROVE  RunsInv' /\ CopyInv' /\ KeysMove
<1>0. TypeOK /\ RunsInv BY DEF IInv
<1>1. job'[j] = q /\ \A i \in Jobs : i # j => job'[i] = job[i] BY <1>0, JobMoves
<1>2. FilesGo BY <1>1 DEF FilesGo
<1>3. RunsGo BY <1>1, RevisionPairs DEF RunsGo
<1>4. RowsMove BY <1>2, <1>3, RowsStayOn DEF RowsStay, docs
<1>5. CopyInv' /\ CopiesKnown' /\ CopyGoes BY CopyStays DEF docs
<1>6. NamesGo /\ RequestsGo BY DEF NamesGo, RequestsGo, Sent, docs
<1>7. KeysMove BY <1>2, <1>4, <1>5, <1>6, KeysMoveOn
<1>8. RequestsFollow'
  <2>1. ASSUME NEW x \in Senders
        PROVE  /\ http'[x] = "none" <=> job'[<<x, 0>>] = "none"
               /\ http'[x] = "none" => mail'[x] # "complete"
    <3>1. <<x, 0>> \in Jobs /\ x \notin Exports BY JobKinds DEF Senders
    <3>2. job'[<<x, 0>>] = "none" <=> job[<<x, 0>>] = "none"
      BY <1>1, <1>2, <3>1 DEF FilesGo, FileGoes
    <3> QED BY <1>0, <3>2 DEF RunsInv, RequestsFollow
  <2> QED BY <2>1 DEF RequestsFollow
<1>9. OutputsFollow'
  <2>1. \A a \in Attachments : att'[a] # "none" => job'[<<a, 0>>] \notin Early \cup {"validated"}
    BY <1>0, <1>2, SenderFiles, JobKinds
    DEF RunsInv, OutputsFollow, FilesGo, FileGoes, Early, docs
  <2>2. \A e \in Exports : art'[e] # "none" => job'[<<e, 0>>] \notin {"none", "waiting", "built"}
    BY <1>0, <1>2, JobKinds DEF RunsInv, OutputsFollow, FilesGo, FileGoes, docs
  <2>3. tgt' # {} => copy'.phase = "over" BY <1>0 DEF RunsInv, OutputsFollow, docs
  <2> QED BY <2>1, <2>2, <2>3 DEF OutputsFollow
<1>10. DeadIsRunning'
  BY <1>0, <1>1 DEF TypeOK, RunsInv, DeadIsRunning, Running
<1> QED BY <1>4, <1>5, <1>7, <1>8, <1>9, <1>10 DEF RunsInv, RowsMove

LEMMA StoreStays == store' = store => StoreMoves
BY DEF StoreMoves

LEMMA StoreGrows ==
  ASSUME NEW k, store' \in {store, store \cup {k}}, k \in Begun' PROVE StoreMoves
BY DEF StoreMoves

LEMMA NoNewSweeps == sweep' \subseteq sweep => NewSweeps
BY DEF NewSweeps

\* An execution that is past naming its objects asks for them.
LEMMA PastAsks ==
  ASSUME TypeOK', RunsInv', NEW j \in Jobs, job'[j] \in Past,
         NEW keys \in SUBSET Reserves(j), NEW by,
         sweep' \subseteq sweep \cup Ask(keys, by)
  PROVE  NewSweeps
<1>1. \A k \in Reserves(j) : k \notin Awaited'
  <2>1. (TypeOK /\ RunsInv => PastOver)' BY PastIsOver, PTL
  <2> QED BY <2>1 DEF PastOver
<1>2. \A s \in Ask(keys, by) : s.key \in keys /\ s.phase = "asked" BY DEF Ask
<1> QED BY <1>1, <1>2 DEF NewSweeps

LEMMA SenderSteps ==
  ASSUME IInv, TypeOK', NEW x \in Senders, Receive(x) \/ Abandon(x) PROVE IInv'
<1>0. <<x, 0>> \in Jobs /\ <<x, 0>>[1] = x /\ <<x, 0>>[2] = 0 BY JobKinds
<1>1. TypeOK BY DEF IInv
<1>2. CASE Receive(x)
  <2>1. job'[<<x, 0>>] = "received" BY <1>0, <1>1, <1>2, JobMoves DEF Receive, Phases
  <2>2. FileGoes(<<x, 0>>) BY <1>0, <1>2, <2>1 DEF Receive, FileGoes
  <2>3. RunGoes(<<x, 0>>) BY <1>0, <1>2, <2>1 DEF Receive, RunGoes
  <2>4. RunsInv' /\ CopyInv' /\ KeysMove
    BY <1>0, <1>2, <2>2, <2>3, RunMovesOn DEF Receive, Phases, Running
  <2>5. StoreMoves /\ NewSweeps BY <1>2, StoreStays, NoNewSweeps DEF Receive
  <2> QED BY <2>4, <2>5, ObjectsStayNamed
<1>3. CASE Abandon(x)
  <2>1. job'[<<x, 0>>] = "clearing" BY <1>0, <1>1, <1>3, JobMoves DEF Abandon, Phases
  <2>2. FileGoes(<<x, 0>>) BY <1>0, <1>3, <2>1 DEF Abandon, FileGoes
  <2>3. RunGoes(<<x, 0>>) BY <1>0, <1>3, <2>1 DEF Abandon, RunGoes
  <2>4. RunsInv' /\ CopyInv' /\ KeysMove
    BY <1>0, <1>3, <2>2, <2>3, RunMovesOn DEF Abandon, Phases, Running
  <2>5. StoreMoves BY <1>3, StoreStays DEF Abandon
  <2>6. NewSweeps BY <1>0, <1>3, <2>1, <2>4, PastAsks DEF Abandon, Asks, Past
  <2> QED BY <2>4, <2>5, <2>6, ObjectsStayNamed
<1> QED BY <1>2, <1>3

LEMMA RunFacts ==
  ASSUME IInv, NEW j \in Revisions
  PROVE  /\ job[j] \in {"looked", "drawn"} /\ Row(j[1]) /\ rev[j[1]].run = j[2] =>
              rev[j[1]].state = "pending"
         /\ job[j] \in {"published", "superseded"} => ~Owns(j)
         /\ Row(j[1]) /\ rev[j[1]].run = j[2] /\ rev[j[1]].state = "failed" =>
              job[j] \in {"clearing", "ended"}
         /\ Row(j[1]) /\ job[j] # "none" => j[2] <= rev[j[1]].run
<1>1. PICK u \in Uploads, n \in 0..MaxRetries : j = <<u, n>> BY DEF Revisions
<1>2. TypeOK /\ RowsFollowRuns /\ RunsFollowRows BY DEF IInv, RunsInv
<1>3. /\ job[<<u, n>>] \in {"published", "superseded"} => ~Owns(<<u, n>>)
      /\ job[<<u, n>>] \in {"looked", "drawn"} /\ Row(u) /\ rev[u].run = n =>
           rev[u].state = "pending"
  BY <1>2 DEF RunsFollowRows
<1>4. ASSUME Row(u) PROVE n > rev[u].run => job[<<u, n>>] = "none"
  BY <1>2, <1>4 DEF RowsFollowRuns
<1>5. Row(u) /\ rev[u].state = "failed" => job[<<u, rev[u].run>>] \in {"clearing", "ended"}
  BY <1>2 DEF RowsFollowRuns
<1>6. Row(u) => rev[u].run \in Nat BY <1>2, RunNumbers
<1>7. n \in Nat OBVIOUS
<1>8. Row(u) /\ job[<<u, n>>] # "none" => n <= rev[u].run BY <1>4, <1>6, <1>7
<1> QED BY <1>1, <1>3, <1>5, <1>8

LEMMA OwnReserves ==
  /\ \A j \in Revisions : Png(j) \in Reserves(j)
  /\ \A a \in Attachments : Bin(a) \in Reserves(<<a, 0>>)
  /\ \A e \in Exports : Out(e) \in Reserves(<<e, 0>>)
<1>1. \A j \in Revisions : Png(j) \in Reserves(j) BY RevisionPairs DEF Reserves
<1>2. \A a \in Attachments : Bin(a) \in Reserves(<<a, 0>>) BY SenderFiles DEF Reserves
<1>3. \A e \in Exports : Out(e) \in Reserves(<<e, 0>>) BY DEF Reserves
<1> QED BY <1>1, <1>2, <1>3

LEMMA BegunNext ==
  ASSUME CopiesKnown' PROVE BegunByKind'
BY BegunKeys, PTL

LEMMA ValidateKeepsInv ==
  ASSUME IInv, TypeOK', NEW a \in Attachments, ValidateAttachment(a) PROVE IInv'
<1>0. <<a, 0>> \in Jobs /\ <<a, 0>>[1] = a /\ a \notin Exports /\ <<a, 0>> \notin Revisions
  BY JobKinds, SenderFiles DEF Revisions, Jobs
<1>1. TypeOK /\ job[<<a, 0>>] = "received" BY DEF IInv, ValidateAttachment
<1>2. StoreMoves BY StoreStays DEF ValidateAttachment
<1>3. CASE Bin(a) \in store /\ Becomes(<<a, 0>>, "validated") /\ UNCHANGED sweep
  <2>1. job'[<<a, 0>>] = "validated" BY <1>0, <1>1, <1>3, JobMoves DEF Phases
  <2>2. FileGoes(<<a, 0>>) BY <1>0, <1>1, <1>3, <2>1 DEF FileGoes
  <2>3. RunsInv' /\ CopyInv' /\ KeysMove
    BY <1>0, <1>1, <1>3, <2>2, RunMovesOn DEF ValidateAttachment, Phases, Running
  <2> QED BY <1>2, <1>3, <2>3, NoNewSweeps, ObjectsStayNamed
<1>4. CASE Becomes(<<a, 0>>, "clearing") /\ Asks({Bin(a)}, <<a, 0>>)
  <2>1. job'[<<a, 0>>] = "clearing" BY <1>0, <1>1, <1>4, JobMoves DEF Phases
  <2>2. FileGoes(<<a, 0>>) BY <1>0, <1>1, <1>4, <2>1 DEF FileGoes
  <2>3. RunsInv' /\ CopyInv' /\ KeysMove
    BY <1>0, <1>1, <1>4, <2>2, RunMovesOn DEF ValidateAttachment, Phases, Running
  <2>4. {Bin(a)} \in SUBSET Reserves(<<a, 0>>) BY OwnReserves
  <2>5. NewSweeps BY <1>0, <1>4, <2>1, <2>3, <2>4, PastAsks DEF Asks, Past
  <2> QED BY <1>2, <2>3, <2>5, ObjectsStayNamed
<1> QED BY <1>3, <1>4 DEF ValidateAttachment

LEMMA LookKeepsInv ==
  ASSUME IInv, TypeOK', NEW j \in Revisions, Look(j) \/ Draw(j) \/ Superseded(j) PROVE IInv'
<1>0. TypeOK /\ j \in Jobs /\ j[1] \in Uploads BY RevisionPairs DEF IInv
<1>1. CASE Look(j)
  <2>1. PICK q \in {"looked", "ended"} :
          /\ Becomes(j, q)
          /\ q = "looked" => rev[j[1]].run = j[2] /\ rev[j[1]].state # "ready"
    BY <1>1 DEF Look
  <2>2. job'[j] = q BY <1>0, <2>1, JobMoves DEF Phases, InspectionPhases
  <2>3. q = "looked" => rev[j[1]].state = "pending"
    <3>1. rev[j[1]].state \in {"pending", "ready", "failed"}
      BY <1>0, <1>1, FieldTypes DEF Look, RevisionRows
    <3>2. job[j] = "reserved" /\ Row(j[1]) BY <1>1 DEF Look
    <3> QED BY <2>1, <3>1, <3>2, RunFacts
  <2>4. FileGoes(j) BY <1>1, <2>1, <2>2 DEF Look, FileGoes
  <2>5. RunGoes(j) BY <1>1, <2>1, <2>2, <2>3 DEF Look, RunGoes, InspectionPhases
  <2>6. RunsInv' /\ CopyInv' /\ KeysMove
    BY <1>0, <1>1, <2>1, <2>4, <2>5, RunMovesOn DEF Look, Phases, InspectionPhases, Running
  <2>7. StoreMoves /\ NewSweeps BY <1>1, StoreStays, NoNewSweeps DEF Look
  <2> QED BY <2>6, <2>7, ObjectsStayNamed
<1>2. CASE Draw(j)
  <2>1. job'[j] = "drawn" BY <1>0, <1>2, JobMoves DEF Draw, Phases, InspectionPhases
  <2>2. Png(j) \in store' /\ store' = store \cup {Png(j)} BY <1>2 DEF Draw
  <2>3. FileGoes(j) BY <1>2, <2>1 DEF Draw, FileGoes
  <2>4. RunGoes(j) BY <1>2, <2>1, <2>2, RunFacts DEF Draw, RunGoes, InspectionPhases
  <2>5. RunsInv' /\ CopyInv' /\ KeysMove
    BY <1>0, <1>2, <2>3, <2>4, RunMovesOn DEF Draw, Phases, InspectionPhases, Running
  <2>6. Png(j) \in Begun' BY <2>1, <2>5, BegunNext DEF BegunByKind, CopyInv
  <2>7. StoreMoves BY <2>2, <2>6, StoreGrows
  <2>8. NewSweeps BY <1>2, NoNewSweeps DEF Draw
  <2> QED BY <2>5, <2>7, <2>8, ObjectsStayNamed
<1>3. CASE Superseded(j)
  <2>1. job'[j] = "superseded" BY <1>0, <1>3, JobMoves DEF Superseded, Phases, InspectionPhases
  <2>2. FileGoes(j) BY <1>3, <2>1 DEF Superseded, FileGoes
  <2>3. RunGoes(j) BY <1>3, <2>1 DEF Superseded, RunGoes, InspectionPhases
  <2>4. RunsInv' /\ CopyInv' /\ KeysMove
    BY <1>0, <1>3, <2>2, <2>3, RunMovesOn DEF Superseded, Phases, InspectionPhases, Running
  <2>5. {Png(j)} \in SUBSET Reserves(j) BY OwnReserves
  <2>6. NewSweeps BY <1>0, <1>3, <2>1, <2>4, <2>5, PastAsks DEF Superseded, Asks, Past
  <2>7. StoreMoves BY <1>3, StoreStays DEF Superseded
  <2> QED BY <2>4, <2>6, <2>7, ObjectsStayNamed
<1> QED BY <1>1, <1>2, <1>3

LEMMA EndsKeepsInv ==
  ASSUME IInv, TypeOK', NEW j \in Jobs, Cleared(j) \/ Die(j) PROVE IInv'
<1>0. TypeOK BY DEF IInv
<1>1. /\ Becomes(j, "ended") /\ UNCHANGED <<docs, http, mail, dead, copy, store>>
      /\ sweep' \subseteq sweep /\ job[j] \notin {"none", "ended"}
      /\ (j \in dead => job[j] = "clearing")
  BY DEF Cleared, Die, Active
<1>2. job'[j] = "ended" BY <1>0, <1>1, JobMoves DEF Phases
<1>3. FileGoes(j) BY <1>1, <1>2 DEF FileGoes
<1>4. RunGoes(j) BY <1>1, <1>2 DEF RunGoes
<1>5. RunsInv' /\ CopyInv' /\ KeysMove
  BY <1>1, <1>3, <1>4, RunMovesOn DEF Phases, Running
<1>6. StoreMoves /\ NewSweeps BY <1>1, StoreStays, NoNewSweeps
<1> QED BY <1>5, <1>6, ObjectsStayNamed

LEMMA StepEndsKeepsInv ==
  ASSUME IInv, TypeOK', NEW j \in Revisions, StepEnds(j) \/ StepRefuses(j) \/ StepBreaks(j)
  PROVE  IInv'
<1>0. TypeOK /\ j \in Jobs BY RevisionPairs DEF IInv
<1>1. /\ Becomes(j, "ended") \/ Becomes(j, "failing")
      /\ UNCHANGED <<docs, http, mail, copy, store>> /\ dead' = dead \ {j} /\ sweep' \subseteq sweep
      /\ job[j] \in InspectionPhases
  <2>1. CASE StepEnds(j) BY <2>1 DEF StepEnds, InspectionPhases
  <2>2. CASE StepRefuses(j) BY <2>2 DEF StepRefuses, GivesUp, InspectionPhases
  <2>3. CASE StepBreaks(j) BY <2>3 DEF StepBreaks, GivesUp, InspectionPhases
  <2> QED BY <2>1, <2>2, <2>3
<1>2. PICK q \in {"ended", "failing"} : Becomes(j, q) BY <1>1
<1>3. job'[j] = q BY <1>0, <1>2, JobMoves DEF Phases
<1>4. FileGoes(j) BY <1>1, <1>3 DEF FileGoes, InspectionPhases
<1>5. RunGoes(j) BY <1>1, <1>3 DEF RunGoes, InspectionPhases
<1>6. RunsInv' /\ CopyInv' /\ KeysMove
  BY <1>0, <1>1, <1>2, <1>4, <1>5, RunMovesOn DEF Phases, InspectionPhases
<1>7. StoreMoves /\ NewSweeps BY <1>1, StoreStays, NoNewSweeps
<1> QED BY <1>6, <1>7, ObjectsStayNamed

LEMMA RedoKeepsInv ==
  ASSUME IInv, TypeOK', NEW j \in Revisions, Redo(j) PROVE IInv'
<1>0. TypeOK /\ j \in Jobs /\ j[1] \in Uploads BY RevisionPairs DEF IInv
<1>1. job'[j] = "reserved" BY <1>0, JobMoves DEF Redo, Phases, InspectionPhases
<1>2. FileGoes(j) BY <1>1 DEF Redo, FileGoes
<1>3. RunGoes(j) BY <1>1 DEF Redo, RunGoes, InspectionPhases
<1>4. RunsInv' /\ CopyInv' /\ KeysMove
  BY <1>0, <1>2, <1>3, RunMovesOn DEF Redo, Phases, InspectionPhases
<1>5. StoreMoves
  <2>1. CASE job[j] # "looked" BY <2>1, StoreStays DEF Redo
  <2>2. CASE job[j] = "looked"
    <3>1. (AwaitedByKind /\ PromisedByKind /\ BegunByKind /\ ReferencedByKind)'
      BY <1>4, KindsNext DEF RunsInv, CopyInv
    <3>2. rev' = rev BY DEF Redo, docs
    <3>3. Png(j) \notin Referenced'
      <4>1. rev[j[1]].state = "ready" => Row(j[1]) BY <1>0, RowStates
      <4>2. ~(rev[j[1]].state = "ready" /\ rev[j[1]].run = j[2]) BY <2>2, <4>1, RunFacts
      <4> QED BY <3>1, <3>2, <4>2 DEF ReferencedByKind
    <3>4. Png(j) \notin Promised' BY <1>1, <3>1 DEF PromisedByKind
    <3>5. store' \subseteq store /\ store \ store' \subseteq {Png(j)} BY DEF Redo
    <3> QED BY <3>3, <3>4, <3>5 DEF StoreMoves
  <2> QED BY <2>1, <2>2
<1>6. NewSweeps BY NoNewSweeps DEF Redo
<1> QED BY <1>4, <1>5, <1>6, ObjectsStayNamed

LEMMA ExportKeepsInv ==
  ASSUME IInv, TypeOK', NEW e \in Exports,
         StartExport(e) \/ Build(e) \/ ExportRaises(e) \/ ExportEnds(e)
  PROVE  IInv'
<1>0. <<e, 0>> \in Jobs /\ <<e, 0>>[1] = e /\ e \notin Senders /\ <<e, 0>> \notin Revisions
  BY JobKinds DEF Senders, Revisions
<1>1. TypeOK BY DEF IInv
<1>2. CASE StartExport(e)
  <2>1. job'[<<e, 0>>] = "waiting" BY <1>0, <1>1, <1>2, JobMoves DEF StartExport, Phases
  <2>2. FileGoes(<<e, 0>>) BY <1>0, <1>2, <2>1 DEF StartExport, FileGoes
  <2>3. RunsInv' /\ CopyInv' /\ KeysMove
    BY <1>0, <1>2, <2>2, RunMovesOn DEF StartExport, Phases, Running
  <2>4. StoreMoves /\ NewSweeps BY <1>2, StoreStays, NoNewSweeps DEF StartExport
  <2> QED BY <2>3, <2>4, ObjectsStayNamed
<1>3. CASE Build(e)
  <2>1. PICK q \in {"built", "ended"} :
          /\ Becomes(<<e, 0>>, q)
          /\ q = "built" => store' = store \cup {Out(e)}
          /\ store' \in {store, store \cup {Out(e)}}
    BY <1>3 DEF Build
  <2>2. job'[<<e, 0>>] = q BY <1>0, <1>1, <2>1, JobMoves DEF Phases
  <2>3. FileGoes(<<e, 0>>) BY <1>0, <1>3, <2>1, <2>2 DEF Build, FileGoes
  <2>4. RunsInv' /\ CopyInv' /\ KeysMove
    BY <1>0, <1>3, <2>1, <2>3, RunMovesOn DEF Build, Phases, Running
  <2>5. Out(e) \in Begun' BY <2>2, <2>4, BegunNext DEF BegunByKind, CopyInv
  <2>6. StoreMoves BY <2>1, <2>5, StoreGrows
  <2>7. NewSweeps BY <1>3, NoNewSweeps DEF Build
  <2> QED BY <2>4, <2>6, <2>7, ObjectsStayNamed
<1>4. CASE ExportRaises(e)
  <2>1. job'[<<e, 0>>] = "clearing" BY <1>0, <1>1, <1>4, JobMoves DEF ExportRaises, Phases
  <2>2. FileGoes(<<e, 0>>) BY <1>0, <1>4, <2>1 DEF ExportRaises, FileGoes
  <2>3. RunsInv' /\ CopyInv' /\ KeysMove
    BY <1>0, <1>4, <2>2, RunMovesOn DEF ExportRaises, Phases, Running
  <2>4. {Out(e)} \in SUBSET Reserves(<<e, 0>>) BY OwnReserves
  <2>5. NewSweeps BY <1>0, <1>4, <2>1, <2>3, <2>4, PastAsks DEF ExportRaises, Asks, Past
  <2>6. StoreMoves BY <1>4, StoreStays DEF ExportRaises
  <2> QED BY <2>3, <2>5, <2>6, ObjectsStayNamed
<1>5. CASE ExportEnds(e)
  <2>1. job'[<<e, 0>>] = "ended" BY <1>0, <1>1, <1>5, JobMoves DEF ExportEnds, Phases
  <2>2. FileGoes(<<e, 0>>) BY <1>0, <1>5, <2>1 DEF ExportEnds, FileGoes
  <2>3. RunsInv' /\ CopyInv' /\ KeysMove
    BY <1>0, <1>5, <2>2, RunMovesOn DEF ExportEnds, Phases, Running
  <2>4. StoreMoves /\ NewSweeps BY <1>5, StoreStays, NoNewSweeps DEF ExportEnds
  <2> QED BY <2>3, <2>4, ObjectsStayNamed
<1> QED BY <1>2, <1>3, <1>4, <1>5

-------------------------------------------------------------------------------
(* Steps of requests, deletions, copies and the collector: executions stay.   *)

LEMMA RunsStayOn ==
  ASSUME IInv, TypeOK', job' = job, RowsStay, RequestsGo, RequestsFollow', CopyGoes, CopyInv',
         NamesGo, OutputsFollow', DeadIsRunning'
  PROVE  RunsInv' /\ CopyInv' /\ KeysMove
<1>1. FilesGo /\ RunsGo BY DEF FilesGo, RunsGo
<1>2. RowsMove BY <1>1, RowsStayOn
<1>3. KeysMove BY <1>1, <1>2, KeysMoveOn DEF CopyInv
<1> QED BY <1>2, <1>3 DEF RunsInv, RowsMove

LEMMA StillFollows ==
  ASSUME IInv, UNCHANGED <<att, art, tgt, http, mail, job, copy>>
  PROVE  RequestsGo /\ RequestsFollow' /\ CopyGoes /\ CopyInv' /\ NamesGo /\ OutputsFollow'
<1>0. RunsInv BY DEF IInv
<1>1. CopyInv' /\ CopyGoes BY CopyStays
<1>2. RequestsGo /\ RequestsFollow' BY <1>0 DEF RequestsGo, Sent, RunsInv, RequestsFollow
<1>3. NamesGo /\ OutputsFollow' BY <1>0 DEF NamesGo, RunsInv, OutputsFollow
<1> QED BY <1>1, <1>2, <1>3

LEMMA DeadStays == ASSUME IInv, UNCHANGED <<dead, job>> PROVE DeadIsRunning'
BY DEF IInv, RunsInv, DeadIsRunning

\* Only objects, deletions and authority change.
LEMMA DocumentsStay ==
  ASSUME IInv, TypeOK', UNCHANGED <<rev, att, art, tgt, http, mail, job, copy>>, DeadIsRunning'
  PROVE  RunsInv' /\ CopyInv' /\ KeysMove
BY StillFollows, RunsStayOn DEF RowsStay

\* What a row named is no longer awaited when its deletion asks for it.
LEMMA NamedAsks ==
  ASSUME IInv, KeysMove, NEW keys \in SUBSET Referenced, NEW by,
         sweep' \subseteq sweep \cup Ask(keys, by)
  PROVE  NewSweeps
<1>1. \A s \in Ask(keys, by) : s.key \in keys /\ s.phase = "asked" BY DEF Ask
<1>2. \A k \in Referenced : k \notin Awaited BY NamedIsOver
<1> QED BY <1>1, <1>2 DEF NewSweeps, KeysMove

LEMMA RequestKeepsInv ==
  ASSUME IInv, TypeOK', NEW x \in Senders, PutObject(x) \/ SendComplete(x) \/ UploadFails(x)
  PROVE  IInv'
<1>0. TypeOK /\ RunsInv /\ <<x, 0>> \in Jobs BY JobKinds DEF IInv
<1>1. /\ UNCHANGED <<rev, att, art, tgt, job, copy, dead, sweep>>
      /\ http[x] \in {"sending", "stored"} /\ http'[x] \in {"stored", "over"}
      /\ \A y \in Senders : y # x => http'[y] = http[y] /\ mail'[y] = mail[y]
      /\ store' \in {store, store \cup {FileOf(x)}}
  BY <1>0 DEF PutObject, SendComplete, UploadFails, Post, TypeOK, docs
<1>2. Sent(x)' => Sent(x) \/ FileOf(x) \in store'
  <2>1. CASE PutObject(x) BY <2>1 DEF PutObject
  <2>2. CASE SendComplete(x) BY <2>2 DEF SendComplete, Sent
  <2>3. CASE UploadFails(x)
    <3>1. CASE http[x] = "stored" BY <3>1 DEF Sent
    <3>2. CASE http[x] # "stored"
      <4>1. http'[x] = "over" BY <1>0, <2>3 DEF UploadFails, TypeOK
      <4>2. mail'[x] = "complete" => mail[x] = "complete"
        BY <1>0, <2>3, <3>2 DEF UploadFails, Post, TypeOK
      <4> QED BY <4>1, <4>2 DEF Sent
    <3> QED BY <3>1, <3>2
  <2> QED BY <2>1, <2>2, <2>3
<1>3. RequestsGo
  <2>1. \A y \in Senders : y # x => (Sent(y)' => Sent(y)) BY <1>1 DEF Sent
  <2> QED BY <1>2, <2>1 DEF RequestsGo
<1>4. RequestsFollow' BY <1>0, <1>1 DEF RunsInv, RequestsFollow
<1>5. CopyGoes /\ CopyInv' BY <1>1, CopyStays
<1>6. NamesGo /\ OutputsFollow' BY <1>0, <1>1 DEF NamesGo, RunsInv, OutputsFollow
<1>7. RunsInv' /\ CopyInv' /\ KeysMove
  BY <1>1, <1>3, <1>4, <1>5, <1>6, DeadStays, RunsStayOn DEF RowsStay
<1>8. FileOf(x) \in Begun'
  <2>1. job[<<x, 0>>] # "none" BY <1>0, <1>1 DEF RunsInv, RequestsFollow
  <2>2. BegunByKind' BY <1>7, BegunNext DEF CopyInv
  <2> QED BY <1>1, <2>1, <2>2, SenderFiles DEF BegunByKind
<1>9. StoreMoves /\ NewSweeps BY <1>1, <1>8, StoreGrows, NoNewSweeps
<1> QED BY <1>7, <1>9, ObjectsStayNamed

LEMMA DeleteKeepsInv ==
  ASSUME IInv, TypeOK',
         \/ \E u \in Uploads : DeleteRevision(u)
         \/ \E a \in Attachments : DeleteAttachment(a)
         \/ \E e \in Exports : Expire(e) \/ Retire(e)
         \/ DeleteItem
  PROVE  IInv'
<1>0. TypeOK /\ RunsInv /\ CopyInv BY DEF IInv
<1>1. ASSUME NEW keys \in SUBSET Referenced, sweep' \subseteq sweep \cup Ask(keys, Cleanup),
             UNCHANGED <<tgt, http, mail, job, dead, copy, store>>, RowsStay,
             \A a \in Attachments : att'[a] # "none" => att[a] # "none",
             \A e \in Exports : art'[e] # "none" => art[e] # "none"
      PROVE  IInv'
  <2>1. NamesGo /\ OutputsFollow' BY <1>0, <1>1 DEF NamesGo, RunsInv, OutputsFollow
  <2>2. RequestsGo /\ RequestsFollow' BY <1>0, <1>1 DEF RequestsGo, Sent, RunsInv, RequestsFollow
  <2>3. CopyGoes /\ CopyInv' BY <1>1, CopyStays
  <2>4. RunsInv' /\ CopyInv' /\ KeysMove BY <1>1, <2>1, <2>2, <2>3, DeadStays, RunsStayOn
  <2>5. StoreMoves /\ NewSweeps BY <1>1, <2>4, StoreStays, NamedAsks
  <2> QED BY <2>4, <2>5, ObjectsStayNamed
<1>2. ASSUME NEW u \in Uploads, DeleteRevision(u) PROVE IInv'
  <2>1. RowsStay BY <1>0, <1>2 DEF DeleteRevision, RowsStay, TypeOK
  <2>2. RevisionKeys(rev, u) \in SUBSET Referenced BY DEF Referenced, ItemKeys
  <2> QED BY <1>1, <1>2, <2>1, <2>2 DEF DeleteRevision, Asks
<1>3. ASSUME NEW a \in Attachments, DeleteAttachment(a) PROVE IInv'
  <2>1. {Bin(a)} \in SUBSET Referenced
    BY <1>3 DEF DeleteAttachment, Referenced, ItemKeys, AttachmentKeys
  <2>2. \A b \in Attachments : att'[b] # "none" => att[b] # "none"
    BY <1>0, <1>3 DEF DeleteAttachment, TypeOK
  <2> QED BY <1>1, <1>3, <2>1, <2>2 DEF DeleteAttachment, Asks, RowsStay
<1>4. ASSUME NEW e \in Exports, Expire(e) PROVE IInv'
  <2>1. \A x \in Exports : art'[x] # "none" => art[x] # "none"
    BY <1>0, <1>4 DEF Expire, TypeOK
  <2>2. sweep' \subseteq sweep \cup Ask({}, Cleanup) BY <1>4 DEF Expire
  <2> QED BY <1>1, <1>4, <2>1, <2>2 DEF Expire, RowsStay
<1>5. ASSUME NEW e \in Exports, Retire(e) PROVE IInv'
  <2>1. {Out(e)} \in SUBSET Referenced BY <1>5 DEF Retire, Referenced
  <2>2. \A x \in Exports : art'[x] # "none" => art[x] # "none"
    BY <1>0, <1>5 DEF Retire, TypeOK
  <2> QED BY <1>1, <1>5, <2>1, <2>2 DEF Retire, Asks, RowsStay
<1>6. CASE DeleteItem
  <2>1. ItemKeys \in SUBSET Referenced BY DEF Referenced
  <2>2. RowsStay /\ \A a \in Attachments : att'[a] = "none" BY <1>6 DEF DeleteItem, RowsStay
  <2> QED BY <1>1, <1>6, <2>1, <2>2 DEF DeleteItem, Asks
<1> QED BY <1>2, <1>3, <1>4, <1>5, <1>6

LEMMA CopyKeepsInv == ASSUME IInv, TypeOK', CopyStep PROVE IInv'
<1>0. TypeOK /\ RunsInv /\ CopyInv /\ copy \in Copies BY DEF IInv, TypeOK
<1>1. ASSUME UNCHANGED <<rev, att, art, http, mail, job, dead>>, CopyInv', CopyGoes,
             tgt' \subseteq tgt \cup PromisedCopies, tgt' # {} => copy'.phase = "over",
             store' = store \/ \E k \in copy'.done : store' = store \cup {k},
             sweep' = sweep \/ (copy'.phase = "over" /\ sweep' = sweep \cup Ask(copy.done, Cleanup))
      PROVE  IInv'
  <2>1. NamesGo /\ OutputsFollow' BY <1>0, <1>1 DEF NamesGo, RunsInv, OutputsFollow
  <2>2. RequestsGo /\ RequestsFollow' BY <1>0, <1>1 DEF RequestsGo, Sent, RunsInv, RequestsFollow
  <2>3. RunsInv' /\ CopyInv' /\ KeysMove
    BY <1>1, <2>1, <2>2, DeadStays, RunsStayOn DEF RowsStay
  <2>4. StoreMoves
    <3>1. copy'.done \subseteq Begun' BY DEF Begun
    <3> QED BY <1>1, <3>1, StoreStays, StoreGrows
  <2>5. NewSweeps
    <3>1. CASE sweep' = sweep BY <3>1, NoNewSweeps
    <3>2. CASE copy'.phase = "over" /\ sweep' = sweep \cup Ask(copy.done, Cleanup)
      <4>1. AwaitedByKind' BY AwaitedKeys, PTL
      <4>2. \A k \in copy.done : k \notin Awaited'
        BY <1>0, <3>2, <4>1 DEF CopyInv, CopiesKnown, AwaitedByKind
      <4>3. \A s \in Ask(copy.done, Cleanup) : s.key \in copy.done /\ s.phase = "asked" BY DEF Ask
      <4> QED BY <3>2, <4>2, <4>3 DEF NewSweeps
    <3> QED BY <1>1, <3>1, <3>2
  <2> QED BY <2>3, <2>4, <2>5, ObjectsStayNamed
<1>2. CASE StartCopy
  <2>1. copy.phase = "none" /\ copy.done = {} /\ tgt = {}
    BY <1>0, <1>2 DEF StartCopy, CopyInv, RunsInv, OutputsFollow
  <2>2. copy'.phase = "copying" /\ copy'.done = {} BY <1>2 DEF StartCopy
  <2>3. tgt' = tgt BY <1>2 DEF StartCopy, docs
  <2>4. CopyInv' /\ CopyGoes BY <2>1, <2>2, <2>3 DEF CopyInv, CopiesKnown, CopyGoes
  <2> QED BY <1>1, <1>2, <2>1, <2>3, <2>4 DEF StartCopy, docs
<1>3. ASSUME NEW k \in OwnKeys, CopyObject(k) PROVE IInv'
  <2>1. PICK d : d = copy.done \cup {CopyOf(k)} OBVIOUS
  <2>2. PICK p : p = IF d = {CopyOf(x) : x \in SnapshotKeys} THEN "copied" ELSE "copying" OBVIOUS
  <2>3. copy' = [copy EXCEPT !.done = d, !.phase = p]
    BY <1>0, <1>3, <2>1, <2>2 DEF CopyObject
  <2>4. copy'.done = d /\ copy'.phase = p /\ copy'.rev = copy.rev /\ copy'.att = copy.att
    BY <1>0, <2>3 DEF Copies
  <2>5. SnapshotKeys' = SnapshotKeys
    BY <2>4 DEF SnapshotKeys, RevisionKeys, AttachmentKeys
  <2>6. copy.phase = "copying" /\ copy.done \subseteq {CopyOf(x) : x \in SnapshotKeys}
        /\ k \in SnapshotKeys /\ store' = store \cup {CopyOf(k)} /\ tgt' = tgt
    BY <1>0, <1>3 DEF CopyObject, CopyInv, docs
  <2>7. CopyInv'
    <3>1. CopiesKnown' BY <1>0, <2>1, <2>4, <2>6 DEF CopyInv, CopiesKnown
    <3>2. d \subseteq {CopyOf(x) : x \in SnapshotKeys} BY <2>1, <2>6
    <3> QED BY <2>2, <2>4, <2>5, <3>1, <3>2 DEF CopyInv
  <2>8. CopyGoes BY <2>1, <2>2, <2>4, <2>6 DEF CopyGoes, PromisedCopies
  <2>9. tgt = {} BY <1>0, <2>6 DEF RunsInv, OutputsFollow
  <2>10. CopyOf(k) \in copy'.done BY <2>1, <2>4
  <2> QED BY <1>1, <1>3, <2>6, <2>7, <2>8, <2>9, <2>10 DEF CopyObject, docs
<1>4. CASE Install \/ CopyFails
  <2>1. copy.phase \in {"copying", "copied"} /\ copy' = [copy EXCEPT !.phase = "over"]
    BY <1>4 DEF Install, CopyFails, CopyIsComplete
  <2>2. copy'.phase = "over" /\ copy'.done = copy.done BY <1>0, <2>1 DEF Copies
  <2>3. tgt' \in {tgt, copy.done} BY <1>4 DEF Install, CopyFails, docs
  <2>4. PromisedCopies = copy.done BY <2>1 DEF PromisedCopies
  <2>5. CopyInv' BY <1>0, <2>2, <2>3 DEF CopyInv, CopiesKnown
  <2>6. CopyGoes BY <2>2 DEF CopyGoes
  <2>7. /\ UNCHANGED <<rev, att, art, http, mail, job, dead, store>>
        /\ sweep' \in {sweep, sweep \cup Ask(copy.done, Cleanup)}
    BY <1>4 DEF Install, CopyFails, docs
  <2> QED BY <1>1, <2>2, <2>3, <2>4, <2>5, <2>6, <2>7
<1> QED BY <1>2, <1>3, <1>4 DEF CopyStep

LEMMA CleanupIsNoJob == Cleanup \notin Jobs
BY DEF Cleanup, Jobs

\* An object that is old, unreserved and unnamed can no longer be named.
LEMMA ScannedIsOver ==
  ASSUME IInv, NEW k \in store, k \notin InFlight \cup Reserved(Cleanup) \cup Referenced
  PROVE  k \notin Awaited
<1>0. TypeOK /\ RunsInv /\ CopyInv /\ k \in Begun /\ k \in Keys
  BY DEF IInv, StoreInv, TypeOK
<1>1. AwaitedByKind /\ BegunByKind BY KindsHold
<1>2. ASSUME NEW j \in Jobs, job[j] \notin {"none", "ended"}, k \in Reserves(j) PROVE FALSE
  <2>1. CASE j \in dead BY <1>2, <2>1 DEF InFlight
  <2>2. CASE j \notin dead BY <1>2, <2>2, CleanupIsNoJob DEF Reserved, Active
  <2> QED BY <2>1, <2>2
<1>3. ASSUME NEW u \in Uploads, k = Pdf(u) PROVE k \notin Awaited
  <2>1. <<u, 0>> \in Jobs /\ k \in Reserves(<<u, 0>>) BY <1>3, JobKinds, SenderFiles DEF Reserves
  <2>2. job[<<u, 0>>] = "ended" BY <1>0, <1>1, <1>2, <1>3, <2>1 DEF BegunByKind
  <2> QED BY <1>1, <1>3, <2>2 DEF AwaitedByKind, Early
<1>4. ASSUME NEW j \in Revisions, k = Png(j) PROVE k \notin Awaited
  <2>1. j \in Jobs /\ k \in Reserves(j) BY <1>4, RevisionPairs, OwnReserves
  <2>2. job[j] = "ended" BY <1>0, <1>1, <1>2, <1>4, <2>1 DEF BegunByKind
  <2> QED BY <1>0, <2>1, <2>2, PastIsOver DEF PastOver, Past
<1>5. ASSUME NEW a \in Attachments, k = Bin(a) PROVE k \notin Awaited
  <2>1. <<a, 0>> \in Jobs /\ k \in Reserves(<<a, 0>>) BY <1>5, JobKinds, SenderFiles, OwnReserves
  <2>2. job[<<a, 0>>] = "ended" BY <1>0, <1>1, <1>2, <1>5, <2>1 DEF BegunByKind
  <2> QED BY <1>1, <1>5, <2>2 DEF AwaitedByKind, Early
<1>6. ASSUME NEW e \in Exports, k = Out(e) PROVE k \notin Awaited
  <2>1. <<e, 0>> \in Jobs /\ k \in Reserves(<<e, 0>>) BY <1>6, JobKinds, OwnReserves
  <2>2. job[<<e, 0>>] = "ended" BY <1>0, <1>1, <1>2, <1>6, <2>1 DEF BegunByKind
  <2> QED BY <1>1, <1>6, <2>2 DEF AwaitedByKind
<1>7. ASSUME NEW l \in OwnKeys, k = CopyOf(l) PROVE k \notin Awaited
  <2>1. k \in copy.done BY <1>0, <1>1, <1>7 DEF BegunByKind
  <2>2. copy.phase = "over" BY <1>0, <2>1 DEF CopyInv, InFlight, TypeOK, Copies
  <2> QED BY <1>1, <1>7, <2>2 DEF AwaitedByKind
<1> QED BY <1>0, <1>3, <1>4, <1>5, <1>6, <1>7, KeyCases

LEMMA CollectKeepsInv ==
  ASSUME IInv, TypeOK', ObjectStep \/ Authority \/ \E j \in Jobs : Outlive(j) PROVE IInv'
<1>0. TypeOK /\ RunsInv /\ SweptIsOver BY DEF IInv
<1>1. ASSUME NEW s \in sweep, Recheck(s) PROVE IInv'
  <2>1. RunsInv' /\ CopyInv' /\ KeysMove
    BY <1>1, DocumentsStay, DeadStays DEF Recheck, docs
  <2>2. StoreMoves BY <1>1, StoreStays DEF Recheck
  <2>3. Referenced' = Referenced
    BY <1>1 DEF Recheck, docs, Referenced, ItemKeys, RevisionKeys, AttachmentKeys
  <2>4. NewSweeps
    <3>1. CASE s.key \in Protecting(s) BY <1>1, <3>1, NoNewSweeps DEF Recheck
    <3>2. CASE s.key \notin Protecting(s)
      <4>1. PICK t : t = [s EXCEPT !.phase = IF s.phase = "asked" THEN "unreserved" ELSE "doomed"]
        OBVIOUS
      <4>2. sweep' = (sweep \ {s}) \cup {t} BY <1>1, <3>2, <4>1 DEF Recheck, Replace
      <4>3. t.key = s.key /\ (t.phase = "doomed" => s.phase # "asked")
        BY <1>0, <4>1 DEF TypeOK
      <4>4. t.phase = "doomed" => t.key \notin Referenced
        BY <3>2, <4>3 DEF Protecting
      <4>5. s.key \notin Awaited BY <1>0 DEF SweptIsOver
      <4>6. t.key \notin Awaited' /\ (t.phase = "doomed" => t.key \notin Referenced')
        BY <2>1, <2>3, <4>3, <4>4, <4>5 DEF KeysMove
      <4> QED BY <4>2, <4>6 DEF NewSweeps
    <3> QED BY <3>1, <3>2
  <2> QED BY <2>1, <2>2, <2>4, ObjectsStayNamed
<1>2. ASSUME NEW s \in sweep, Remove(s) PROVE IInv'
  <2>1. RunsInv' /\ CopyInv' /\ KeysMove
    BY <1>2, DocumentsStay, DeadStays DEF Remove, docs
  <2>2. s.key \notin Referenced /\ s.key \notin Awaited BY <1>0, <1>2 DEF SweptIsOver, Remove
  <2>3. Referenced' = Referenced
    BY <1>2 DEF Remove, docs, Referenced, ItemKeys, RevisionKeys, AttachmentKeys
  <2>4. s.key \notin Promised'
    <3>1. Promised' = Promised
      BY <1>2 DEF Remove, docs, Promised, Sent, Owns
    <3> QED BY <2>2, <3>1, PromisedAreAwaited
  <2>5. StoreMoves BY <1>2, <2>2, <2>3, <2>4 DEF StoreMoves, Remove
  <2>6. NewSweeps BY <1>2, NoNewSweeps DEF Remove
  <2> QED BY <2>1, <2>5, <2>6, ObjectsStayNamed
<1>3. ASSUME NEW s \in sweep, Drop(s) PROVE IInv'
  <2>1. RunsInv' /\ CopyInv' /\ KeysMove BY <1>3, DocumentsStay, DeadStays DEF Drop, docs
  <2>2. StoreMoves /\ NewSweeps BY <1>3, StoreStays, NoNewSweeps DEF Drop
  <2> QED BY <2>1, <2>2, ObjectsStayNamed
<1>4. ASSUME NEW k \in Keys, Scan(k) PROVE IInv'
  <2>1. RunsInv' /\ CopyInv' /\ KeysMove BY <1>4, DocumentsStay, DeadStays DEF Scan, docs
  <2>2. StoreMoves BY <1>4, StoreStays DEF Scan
  <2>3. k \notin Awaited BY <1>4, ScannedIsOver DEF Scan
  <2>4. \A s \in Ask({k}, Cleanup) : s.key = k /\ s.phase = "asked" BY DEF Ask
  <2>5. NewSweeps BY <1>4, <2>1, <2>3, <2>4 DEF Scan, Asks, NewSweeps, KeysMove
  <2> QED BY <2>1, <2>2, <2>5, ObjectsStayNamed
<1>5. CASE Authority
  <2>1. RunsInv' /\ CopyInv' /\ KeysMove BY <1>5, DocumentsStay, DeadStays DEF Authority
  <2>2. StoreMoves /\ NewSweeps BY <1>5, StoreStays, NoNewSweeps DEF Authority
  <2> QED BY <2>1, <2>2, ObjectsStayNamed
<1>6. ASSUME NEW j \in Jobs, Outlive(j) PROVE IInv'
  <2>1. DeadIsRunning' BY <1>0, <1>6 DEF Outlive, RunsInv, DeadIsRunning
  <2>2. RunsInv' /\ CopyInv' /\ KeysMove BY <1>6, <2>1, DocumentsStay DEF Outlive, docs
  <2>3. StoreMoves /\ NewSweeps BY <1>6, StoreStays, NoNewSweeps DEF Outlive
  <2> QED BY <2>2, <2>3, ObjectsStayNamed
<1> QED BY <1>1, <1>2, <1>3, <1>4, <1>5, <1>6 DEF ObjectStep, Collect

-------------------------------------------------------------------------------
(* Steps that change a row and the execution it belongs to.                   *)

\* What lets an execution j enter q while its row becomes r.
RowTaken(u, n, r, q) ==
  /\ r.run = n
  /\ Row(u) \/ job[<<u, 0>>] = "received"
  /\ Row(u) => rev[u].run <= n
  /\ \A m \in 0..MaxRetries : m > n => job[<<u, m>>] = "none"
  /\ n > 0 => job[<<u, 0>>] \notin Early
  /\ r.state = "ready" =>
       r.thumb = {Png(<<u, n>>)} /\ job[<<u, n>>] = "drawn" /\ Owns(<<u, n>>)
  /\ r.state # "ready" => r.thumb = {}
  /\ r.state = "failed" => q = "clearing"
  /\ q = "published" => r.state # "pending"
  /\ q = "reserved" => AwaitedThumb(<<u, n>>)

LEMMA RowMovesOn ==
  ASSUME IInv, TypeOK', NEW u \in Uploads, NEW n \in 0..MaxRetries, NEW r \in RevisionRows,
         NEW q \in {"reserved", "published", "clearing"}, RowTaken(u, n, r, q),
         rev' = [rev EXCEPT ![u] = r], Becomes(<<u, n>>, q)
  PROVE  RowsMove
<1>0. TypeOK /\ RowsFollowRuns /\ RunsFollowRows BY DEF IInv, RunsInv
<1>1. rev'[u] = r /\ \A v \in Uploads : v # u => rev'[v] = rev[v] BY <1>0, RowTypes
<1>2. <<u, n>> \in Jobs /\ <<u, n>> \in Revisions BY JobKinds DEF Revisions
<1>3. job'[<<u, n>>] = q /\ \A i \in Jobs : i # <<u, n>> => job'[i] = job[i]
  BY <1>0, <1>2, JobMoves DEF Phases, InspectionPhases
<1>4. \A m \in 0..MaxRetries : m # n => job'[<<u, m>>] = job[<<u, m>>]
  BY <1>3, JobKinds
<1>5. \A v \in Uploads : v # u => \A m \in 0..MaxRetries : job'[<<v, m>>] = job[<<v, m>>]
  BY <1>3, JobKinds
<1>6. Row(u)' /\ r.state \in {"pending", "ready", "failed"} /\ n \in Nat
  BY <1>1, NoRowTypes DEF Row, RevisionRows
<1>7. job'[<<u, 0>>] \notin Early
  <2>1. CASE n = 0 BY <1>3, <2>1 DEF Early
  <2>2. CASE n # 0
    <3>1. job[<<u, 0>>] \notin Early BY <2>2 DEF RowTaken
    <3> QED BY <1>4, <2>2, <3>1
  <2> QED BY <2>1, <2>2
<1>8. \A v \in Uploads : v # u => (Row(v)' <=> Row(v)) BY <1>1 DEF Row
<1>9. RowsFollowRuns'
  <2> SUFFICES ASSUME NEW v \in Uploads, Row(v)'
               PROVE  /\ job'[<<v, 0>>] \notin Early
                      /\ rev'[v].state # "ready" => rev'[v].thumb = {}
                      /\ rev'[v].state = "ready" => rev'[v].thumb = {Png(<<v, rev'[v].run>>)}
                      /\ rev'[v].state = "failed" =>
                           job'[<<v, rev'[v].run>>] \in {"clearing", "ended"}
                      /\ \A m \in 0..MaxRetries : m > rev'[v].run => job'[<<v, m>>] = "none"
    BY DEF RowsFollowRuns, Png
  <2>1. CASE v = u
    <3>1. \A m \in 0..MaxRetries : m > n => job'[<<u, m>>] = "none"
      BY <1>4, <1>6 DEF RowTaken
    <3> QED BY <1>1, <1>3, <1>7, <2>1, <3>1 DEF RowTaken
  <2>2. CASE v # u
    <3>1. Row(v) /\ rev'[v] = rev[v] BY <1>1, <1>8, <2>2
    <3>2. rev[v].run \in 0..MaxRetries BY <1>0, <3>1, RunNumbers
    <3>3. \A m \in 0..MaxRetries : job'[<<v, m>>] = job[<<v, m>>] BY <1>5, <2>2
    <3>4. 0 \in 0..MaxRetries OBVIOUS
    <3> QED BY <1>0, <3>1, <3>2, <3>3, <3>4 DEF RowsFollowRuns
  <2> QED BY <2>1, <2>2
<1>10. RunsFollowRows'
  <2> SUFFICES ASSUME NEW v \in Uploads, NEW m \in 0..MaxRetries
               PROVE  /\ m > 0 /\ job'[<<v, m>>] # "none" => job'[<<v, 0>>] \notin Early
                      /\ job'[<<v, m>>] \in {"published", "superseded"} => ~Owns(<<v, m>>)'
                      /\ job'[<<v, m>>] \in {"looked", "drawn"} /\ Row(v)' /\ rev'[v].run = m =>
                           rev'[v].state = "pending"
    BY DEF RunsFollowRows, Owns
  <2>1. CASE v = u
    <3>1. Owns(<<u, m>>)' => m = n /\ r.state = "pending" BY <1>1 DEF Owns, RowTaken
    <3>2. rev'[u].run = m => m = n BY <1>1 DEF RowTaken
    <3>3. CASE m = n BY <1>3, <1>7, <2>1, <3>1, <3>3 DEF RowTaken
    <3>4. CASE m # n BY <1>7, <2>1, <3>1, <3>2, <3>4
    <3> QED BY <3>3, <3>4
  <2>2. CASE v # u
    <3>1. rev'[v] = rev[v] /\ (Row(v)' <=> Row(v)) BY <1>1, <1>8, <2>2
    <3>2. job'[<<v, m>>] = job[<<v, m>>] /\ job'[<<v, 0>>] = job[<<v, 0>>] BY <1>5, <2>2
    <3>3. Owns(<<v, m>>)' <=> Owns(<<v, m>>) BY <3>1 DEF Owns
    <3> QED BY <1>0, <3>1, <3>2, <3>3 DEF RunsFollowRows
  <2> QED BY <2>1, <2>2
<1>11. ASSUME NEW j \in Revisions
       PROVE  /\ AwaitedThumb(j)' => AwaitedThumb(j)
              /\ job'[j] = "drawn" /\ Owns(j)' => (job[j] = "drawn" /\ Owns(j)) \/ Png(j) \in store'
              /\ rev'[j[1]].state = "ready" /\ rev'[j[1]].run = j[2] =>
                   \/ rev[j[1]].state = "ready" /\ rev[j[1]].run = j[2]
                   \/ job[j] = "drawn" /\ Owns(j)
  <2>1. PICK v \in Uploads, m \in 0..MaxRetries : j = <<v, m>> /\ m \in Nat BY DEF Revisions
  <2>2. CASE v # u
    <3>1. rev'[v] = rev[v] /\ (Row(v)' <=> Row(v)) BY <1>1, <1>8, <2>2
    <3>2. job'[<<v, m>>] = job[<<v, m>>] /\ job'[<<v, 0>>] = job[<<v, 0>>] BY <1>5, <2>2
    <3>3. Owns(<<v, m>>)' <=> Owns(<<v, m>>) BY <3>1 DEF Owns
    <3> QED BY <2>1, <3>1, <3>2, <3>3 DEF AwaitedThumb
  <2>3. CASE v = u
    <3>1. Owns(<<u, m>>)' => m = n BY <1>1 DEF Owns, RowTaken
    <3>2. ASSUME AwaitedThumb(<<u, m>>)' PROVE AwaitedThumb(<<u, m>>)
      <4>1. CASE n < m
        <5>1. CASE Row(u)
          <6>1. rev[u].run \in Nat /\ rev[u].run <= n BY <1>0, <5>1, RunNumbers DEF RowTaken
          <6>2. rev[u].run < m BY <1>6, <2>1, <4>1, <6>1
          <6> QED BY <5>1, <6>2 DEF AwaitedThumb
        <5>2. CASE ~Row(u) BY <5>2 DEF RowTaken, AwaitedThumb, Early
        <5> QED BY <5>1, <5>2
      <4>2. CASE ~(n < m)
        <5>1. Owns(<<u, m>>)' /\ job'[<<u, m>>] \in {"reserved", "looked", "drawn"}
          BY <1>1, <1>7, <3>2, <4>2 DEF AwaitedThumb, RowTaken
        <5>2. m = n /\ q = "reserved" BY <1>3, <3>1, <5>1
        <5> QED BY <5>2 DEF RowTaken
      <4> QED BY <4>1, <4>2
    <3>3. ~(job'[<<u, m>>] = "drawn" /\ Owns(<<u, m>>)') BY <1>3, <3>1
    <3>4. rev'[u].state = "ready" /\ rev'[u].run = m =>
            job[<<u, m>>] = "drawn" /\ Owns(<<u, m>>)
      BY <1>1 DEF RowTaken
    <3>5. AwaitedThumb(j)' => AwaitedThumb(<<u, m>>)' BY <2>1, <2>3
    <3> QED BY <2>1, <2>3, <3>2, <3>3, <3>4, <3>5
  <2> QED BY <2>2, <2>3
<1>12. \A v \in Uploads : Row(v)' => Row(v) \/ job[<<v, 0>>] = "received"
  BY <1>8 DEF RowTaken
<1> QED BY <1>9, <1>10, <1>11, <1>12 DEF RowsMove

LEMMA RowStepsOn ==
  ASSUME IInv, TypeOK', NEW u \in Uploads, NEW n \in 0..MaxRetries, NEW r \in RevisionRows,
         NEW q \in {"reserved", "published", "clearing"}, RowTaken(u, n, r, q),
         rev' = [rev EXCEPT ![u] = r], Becomes(<<u, n>>, q),
         UNCHANGED <<att, art, tgt, http, mail, dead, copy, store>>,
         job[<<u, n>>] # "none" \/ n > 0, <<u, n>> \in dead => q = "published"
  PROVE  RunsInv' /\ CopyInv' /\ KeysMove
<1>0. TypeOK /\ RunsInv BY DEF IInv
<1>1. <<u, n>> \in Jobs BY JobKinds
<1>2. job'[<<u, n>>] = q /\ \A i \in Jobs : i # <<u, n>> => job'[i] = job[i]
  BY <1>0, <1>1, JobMoves DEF Phases, InspectionPhases
<1>3. FilesGo BY <1>2 DEF FilesGo, FileGoes
<1>4. RowsMove BY RowMovesOn
<1>5. CopyInv' /\ CopiesKnown' /\ CopyGoes BY CopyStays
<1>6. NamesGo /\ RequestsGo BY DEF NamesGo, RequestsGo, Sent
<1>7. KeysMove BY <1>3, <1>4, <1>5, <1>6, KeysMoveOn
<1>8. RequestsFollow'
  <2>1. ASSUME NEW x \in Senders PROVE job'[<<x, 0>>] = "none" <=> job[<<x, 0>>] = "none"
    BY <1>2, JobKinds
  <2> QED BY <1>0, <2>1 DEF RunsInv, RequestsFollow
<1>9. OutputsFollow'
  <2>1. \A a \in Attachments : job'[<<a, 0>>] = job[<<a, 0>>]
    BY <1>2, SenderFiles, JobKinds
  <2>2. \A e \in Exports : job'[<<e, 0>>] = job[<<e, 0>>]
    <3>1. ASSUME NEW e \in Exports PROVE <<e, 0>> # <<u, n>> OBVIOUS
    <3> QED BY <1>2, <3>1, JobKinds
  <2> QED BY <1>0, <2>1, <2>2 DEF RunsInv, OutputsFollow
<1>10. DeadIsRunning' BY <1>0, <1>2 DEF TypeOK, RunsInv, DeadIsRunning
<1> QED BY <1>4, <1>5, <1>7, <1>8, <1>9, <1>10 DEF RunsInv, RowsMove

LEMMA ReserveKeepsInv ==
  ASSUME IInv, TypeOK', NEW u \in Uploads, ReserveRevision(u) PROVE IInv'
<1>0. TypeOK /\ RowsFollowRuns /\ RunsFollowRows /\ DeadIsRunning BY DEF IInv, RunsInv
<1>1. PICK r \in RevisionRows : r = [state |-> "pending", run |-> 0, thumb |-> {}]
  BY <1>0, ReserveRow
<1>2. rev' = [rev EXCEPT ![u] = r] BY <1>0, <1>1, ReserveRow
<1>3. job[<<u, 0>>] = "received" /\ 0 \in 0..MaxRetries BY DEF ReserveRevision
<1>4. ~Row(u) BY <1>0, <1>3 DEF RowsFollowRuns, Early
<1>5. \A m \in 0..MaxRetries : m > 0 => job[<<u, m>>] = "none"
  BY <1>0, <1>3 DEF RunsFollowRows, Early
<1>6. AwaitedThumb(<<u, 0>>) BY <1>3 DEF AwaitedThumb, Early
<1>7. PICK q \in {"reserved", "clearing"} :
        /\ Becomes(<<u, 0>>, q)
        /\ sweep' = sweep \/ (q = "clearing" /\ Asks(Reserves(<<u, 0>>), <<u, 0>>))
  BY DEF ReserveRevision, Commits
<1>8. RowTaken(u, 0, r, q) BY <1>1, <1>3, <1>4, <1>5, <1>6, <1>7 DEF RowTaken
<1>9. <<u, 0>> \notin dead BY <1>0, <1>3 DEF DeadIsRunning
<1>10. RunsInv' /\ CopyInv' /\ KeysMove
  <2>1. q \in {"reserved", "published", "clearing"} /\ Becomes(<<u, 0>>, q)
        /\ UNCHANGED <<att, art, tgt, http, mail, dead, copy, store>>
    BY <1>7 DEF ReserveRevision
  <2>2. job[<<u, 0>>] # "none" /\ (<<u, 0>> \in dead => q = "published") BY <1>3, <1>9
  <2> QED BY <1>2, <1>3, <1>8, <2>1, <2>2, RowStepsOn
<1>11. StoreMoves BY StoreStays DEF ReserveRevision
<1>12. <<u, 0>> \in Jobs /\ job'[<<u, 0>>] = q BY <1>0, <1>7, JobKinds, JobMoves DEF Phases, InspectionPhases
<1>13. NewSweeps BY <1>7, <1>10, <1>12, NoNewSweeps, PastAsks DEF Asks, Past
<1> QED BY <1>10, <1>11, <1>13, ObjectsStayNamed

LEMMA PublishKeepsInv ==
  ASSUME IInv, TypeOK', NEW u \in Uploads, NEW n \in 0..MaxRetries,
         Publish(<<u, n>>) \/ FailRevision(<<u, n>>)
  PROVE  IInv'
<1>0. TypeOK /\ RowsFollowRuns /\ RunsFollowRows /\ DeadIsRunning BY DEF IInv, RunsInv
<1>1. <<u, n>> \in Uploads \X (0..MaxRetries) /\ <<u, n>>[1] = u /\ <<u, n>>[2] = n
      /\ <<u, n>> \in Jobs /\ <<u, n>> \in Revisions /\ n \in Nat
  BY JobKinds DEF Revisions
<1>2. job[<<u, n>>] # "none" => (n > 0 => job[<<u, 0>>] \notin Early)
  BY <1>0 DEF RunsFollowRows
<1>3. Row(u) => \A m \in 0..MaxRetries : m > rev[u].run => job[<<u, m>>] = "none"
  BY <1>0 DEF RowsFollowRuns
<1>4. Owns(<<u, n>>) => rev[u].state = "pending" /\ rev[u].run = n /\ Row(u)
  BY <1>0, <1>1, RowStates DEF Owns
<1>5. CASE Publish(<<u, n>>)
  <2>1. job[<<u, n>>] = "drawn" /\ Owns(<<u, n>>) BY <1>5 DEF Publish
  <2>2. PICK r \in RevisionRows :
          /\ r = [state |-> "ready", run |-> rev[u].run, thumb |-> {Png(<<u, n>>)}]
          /\ rev' = [rev EXCEPT ![u] = r]
    BY <1>0, <1>1, <1>5, PublishRow
  <2>3. r.state = "ready" /\ r.run = n /\ r.thumb = {Png(<<u, n>>)} BY <1>4, <2>1, <2>2
  <2>4. RowTaken(u, n, r, "published") BY <1>1, <1>2, <1>3, <1>4, <2>1, <2>3 DEF RowTaken
  <2>5. RunsInv' /\ CopyInv' /\ KeysMove BY <1>5, <2>1, <2>2, <2>4, RowStepsOn DEF Publish
  <2>6. StoreMoves /\ NewSweeps BY <1>5, StoreStays, NoNewSweeps DEF Publish
  <2> QED BY <2>5, <2>6, ObjectsStayNamed
<1>6. CASE FailRevision(<<u, n>>)
  <2>1. job[<<u, n>>] = "failing" /\ Becomes(<<u, n>>, "clearing") BY <1>6 DEF FailRevision
  <2>2. job'[<<u, n>>] = "clearing" BY <1>0, <1>1, <2>1, JobMoves DEF Phases
  <2>3. <<u, n>> \notin dead BY <1>0, <2>1 DEF DeadIsRunning
  <2>4. RunsInv' /\ CopyInv' /\ KeysMove
    <3>1. CASE Row(u) /\ Owns(<<u, n>>)
      <4>1. PICK r \in RevisionRows :
              /\ r = [state |-> "failed", run |-> rev[u].run, thumb |-> rev[u].thumb]
              /\ rev' = [rev EXCEPT ![u] = r]
        BY <1>0, <1>1, <1>6, <3>1, FailRow
      <4>2. rev[u].thumb = {} BY <1>0, <1>4, <3>1 DEF RowsFollowRuns
      <4>3. r.state = "failed" /\ r.run = n /\ r.thumb = {} BY <1>4, <3>1, <4>1, <4>2
      <4>4. RowTaken(u, n, r, "clearing") BY <1>1, <1>2, <1>3, <1>4, <2>1, <3>1, <4>3 DEF RowTaken
      <4> QED BY <1>6, <2>1, <2>3, <4>1, <4>4, RowStepsOn DEF FailRevision
    <3>2. CASE ~(Row(u) /\ Owns(<<u, n>>))
      <4>1. UNCHANGED docs BY <1>1, <1>6, <3>2 DEF FailRevision, docs
      <4>2. FileGoes(<<u, n>>) BY <2>1, <2>2 DEF FileGoes
      <4>3. RunGoes(<<u, n>>) BY <2>1, <2>2 DEF RunGoes
      <4> QED BY <1>1, <1>6, <2>1, <2>3, <4>1, <4>2, <4>3, RunMovesOn
            DEF FailRevision, Phases, Running
    <3> QED BY <3>1, <3>2
  <2>5. {Png(<<u, n>>)} \in SUBSET Reserves(<<u, n>>) BY <1>1, OwnReserves
  <2>6. NewSweeps BY <1>1, <1>6, <2>2, <2>4, <2>5, PastAsks DEF FailRevision, Asks, Past
  <2>7. StoreMoves BY <1>6, StoreStays DEF FailRevision
  <2> QED BY <2>4, <2>6, <2>7, ObjectsStayNamed
<1> QED BY <1>5, <1>6

LEMMA RetryKeepsInv ==
  ASSUME IInv, TypeOK', NEW u \in Uploads, NEW n \in 0..MaxRetries, Retry(u, n) PROVE IInv'
<1>0. TypeOK /\ RowsFollowRuns /\ RunsFollowRows /\ DeadIsRunning BY DEF IInv, RunsInv
<1>1. Row(u) /\ n = rev[u].run + 1 /\ rev[u].state # "ready" BY <1>0, RetryRow DEF Retry
<1>2. rev[u].run \in Nat /\ n > rev[u].run /\ n > 0 BY <1>0, <1>1, RunNumbers
<1>3. PICK r \in RevisionRows :
        /\ r = [state |-> "pending", run |-> n, thumb |-> rev[u].thumb]
        /\ rev' = [rev EXCEPT ![u] = r]
  BY <1>0, RetryRow
<1>4. rev[u].thumb = {} /\ job[<<u, 0>>] \notin Early
      /\ \A m \in 0..MaxRetries : m > rev[u].run => job[<<u, m>>] = "none"
  BY <1>0, <1>1 DEF RowsFollowRuns
<1>5. \A m \in 0..MaxRetries : m > n => job[<<u, m>>] = "none" BY <1>2, <1>4
<1>6. AwaitedThumb(<<u, n>>) BY <1>1, <1>2 DEF AwaitedThumb
<1>7. r.state = "pending" /\ r.run = n /\ r.thumb = {} BY <1>3, <1>4
<1>8. RowTaken(u, n, r, "reserved") BY <1>1, <1>2, <1>4, <1>5, <1>6, <1>7 DEF RowTaken
<1>9. <<u, n>> \notin dead BY <1>0, <1>2, <1>4 DEF DeadIsRunning
<1>10. RunsInv' /\ CopyInv' /\ KeysMove
  BY <1>2, <1>3, <1>8, <1>9, RowStepsOn DEF Retry
<1>11. StoreMoves /\ NewSweeps BY StoreStays, NoNewSweeps DEF Retry
<1> QED BY <1>10, <1>11, ObjectsStayNamed

LEMMA StartKeepsInv ==
  ASSUME IInv, TypeOK', NEW x \in Senders, StartUpload(x) PROVE IInv'
<1>0. TypeOK /\ RunsInv /\ <<x, 0>> \in Jobs BY JobKinds DEF IInv
<1>1. job[<<x, 0>>] = "none" /\ mail[x] # "complete"
  BY <1>0 DEF StartUpload, RunsInv, RequestsFollow
<1>2. job'[<<x, 0>>] = "waiting" /\ \A i \in Jobs : i # <<x, 0>> => job'[i] = job[i]
  BY <1>0, JobMoves DEF StartUpload, Phases
<1>3. http'[x] = "sending" /\ mail' = mail /\ \A y \in Senders : y # x => http'[y] = http[y]
  BY <1>0 DEF StartUpload, TypeOK
<1>4. FilesGo BY <1>1, <1>2, <1>3 DEF FilesGo, FileGoes, Sent
<1>5. RunsGo
  <2>1. \A j \in Revisions : job'[j] # job[j] => j = <<x, 0>> BY <1>2, RevisionPairs
  <2> QED BY <1>1, <1>2, <2>1 DEF RunsGo, RunGoes
<1>6. RowsMove BY <1>4, <1>5, RowsStayOn DEF RowsStay, StartUpload, docs
<1>7. CopyInv' /\ CopiesKnown' /\ CopyGoes BY CopyStays DEF StartUpload, docs
<1>8. NamesGo BY DEF NamesGo, StartUpload, docs
<1>9. RequestsGo BY <1>1, <1>3 DEF RequestsGo, Sent
<1>10. KeysMove BY <1>4, <1>6, <1>7, <1>8, <1>9, KeysMoveOn
<1>11. RequestsFollow' BY <1>0, <1>1, <1>2, <1>3, JobKinds DEF RunsInv, RequestsFollow
<1>12. OutputsFollow'
  <2>1. \A a \in Attachments : job[<<a, 0>>] # "none" => job'[<<a, 0>>] = job[<<a, 0>>]
    BY <1>1, <1>2, SenderFiles, JobKinds
  <2>2. \A e \in Exports : job[<<e, 0>>] # "none" => job'[<<e, 0>>] = job[<<e, 0>>]
    BY <1>1, <1>2, JobKinds
  <2> QED BY <1>0, <2>1, <2>2 DEF RunsInv, OutputsFollow, StartUpload, Early, docs
<1>13. DeadIsRunning' BY <1>0, <1>1, <1>2 DEF TypeOK, RunsInv, DeadIsRunning, StartUpload
<1>14. StoreMoves /\ NewSweeps BY StoreStays, NoNewSweeps DEF StartUpload
<1>15. RunsInv' BY <1>6, <1>11, <1>12, <1>13 DEF RunsInv, RowsMove
<1> QED BY <1>7, <1>10, <1>14, <1>15, ObjectsStayNamed

\* The execution of an attachment, or of an export, makes its row.
LEMMA OutputKeepsInv ==
  ASSUME IInv, TypeOK', NEW x \in Attachments \cup Exports,
         NEW q \in {"ended", "clearing", "recorded"}, Becomes(<<x, 0>>, q),
         IF x \in Attachments THEN job[<<x, 0>>] = "validated"
                              ELSE job[<<x, 0>>] = "built",
         sweep' = sweep \/ Asks(Reserves(<<x, 0>>), <<x, 0>>),
         \A a \in Attachments : att'[a] # "none" => att[a] # "none" \/ a = x,
         \A e \in Exports : art'[e] # "none" => art[e] # "none" \/ e = x,
         UNCHANGED <<rev, tgt, http, mail, dead, copy, store>>
  PROVE  IInv'
<1>0. TypeOK /\ RunsInv /\ <<x, 0>> \in Jobs /\ <<x, 0>> \notin Revisions
  BY SenderFiles, JobKinds DEF IInv, Revisions
<1>1. job'[<<x, 0>>] = q /\ \A i \in Jobs : i # <<x, 0>> => job'[i] = job[i]
  BY <1>0, JobMoves DEF Phases
<1>2. FilesGo BY <1>1 DEF FilesGo, FileGoes
<1>3. RunsGo BY <1>0, <1>1, RevisionPairs DEF RunsGo
<1>4. RowsMove BY <1>2, <1>3, RowsStayOn DEF RowsStay
<1>5. CopyInv' /\ CopiesKnown' /\ CopyGoes BY CopyStays
<1>6. NamesGo /\ RequestsGo BY DEF NamesGo, RequestsGo, Sent
<1>7. KeysMove BY <1>2, <1>4, <1>5, <1>6, KeysMoveOn
<1>8. RequestsFollow'
  <2>1. ASSUME NEW y \in Senders PROVE job'[<<y, 0>>] = "none" <=> job[<<y, 0>>] = "none"
    BY <1>1, JobKinds
  <2> QED BY <1>0, <2>1 DEF RunsInv, RequestsFollow
<1>9. OutputsFollow'
  <2>1. ASSUME NEW a \in Attachments, att'[a] # "none"
        PROVE  job'[<<a, 0>>] \notin Early \cup {"validated"}
    <3>1. CASE a = x BY <1>1, <3>1 DEF Early
    <3>2. CASE a # x
      <4>1. job[<<a, 0>>] \notin Early \cup {"validated"}
        BY <1>0, <2>1, <3>2 DEF RunsInv, OutputsFollow
      <4> QED BY <1>1, <3>2, <4>1, SenderFiles, JobKinds
    <3> QED BY <3>1, <3>2
  <2>2. ASSUME NEW e \in Exports, art'[e] # "none"
        PROVE  job'[<<e, 0>>] \notin {"none", "waiting", "built"}
    <3>1. CASE e = x BY <1>1, <3>1
    <3>2. CASE e # x
      <4>1. job[<<e, 0>>] \notin {"none", "waiting", "built"}
        BY <1>0, <2>2, <3>2 DEF RunsInv, OutputsFollow
      <4> QED BY <1>1, <3>2, <4>1, JobKinds
    <3> QED BY <3>1, <3>2
  <2> QED BY <1>0, <2>1, <2>2 DEF RunsInv, OutputsFollow
<1>10. DeadIsRunning' BY <1>0, <1>1 DEF TypeOK, RunsInv, DeadIsRunning
<1>11. RunsInv' BY <1>4, <1>8, <1>9, <1>10 DEF RunsInv, RowsMove
<1>12. StoreMoves BY StoreStays
<1>13. NewSweeps BY <1>0, <1>1, <1>11, NoNewSweeps, PastAsks DEF Asks, Past
<1> QED BY <1>5, <1>7, <1>11, <1>12, <1>13, ObjectsStayNamed

-------------------------------------------------------------------------------
(* The theorems. *)

LEMMA UploadKeepsInv ==
  ASSUME IInv, TypeOK', NEW u \in Uploads, UploadStep(u) PROVE IInv'
<1>0. u \in Senders BY DEF Senders
<1>1. ASSUME NEW j \in RunsOf(u), Inspection(j) \/ Retry(u, j[2]) \/ Fault(j) \/ Cleared(j)
      PROVE  IInv'
  <2>1. PICK n \in 0..MaxRetries : j = <<u, n>> BY DEF RunsOf
  <2>2. j \in Revisions /\ j \in Jobs /\ j[2] = n BY <2>1, JobKinds DEF Revisions
  <2>3. CASE Look(j) \/ Draw(j) \/ Superseded(j) BY <2>2, <2>3, LookKeepsInv
  <2>4. CASE Publish(j) \/ FailRevision(j) BY <2>1, <2>4, PublishKeepsInv
  <2>5. CASE StepEnds(j) \/ StepRefuses(j) \/ StepBreaks(j) BY <2>2, <2>5, StepEndsKeepsInv
  <2>6. CASE Retry(u, j[2]) BY <2>2, <2>6, RetryKeepsInv
  <2>7. CASE Redo(j) BY <2>2, <2>7, RedoKeepsInv
  <2>8. CASE Cleared(j) \/ Die(j) BY <2>2, <2>8, EndsKeepsInv
  <2>9. CASE Outlive(j) BY <2>2, <2>9, CollectKeepsInv
  <2> QED BY <1>1, <2>3, <2>4, <2>5, <2>6, <2>7, <2>8, <2>9 DEF Inspection, Fault
<1>2. CASE Request(u) BY <1>0, <1>2, StartKeepsInv, RequestKeepsInv DEF Request
<1>3. CASE UploadRuns(u) BY <1>0, <1>3, SenderSteps, ReserveKeepsInv DEF UploadRuns
<1>4. CASE DeleteRevision(u) BY <1>4, DeleteKeepsInv
<1> QED BY <1>1, <1>2, <1>3, <1>4 DEF UploadStep

LEMMA AttachmentKeepsInv ==
  ASSUME IInv, TypeOK', NEW a \in Attachments, AttachmentStep(a) PROVE IInv'
<1>0. a \in Senders /\ <<a, 0>> \in Jobs /\ TypeOK BY JobKinds DEF Senders, IInv
<1>1. CASE CommitAttachment(a)
  <2>1. \A b \in Attachments : att'[b] # "none" => att[b] # "none" \/ b = a
    BY <1>1 DEF CommitAttachment
  <2>2. PICK q \in {"ended", "clearing"} :
          /\ Becomes(<<a, 0>>, q)
          /\ sweep' = sweep \/ Asks(Reserves(<<a, 0>>), <<a, 0>>)
    BY <1>1 DEF CommitAttachment, Commits
  <2> QED BY <1>1, <2>1, <2>2, OutputKeepsInv DEF CommitAttachment
<1>2. CASE Request(a) BY <1>0, <1>2, StartKeepsInv, RequestKeepsInv DEF Request
<1>3. CASE Receive(a) \/ Abandon(a) BY <1>0, <1>3, SenderSteps
<1>4. CASE ValidateAttachment(a) BY <1>4, ValidateKeepsInv
<1>5. CASE DeleteAttachment(a) BY <1>5, DeleteKeepsInv
<1>6. CASE Cleared(<<a, 0>>) \/ Die(<<a, 0>>) BY <1>0, <1>6, EndsKeepsInv
<1> QED BY <1>1, <1>2, <1>3, <1>4, <1>5, <1>6 DEF AttachmentStep, AttachmentRuns

LEMMA ExportStepKeepsInv ==
  ASSUME IInv, TypeOK', NEW e \in Exports, ExportStep(e) PROVE IInv'
<1>0. <<e, 0>> \in Jobs /\ TypeOK /\ e \notin Attachments BY JobKinds DEF IInv
<1>1. CASE RecordArtifact(e)
  <2>1. \A x \in Exports : art'[x] # "none" => art[x] # "none" \/ x = e
    BY <1>0, <1>1 DEF RecordArtifact, TypeOK
  <2> QED BY <1>0, <1>1, <2>1, OutputKeepsInv DEF RecordArtifact
<1>2. CASE StartExport(e) \/ Build(e) \/ ExportRaises(e) \/ ExportEnds(e)
  BY <1>2, ExportKeepsInv
<1>3. CASE Expire(e) \/ Retire(e) BY <1>3, DeleteKeepsInv
<1>4. CASE Cleared(<<e, 0>>) \/ Die(<<e, 0>>) BY <1>0, <1>4, EndsKeepsInv
<1> QED BY <1>1, <1>2, <1>3, <1>4 DEF ExportStep, ExportRuns

LEMMA NextKeepsInv == IInv /\ [Next]_vars => IInv'
<1> SUFFICES ASSUME IInv, [Next]_vars PROVE IInv' OBVIOUS
<1>0. TypeOK' BY NextType DEF IInv
<1>1. CASE Next
  BY <1>0, <1>1, UploadKeepsInv, AttachmentKeepsInv, ExportStepKeepsInv, CopyKeepsInv,
     CollectKeepsInv, DeleteKeepsInv DEF Next
<1>2. CASE UNCHANGED vars
  <2>1. RunsInv' /\ CopyInv' /\ KeysMove
    BY <1>0, <1>2, DocumentsStay, DeadStays DEF vars, docs
  <2>2. StoreMoves /\ NewSweeps BY <1>2, StoreStays, NoNewSweeps DEF vars
  <2> QED BY <1>0, <2>1, <2>2, ObjectsStayNamed
<1> QED BY <1>1, <1>2

LEMMA InitInv == Init => IInv
<1> SUFFICES ASSUME Init PROVE IInv OBVIOUS
<1>0. TypeOK BY InitType
<1>1. RunsInv
  <2>1. \A u \in Uploads : ~Row(u) BY DEF Init, Row
  <2>2. \A x \in Senders : job[<<x, 0>>] = "none" BY JobKinds DEF Init
  <2>3. \A u \in Uploads, n \in 0..MaxRetries : job[<<u, n>>] = "none" BY JobKinds DEF Init
  <2> QED BY <2>1, <2>2, <2>3
      DEF Init, RunsInv, RowsFollowRuns, RunsFollowRows, RequestsFollow, OutputsFollow,
          DeadIsRunning
<1>2. CopyInv BY DEF Init, CopyInv, CopiesKnown, NoCopy
<1>3. PromisedByKind /\ ReferencedByKind
  BY <1>0, <1>1, <1>2, PromisedKeys, ReferencedKeys DEF RunsInv, CopyInv
<1>4. Referenced \subseteq store
  <2>1. \A u \in Uploads : ~Row(u) /\ rev[u].state = "none" BY NoRowTypes DEF Init, Row
  <2>2. \A u \in Uploads : Pdf(u) \notin Referenced BY <1>3, <2>1 DEF ReferencedByKind
  <2>3. \A j \in Revisions : Png(j) \notin Referenced
    BY <1>3, <2>1, RevisionPairs DEF ReferencedByKind
  <2>4. \A a \in Attachments : Bin(a) \notin Referenced BY <1>3 DEF ReferencedByKind, Init
  <2>5. \A e \in Exports : Out(e) \notin Referenced BY <1>3 DEF ReferencedByKind, Init
  <2>6. \A k \in OwnKeys : CopyOf(k) \notin Referenced BY <1>3 DEF ReferencedByKind, Init
  <2> QED BY <1>3, <2>2, <2>3, <2>4, <2>5, <2>6, ByKinds DEF ReferencedByKind
<1>5. Promised \subseteq store
  <2>1. \A x \in Senders : ~PromisedFile(x) BY JobKinds DEF Init, PromisedFile
  <2>2. \A u \in Uploads : Pdf(u) \notin Promised BY <1>3, <2>1, SenderFiles DEF PromisedByKind
  <2>3. \A j \in Revisions : Png(j) \notin Promised
    BY <1>3, RevisionPairs DEF PromisedByKind, Init
  <2>4. \A a \in Attachments : Bin(a) \notin Promised
    BY <1>3, <2>1, SenderFiles, JobKinds DEF PromisedByKind, Init
  <2>5. \A e \in Exports : Out(e) \notin Promised BY <1>3, JobKinds DEF PromisedByKind, Init
  <2>6. \A k \in OwnKeys : CopyOf(k) \notin Promised
    BY <1>3 DEF PromisedByKind, PromisedCopies, Init, NoCopy
  <2> QED BY <1>3, <2>2, <2>3, <2>4, <2>5, <2>6, ByKinds DEF PromisedByKind
<1> QED BY <1>0, <1>1, <1>2, <1>4, <1>5 DEF Init, IInv, StoreInv, NamedIsStored, SweptIsOver

LEMMA Invariance == Spec => []IInv
BY InitInv, NextKeepsInv, PTL DEF Spec

\* What a File Revision, an attachment, an artifact or a copied Item names is in
\* the store, whatever requests, executions, retries, copies and deletions meet.
THEOREM NamedObjectsStay == Spec => []NamedIsStored
<1>1. IInv => NamedIsStored BY DEF IInv, StoreInv
<1> QED BY <1>1, Invariance, PTL

\* A row shows the outcome of the execution it belongs to.
THEOREM OutcomesAreTheOwners == Spec => []OutcomeIsOwners
<1>1. IInv => OutcomeIsOwners BY DEF IInv, RunsInv, RowsFollowRuns, OutcomeIsOwners
<1> QED BY <1>1, Invariance, PTL

AtMostOne == \A a, b \in Attachments : att[a] = "abstract" /\ att[b] = "abstract" => a = b

LEMMA AtMostOneStays == TypeOK /\ AtMostOne /\ [Next]_vars => AtMostOne'
<1> SUFFICES ASSUME TypeOK, AtMostOne, [Next]_vars PROVE AtMostOne' OBVIOUS
<1>1. ASSUME \A a \in Attachments : att'[a] = "abstract" => att[a] = "abstract"
      PROVE  AtMostOne'
  BY <1>1 DEF AtMostOne
<1>2. ASSUME NEW a \in Attachments, CommitAttachment(a) PROVE AtMostOne'
  <2>1. CASE a \in Abstracts
    <3>1. \A b \in Attachments : att'[b] = "abstract" => b = a
      BY <1>2, <2>1 DEF CommitAttachment
    <3> QED BY <3>1 DEF AtMostOne
  <2>2. CASE a \notin Abstracts
    <3>1. \A b \in Attachments : att'[b] = "abstract" => att[b] = "abstract"
      BY <1>2, <2>2 DEF CommitAttachment
    <3> QED BY <1>1, <3>1
  <2> QED BY <2>1, <2>2
<1>3. ASSUME NEW a \in Attachments, AttachmentStep(a) PROVE AtMostOne'
  <2>1. CASE DeleteAttachment(a)
    <3>1. \A b \in Attachments : att'[b] = "abstract" => att[b] = "abstract"
      BY <2>1 DEF DeleteAttachment, TypeOK
    <3> QED BY <1>1, <3>1
  <2>2. CASE CommitAttachment(a) BY <1>2, <2>2
  <2>3. CASE Request(a) \/ Receive(a) \/ Abandon(a) \/ ValidateAttachment(a)
             \/ Cleared(<<a, 0>>) \/ Die(<<a, 0>>)
    BY <1>1, <2>3 DEF Request, StartUpload, PutObject, SendComplete, UploadFails, Receive,
       Abandon, ValidateAttachment, Cleared, Die, docs
  <2> QED BY <1>3, <2>1, <2>2, <2>3 DEF AttachmentStep, AttachmentRuns
<1>4. ASSUME NEW u \in Uploads, UploadStep(u) PROVE AtMostOne'
  <2>1. att' = att
    <3>1. CASE Request(u) \/ UploadRuns(u) \/ DeleteRevision(u)
      BY <3>1 DEF Request, StartUpload, PutObject, SendComplete, UploadFails, UploadRuns, Receive,
         Abandon, ReserveRevision, DeleteRevision, docs
    <3>2. ASSUME NEW j, Inspection(j) PROVE att' = att
      BY <3>2 DEF Inspection, Look, Draw, Publish, Superseded, StepEnds, StepRefuses, GivesUp,
         FailRevision, docs
    <3>3. ASSUME NEW j, Retry(u, j[2]) \/ Fault(j) \/ Cleared(j) PROVE att' = att
      BY <3>3 DEF Retry, Fault, Redo, StepBreaks, GivesUp, Die, Outlive, Cleared, docs
    <3> QED BY <1>4, <3>1, <3>2, <3>3 DEF UploadStep
  <2> QED BY <1>1, <2>1
<1>5. ASSUME NEW e \in Exports, ExportStep(e) PROVE AtMostOne'
  BY <1>1, <1>5 DEF ExportStep, StartExport, ExportRuns, Build, RecordArtifact, ExportRaises,
     ExportEnds, Expire, Retire, Cleared, Die, docs
<1>6. CASE CopyStep
  BY <1>1, <1>6 DEF CopyStep, StartCopy, Install, CopyFails, CopyObject, docs
<1>7. CASE ObjectStep \/ Authority
  BY <1>1, <1>7 DEF ObjectStep, Collect, Recheck, Remove, Drop, Scan, Authority, docs
<1>8. CASE DeleteItem BY <1>8 DEF DeleteItem, AtMostOne
<1>9. CASE UNCHANGED vars BY <1>1, <1>9 DEF vars, docs
<1> QED BY <1>3, <1>4, <1>5, <1>6, <1>7, <1>8, <1>9 DEF Next

\* Finalizers that meet leave one graphical abstract.
THEOREM AbstractsAreOne == Spec => []OneAbstract
<1>1. Init => AtMostOne BY DEF Init, AtMostOne
<1>2. AtMostOne => OneAbstract
  <2> SUFFICES ASSUME AtMostOne PROVE OneAbstract OBVIOUS
  <2> DEFINE A == {a \in Attachments : att[a] = "abstract"}
  <2>1. CASE A = {} BY <2>1, FS_EmptySet DEF OneAbstract
  <2>2. CASE A # {}
    <3>1. PICK a \in A : TRUE BY <2>2
    <3>2. A = {a} BY <3>1 DEF AtMostOne
    <3>3. Cardinality(A) = 1 BY <3>2, FS_Singleton
    <3> QED BY <3>3 DEF OneAbstract
  <2> QED BY <2>1, <2>2
<1> QED BY <1>1, <1>2, AtMostOneStays, TypeCorrect, PTL DEF Spec

\* A copied Item gets the Documents its source has when it is installed.
THEOREM CopiesAreCurrent == Spec => CopyIsCurrent
<1>1. IInv /\ [Next]_vars => [tgt' # tgt => tgt' = {CopyOf(k) : k \in ItemKeys'}]_vars
  <2> SUFFICES ASSUME IInv, Next, tgt' # tgt PROVE tgt' = {CopyOf(k) : k \in ItemKeys'}
    OBVIOUS
  <2>1. Install
    <3>1. ASSUME NEW u \in Uploads, UploadStep(u) PROVE tgt' = tgt
      <4>1. CASE Request(u) \/ UploadRuns(u) \/ DeleteRevision(u)
        BY <4>1 DEF Request, StartUpload, PutObject, SendComplete, UploadFails, UploadRuns, Receive,
           Abandon, ReserveRevision, DeleteRevision, docs
      <4>2. ASSUME NEW j, Inspection(j) PROVE tgt' = tgt
        BY <4>2 DEF Inspection, Look, Draw, Publish, Superseded, StepEnds, StepRefuses, GivesUp,
           FailRevision, docs
      <4>3. ASSUME NEW j, Retry(u, j[2]) \/ Fault(j) \/ Cleared(j) PROVE tgt' = tgt
        BY <4>3 DEF Retry, Fault, Redo, StepBreaks, GivesUp, Die, Outlive, Cleared, docs
      <4> QED BY <3>1, <4>1, <4>2, <4>3 DEF UploadStep
    <3>2. ASSUME NEW a \in Attachments, AttachmentStep(a) PROVE tgt' = tgt
      BY <3>2 DEF AttachmentStep, AttachmentRuns, Request, StartUpload, PutObject, SendComplete,
         UploadFails, Receive, Abandon, ValidateAttachment, CommitAttachment, DeleteAttachment,
         Cleared, Die, docs
    <3>3. ASSUME NEW e \in Exports, ExportStep(e) PROVE tgt' = tgt
      BY <3>3 DEF ExportStep, StartExport, ExportRuns, Build, RecordArtifact, ExportRaises,
         ExportEnds, Expire, Retire, Cleared, Die, docs
    <3>4. CASE ObjectStep \/ Authority \/ DeleteItem
      BY <3>4 DEF ObjectStep, Collect, Recheck, Remove, Drop, Scan, Authority, DeleteItem, docs
    <3>5. CASE CopyStep
      BY <3>5 DEF CopyStep, StartCopy, CopyFails, CopyObject, docs
    <3> QED BY <3>1, <3>2, <3>3, <3>4, <3>5 DEF Next
  <2>2. SnapshotKeys = ItemKeys /\ ItemKeys' = ItemKeys
    BY <2>1 DEF Install, SnapshotKeys, ItemKeys, RevisionKeys, AttachmentKeys
  <2>3. copy.done = {CopyOf(k) : k \in SnapshotKeys}
    BY <2>1 DEF Install, CopyIsComplete, IInv, CopyInv
  <2> QED BY <2>1, <2>2, <2>3 DEF Install
<1> QED BY <1>1, Invariance, PTL DEF Spec, CopyIsCurrent

-------------------------------------------------------------------------------
(* What is served of a PDF.                                                  *)

\* Whatever the header and the size of the PDF, empty ones included, the bytes
\* ranged_object serves are those the header asks for.
THEOREM RangesAreExact ==
  ASSUME NEW r \in RangeHeaders, NEW size \in Nat
  PROVE  RangeIsExact(r, size)
<1> DEFINE f == First(r, size)
           l == Last(r, size)
<1>1. /\ f \in Nat /\ l \in Int /\ l < size
      /\ f < size => \A b \in 0..(size - 1) : Wanted(r, size, b) <=> f <= b /\ b <= l
      /\ f >= size => \A b \in 0..(size - 1) : ~Wanted(r, size, b)
  <2>1. CASE r \in [kind : {"between"}, first : Nat, last : Nat]
    <3>1. r.kind = "between" /\ r.first \in Nat /\ r.last \in Nat
      BY <2>1
    <3>2. f = r.first /\ l = IF r.last < size - 1 THEN r.last ELSE size - 1
      BY <3>1 DEF First, Last
    <3>3. \A b : Wanted(r, size, b) <=> r.first <= b /\ b <= r.last
      BY <3>1 DEF Wanted
    <3>. QED  BY <3>1, <3>2, <3>3
  <2>2. CASE r \in [kind : {"from"}, first : Nat]
    <3>1. r.kind = "from" /\ r.first \in Nat
      BY <2>2
    <3>2. f = r.first /\ l = size - 1
      BY <3>1 DEF First, Last
    <3>3. \A b : Wanted(r, size, b) <=> r.first <= b
      BY <3>1 DEF Wanted
    <3>. QED  BY <3>1, <3>2, <3>3
  <2>3. CASE r \in [kind : {"suffix"}, length : Nat]
    <3>1. r.kind = "suffix" /\ r.length \in Nat
      BY <2>3
    <3>2. f = (IF r.length > size THEN 0 ELSE size - r.length) /\ l = size - 1
      BY <3>1 DEF First, Last
    <3>3. \A b : Wanted(r, size, b) <=> size - b <= r.length
      BY <3>1 DEF Wanted
    <3>. QED  BY <3>1, <3>2, <3>3
  <2>. QED  BY <2>1, <2>2, <2>3 DEF RangeHeaders
<1>2. ObjectRange(r, size)[1] = f /\ ObjectRange(r, size)[2] = l + 1
  BY DEF ObjectRange
<1>3. Satisfiable(r, size) <=> f < size /\ f <= l
  BY DEF Satisfiable
<1>4. ContentLength(r, size) = l - f + 1
  BY DEF ContentLength
<1> HIDE DEF f, l
<1>. QED  BY <1>1, <1>2, <1>3, <1>4 DEF RangeIsExact, GetRangeAccepts

-------------------------------------------------------------------------------
(* Annotations: rows, and what clients have seen of them. *)

AnnRows == Notes!AnnotationRows
ReplyRows == Notes!ReplyRows
OrNone(S) == S \cup {Notes!Never, Notes!Gone}

LEMMA RowFields ==
  /\ \A r \in AnnRows : r.version \in 1..MaxVersion /\ r.content \in 1..MaxVersion
                        /\ r.deleted \in Notes!Deletions /\ r.locked \in BOOLEAN
                        /\ r.veil \in SUBSET {"hidden", "archived"}
  /\ \A r \in ReplyRows : r.version \in 1..MaxVersion /\ r.content \in 1..MaxVersion
                          /\ r.deleted \in Notes!Deletions
BY DEF AnnRows, ReplyRows, Notes!AnnotationRows, Notes!ReplyRows

LEMMA RowKinds ==
  ASSUME NEW S \in {AnnRows, ReplyRows}, NEW r \in OrNone(S)
  PROVE  /\ Notes!Row(r) <=> r \in S
         /\ r \in S => r.version \in Nat \ {0} /\ r.version \in 1..MaxVersion
         /\ r = Notes!Never \/ r = Notes!Gone => r.version = 0 /\ r \notin S
<1>1. MaxVersion \in Nat \ {0} BY AnnotationsAssumption DEF Notes!MaxVersionAssumption
<1>2. \A q \in S : q.version \in 1..MaxVersion BY RowFields
<1>3. Notes!Never.version = 0 /\ Notes!Gone.version = 0 BY DEF Notes!Never, Notes!Gone
<1> QED BY <1>1, <1>2, <1>3 DEF OrNone, Notes!Row

LEMMA AnnotationFields ==
  ASSUME NEW r \in AnnRows
  PROVE  /\ \A v \in 1..MaxVersion :
              /\ [r EXCEPT !.version = v] =
                   [scope |-> r.scope, version |-> v, content |-> r.content,
                    deleted |-> r.deleted, veil |-> r.veil, locked |-> r.locked]
              /\ [r EXCEPT !.content = v] =
                   [scope |-> r.scope, version |-> r.version, content |-> v,
                    deleted |-> r.deleted, veil |-> r.veil, locked |-> r.locked]
         /\ \A d \in Notes!Deletions : [r EXCEPT !.deleted = d] =
              [scope |-> r.scope, version |-> r.version, content |-> r.content,
               deleted |-> d, veil |-> r.veil, locked |-> r.locked]
         /\ \A w \in SUBSET {"hidden", "archived"} : [r EXCEPT !.veil = w] =
              [scope |-> r.scope, version |-> r.version, content |-> r.content,
               deleted |-> r.deleted, veil |-> w, locked |-> r.locked]
         /\ \A b \in BOOLEAN : [r EXCEPT !.locked = b] =
              [scope |-> r.scope, version |-> r.version, content |-> r.content,
               deleted |-> r.deleted, veil |-> r.veil, locked |-> b]
<1>1. \A v \in 1..MaxVersion : [r EXCEPT !.version = v] =
        [scope |-> r.scope, version |-> v, content |-> r.content,
         deleted |-> r.deleted, veil |-> r.veil, locked |-> r.locked]
  BY DEF AnnRows, Notes!AnnotationRows
<1>2. \A v \in 1..MaxVersion : [r EXCEPT !.content = v] =
        [scope |-> r.scope, version |-> r.version, content |-> v,
         deleted |-> r.deleted, veil |-> r.veil, locked |-> r.locked]
  BY DEF AnnRows, Notes!AnnotationRows
<1>3. \A d \in Notes!Deletions : [r EXCEPT !.deleted = d] =
        [scope |-> r.scope, version |-> r.version, content |-> r.content,
         deleted |-> d, veil |-> r.veil, locked |-> r.locked]
  BY DEF AnnRows, Notes!AnnotationRows
<1>4. \A w \in SUBSET {"hidden", "archived"} : [r EXCEPT !.veil = w] =
        [scope |-> r.scope, version |-> r.version, content |-> r.content,
         deleted |-> r.deleted, veil |-> w, locked |-> r.locked]
  BY DEF AnnRows, Notes!AnnotationRows
<1>5. \A b \in BOOLEAN : [r EXCEPT !.locked = b] =
        [scope |-> r.scope, version |-> r.version, content |-> r.content,
         deleted |-> r.deleted, veil |-> r.veil, locked |-> b]
  BY DEF AnnRows, Notes!AnnotationRows
<1> QED BY <1>1, <1>2, <1>3, <1>4, <1>5, Zenon

LEMMA ReplyFields ==
  ASSUME NEW r \in ReplyRows
  PROVE  /\ \A v \in 1..MaxVersion :
              /\ [r EXCEPT !.version = v] =
                   [version |-> v, content |-> r.content, deleted |-> r.deleted]
              /\ [r EXCEPT !.content = v] =
                   [version |-> r.version, content |-> v, deleted |-> r.deleted]
         /\ \A d \in Notes!Deletions : [r EXCEPT !.deleted = d] =
              [version |-> r.version, content |-> r.content, deleted |-> d]
BY DEF ReplyRows, Notes!ReplyRows

LEMMA RowsTyped ==
  /\ \A r \in AnnRows, v, k \in 1..MaxVersion, d \in Notes!Deletions,
        w \in SUBSET {"hidden", "archived"}, b \in BOOLEAN :
       [scope |-> r.scope, version |-> v, content |-> k, deleted |-> d,
        veil |-> w, locked |-> b] \in AnnRows
  /\ \A v, k \in 1..MaxVersion, d \in Notes!Deletions :
       [version |-> v, content |-> k, deleted |-> d] \in ReplyRows
BY DEF AnnRows, ReplyRows, Notes!AnnotationRows, Notes!ReplyRows

\* An authored change of an Annotation or of a Reply, and a moderated change.
Rewritten(r, v, k, d) == [r EXCEPT !.version = v, !.content = k, !.deleted = d]
Marked(r, v, w, b) == [r EXCEPT !.version = v, !.veil = w, !.locked = b]

LEMMA Authored ==
  ASSUME NEW r \in AnnRows, NEW v \in 1..MaxVersion, NEW k \in 1..MaxVersion,
         NEW d \in Notes!Deletions
  PROVE  Rewritten(r, v, k, d) \in AnnRows /\ Rewritten(r, v, k, d).version = v
<1>1. PICK q : q = [r EXCEPT !.version = v] OBVIOUS
<1>2. q = [scope |-> r.scope, version |-> v, content |-> r.content,
           deleted |-> r.deleted, veil |-> r.veil, locked |-> r.locked]
  BY <1>1, RowFields, AnnotationFields
<1>3. q \in AnnRows BY <1>2, RowFields, RowsTyped
<1>4. PICK s : s = [q EXCEPT !.content = k] OBVIOUS
<1>5. s = [scope |-> q.scope, version |-> q.version, content |-> k,
           deleted |-> q.deleted, veil |-> q.veil, locked |-> q.locked]
  BY <1>3, <1>4, RowFields, AnnotationFields
<1>6. s \in AnnRows BY <1>3, <1>5, RowFields, RowsTyped
<1>7. PICK u : u = [s EXCEPT !.deleted = d] OBVIOUS
<1>8. u = [scope |-> s.scope, version |-> s.version, content |-> s.content,
           deleted |-> d, veil |-> s.veil, locked |-> s.locked]
  BY <1>6, <1>7, RowFields, AnnotationFields
<1>9. u = Rewritten(r, v, k, d) BY <1>1, <1>4, <1>7, Zenon DEF Rewritten
<1>10. u \in AnnRows BY <1>6, <1>8, RowFields, RowsTyped
<1>11. u.version = v BY <1>2, <1>5, <1>8
<1> QED BY <1>9, <1>10, <1>11

LEMMA Replied ==
  ASSUME NEW r \in ReplyRows, NEW v \in 1..MaxVersion, NEW k \in 1..MaxVersion,
         NEW d \in Notes!Deletions
  PROVE  Rewritten(r, v, k, d) \in ReplyRows /\ Rewritten(r, v, k, d).version = v
<1>1. PICK q : q = [r EXCEPT !.version = v] OBVIOUS
<1>2. q = [version |-> v, content |-> r.content, deleted |-> r.deleted]
  BY <1>1, RowFields, ReplyFields
<1>3. q \in ReplyRows BY <1>2, RowFields, RowsTyped
<1>4. PICK s : s = [q EXCEPT !.content = k] OBVIOUS
<1>5. s = [version |-> q.version, content |-> k, deleted |-> q.deleted]
  BY <1>3, <1>4, RowFields, ReplyFields
<1>6. s \in ReplyRows BY <1>3, <1>5, RowFields, RowsTyped
<1>7. PICK u : u = [s EXCEPT !.deleted = d] OBVIOUS
<1>8. u = [version |-> s.version, content |-> s.content, deleted |-> d]
  BY <1>6, <1>7, RowFields, ReplyFields
<1>9. u = Rewritten(r, v, k, d) BY <1>1, <1>4, <1>7, Zenon DEF Rewritten
<1>10. u \in ReplyRows BY <1>6, <1>8, RowFields, RowsTyped
<1>11. u.version = v BY <1>2, <1>5, <1>8
<1> QED BY <1>9, <1>10, <1>11

LEMMA Moderated ==
  ASSUME NEW r \in AnnRows, NEW v \in 1..MaxVersion,
         NEW w \in SUBSET {"hidden", "archived"}, NEW b \in BOOLEAN
  PROVE  Marked(r, v, w, b) \in AnnRows /\ Marked(r, v, w, b).version = v
<1>1. PICK q : q = [r EXCEPT !.version = v] OBVIOUS
<1>2. q = [scope |-> r.scope, version |-> v, content |-> r.content,
           deleted |-> r.deleted, veil |-> r.veil, locked |-> r.locked]
  BY <1>1, RowFields, AnnotationFields
<1>3. q \in AnnRows BY <1>2, RowFields, RowsTyped
<1>4. PICK s : s = [q EXCEPT !.veil = w] OBVIOUS
<1>5. s = [scope |-> q.scope, version |-> q.version, content |-> q.content,
           deleted |-> q.deleted, veil |-> w, locked |-> q.locked]
  BY <1>3, <1>4, RowFields, AnnotationFields
<1>6. s \in AnnRows BY <1>3, <1>5, RowFields, RowsTyped
<1>7. PICK u : u = [s EXCEPT !.locked = b] OBVIOUS
<1>8. u = [scope |-> s.scope, version |-> s.version, content |-> s.content,
           deleted |-> s.deleted, veil |-> s.veil, locked |-> b]
  BY <1>6, <1>7, RowFields, AnnotationFields
<1>9. u = Marked(r, v, w, b) BY <1>1, <1>4, <1>7, Zenon DEF Marked
<1>10. u \in AnnRows BY <1>6, <1>8, RowFields, RowsTyped
<1>11. u.version = v BY <1>2, <1>5, <1>8
<1> QED BY <1>9, <1>10, <1>11

\* A deletion whose undo window has passed still is what its author has seen.
LEMMA StampsAgree ==
  /\ \A r \in AnnRows : r.deleted = "undoable" =>
       LET q == [r EXCEPT !.deleted = "expired"] IN
       /\ q \in AnnRows /\ q.version = r.version /\ q.veil = r.veil /\ q.locked = r.locked
       /\ q.scope = r.scope /\ q.deleted = "expired" /\ Notes!Stamp(q) = Notes!Stamp(r)
  /\ \A r \in ReplyRows : r.deleted = "undoable" =>
       LET q == [r EXCEPT !.deleted = "expired"] IN
       q \in ReplyRows /\ q.version = r.version /\ q.deleted = "expired"
       /\ Notes!Stamp(q) = Notes!Stamp(r)
<1>0. "undoable" \in Notes!Deletions /\ "expired" \in Notes!Deletions BY DEF Notes!Deletions
<1>1. ASSUME NEW r \in AnnRows, r.deleted = "undoable", NEW q, q = [r EXCEPT !.deleted = "expired"]
      PROVE  /\ q \in AnnRows /\ q.version = r.version /\ q.veil = r.veil /\ q.locked = r.locked
             /\ q.scope = r.scope /\ q.deleted = "expired" /\ Notes!Stamp(q) = Notes!Stamp(r)
  <2>1. q = [scope |-> r.scope, version |-> r.version, content |-> r.content,
             deleted |-> "expired", veil |-> r.veil, locked |-> r.locked]
    BY <1>0, <1>1, RowFields, AnnotationFields
  <2>2. q \in AnnRows BY <1>0, <2>1, RowFields, RowsTyped
  <2>3. q.deleted = "expired" /\ q.scope = r.scope /\ q.version = r.version
        /\ q.content = r.content /\ q.veil = r.veil
    BY <2>1
  <2>4. q.locked = r.locked BY <2>1, Zenon
  <2>5. Notes!Stamp(q) = [q EXCEPT !.deleted = "undoable"] BY <2>3, Zenon DEF Notes!Stamp
  <2>6. Notes!Stamp(r) = [r EXCEPT !.deleted = "undoable"]
    <3>1. r.deleted # "expired" BY <1>1
    <3> QED BY <1>1, <3>1, Zenon DEF Notes!Stamp
  <2>7. /\ [q EXCEPT !.deleted = "undoable"] =
             [scope |-> q.scope, version |-> q.version, content |-> q.content,
              deleted |-> "undoable", veil |-> q.veil, locked |-> q.locked]
        /\ [r EXCEPT !.deleted = "undoable"] =
             [scope |-> r.scope, version |-> r.version, content |-> r.content,
              deleted |-> "undoable", veil |-> r.veil, locked |-> r.locked]
    BY <1>0, <2>2, RowFields, AnnotationFields
  <2>8. Notes!Stamp(q) = Notes!Stamp(r) BY <2>3, <2>4, <2>5, <2>6, <2>7, Zenon
  <2> QED BY <2>2, <2>3, <2>4, <2>8
<1>2. ASSUME NEW r \in ReplyRows, r.deleted = "undoable", NEW q, q = [r EXCEPT !.deleted = "expired"]
      PROVE  q \in ReplyRows /\ q.version = r.version /\ q.deleted = "expired"
             /\ Notes!Stamp(q) = Notes!Stamp(r)
  <2>1. q = [version |-> r.version, content |-> r.content, deleted |-> "expired"]
    BY <1>0, <1>2, RowFields, ReplyFields
  <2>2. q \in ReplyRows BY <1>0, <2>1, RowFields, RowsTyped
  <2>3. q.deleted = "expired" /\ q.version = r.version /\ q.content = r.content BY <2>1
  <2>5. Notes!Stamp(q) = [q EXCEPT !.deleted = "undoable"] BY <2>3, Zenon DEF Notes!Stamp
  <2>6. Notes!Stamp(r) = [r EXCEPT !.deleted = "undoable"]
    <3>1. r.deleted # "expired" BY <1>2
    <3> QED BY <1>2, <3>1, Zenon DEF Notes!Stamp
  <2>7. /\ [q EXCEPT !.deleted = "undoable"] =
             [version |-> q.version, content |-> q.content, deleted |-> "undoable"]
        /\ [r EXCEPT !.deleted = "undoable"] =
             [version |-> r.version, content |-> r.content, deleted |-> "undoable"]
    BY <1>0, <2>2, RowFields, ReplyFields
  <2>8. Notes!Stamp(q) = Notes!Stamp(r) BY <2>3, <2>5, <2>6, <2>7, Zenon
  <2> QED BY <2>2, <2>3, <2>8
<1> QED BY <1>1, <1>2

\* What a step may do to a row, and what it leaves of it.
RowMoves(x, y, S) ==
  \/ y = x
  \/ x = Notes!Never /\ y \in S
  \/ x \in S /\ y = Notes!Gone
  \/ x \in S /\ y \in S /\ y.version = x.version + 1
  \/ x \in S /\ x.deleted = "undoable" /\ y = [x EXCEPT !.deleted = "expired"]
TxRows == [op : Notes!AuthorOps \cup Notes!Moderations \cup Notes!ReplyOps,
           phase : {"checked", "holding", "fenced"}] \cup {Notes!Idle}
OwnRow(c) == IF c \in Repliers THEN reply ELSE ann
RowsOf(c) == IF c \in Repliers THEN ReplyRows ELSE AnnRows

\* What a client has seen is this row at an earlier moment, or as it is.
Earlier(k, row) == Notes!Row(k) =>
  /\ row # Notes!Never
  /\ Notes!Row(row) => /\ k.version <= row.version
                       /\ k.version = row.version => Notes!Stamp(k) = Notes!Stamp(row)

NotesTyped ==
  /\ ann \in OrNone(AnnRows) /\ reply \in OrNone(ReplyRows)
  /\ open \in BOOLEAN /\ link \in BOOLEAN /\ purge \subseteq {"annotation", "reply"}
  /\ known = [c \in Notes!Clients |-> known[c]] /\ tx \in [Notes!Clients -> TxRows]
  /\ \A c \in Notes!Clients : known[c] \in OrNone(RowsOf(c))
SeenIsPast == \A c \in Notes!Clients : Earlier(known[c], OwnRow(c))
\* An author's request that has seen the Annotation as it is, has seen it clear.
CheckedIsClear == \A c \in Authors :
  tx[c] # Notes!Idle /\ Notes!Row(ann) /\ ann.version = known[c].version =>
    ann.veil = {} /\ ~ann.locked
HoldersAreIn == \A c \in Notes!Clients : Notes!Holding(c) => open
FencedIsFirm == \A c \in Notes!Clients : tx[c].phase = "fenced" =>
  /\ c \in Repliers
  /\ Notes!Unveiled /\ ann.deleted = "no" /\ ~ann.locked /\ Notes!Bound
NotesInv == NotesTyped /\ SeenIsPast /\ CheckedIsClear /\ HoldersAreIn /\ FencedIsFirm

TxMoves(c) ==
  \/ tx'[c] = tx[c]
  \/ tx'[c] = Notes!Idle
  \/ /\ tx[c] = Notes!Idle /\ tx'[c].phase = "checked"
     /\ c \in Authors => Notes!Unveiled /\ ~ann.locked
     /\ UNCHANGED <<ann, reply, open, link, known>>
  \/ /\ tx[c] # Notes!Idle /\ tx'[c] # Notes!Idle /\ tx'[c].phase = "holding" /\ open
     /\ UNCHANGED <<ann, reply, open, link, known>>
  \/ /\ c \in Repliers /\ tx[c].phase = "holding" /\ tx'[c].phase = "fenced"
     /\ Notes!Unveiled /\ ann.deleted = "no" /\ ~ann.locked /\ Notes!Bound
     /\ UNCHANGED <<ann, reply, open, link, known>>

NotesMove ==
  /\ RowMoves(ann, ann', AnnRows) /\ RowMoves(reply, reply', ReplyRows)
  /\ ann' # ann => ~Notes!Fenced \/ ~(Notes!Row(ann) /\ ann.deleted = "no")
  /\ open' = open \/ (open' = FALSE /\ \A c \in Notes!Clients : ~Notes!Holding(c))
  /\ link' = link \/ (link' = FALSE /\ ~Notes!Fenced)
  /\ purge' \subseteq {"annotation", "reply"}
  /\ known' = [c \in Notes!Clients |-> known'[c]]
  /\ \A c \in Notes!Clients :
       known'[c] = known[c] \/ (known'[c] = OwnRow(c)' /\ tx'[c] = Notes!Idle)
  /\ tx' \in [Notes!Clients -> TxRows]
  /\ \A c \in Notes!Clients : TxMoves(c)

LEMMA ClientFacts ==
  /\ \A c \in Authors \cup Moderators : c \in Notes!Clients /\ c \notin Repliers /\ OwnRow(c) = ann
  /\ \A c \in Repliers : c \in Notes!Clients /\ c \notin Authors \cup Moderators /\ OwnRow(c) = reply
BY AnnotationsAssumption DEF Notes!ClientsAssumption, Notes!Clients, OwnRow

LEMMA IdleFacts ==
  /\ Notes!Idle \in TxRows /\ Notes!Idle.phase = "idle"
  /\ \A t \in TxRows : t # Notes!Idle => t.phase \in {"checked", "holding", "fenced"}
  /\ \A t \in TxRows, p \in {"checked", "holding", "fenced"} : t # Notes!Idle =>
       [t EXCEPT !.phase = p] \in TxRows /\ [t EXCEPT !.phase = p].phase = p
  /\ \A op \in Notes!AuthorOps \cup Notes!Moderations \cup Notes!ReplyOps :
       [op |-> op, phase |-> "checked"] \in TxRows
BY DEF TxRows, Notes!Idle

\* What a client takes note of, and how its request moves on.
LEMMA Notices ==
  ASSUME NotesTyped, NEW c \in Notes!Clients, NEW v, known' = [known EXCEPT ![c] = v]
  PROVE  /\ known' = [d \in Notes!Clients |-> known'[d]]
         /\ known'[c] = v /\ \A d \in Notes!Clients \ {c} : known'[d] = known[d]
BY DEF NotesTyped

LEMMA Enters ==
  ASSUME NotesTyped, NEW c \in Notes!Clients
  PROVE  /\ Notes!Ends(c) => /\ tx' \in [Notes!Clients -> TxRows] /\ tx'[c] = Notes!Idle
                             /\ \A d \in Notes!Clients \ {c} : tx'[d] = tx[d]
         /\ \A op \in Notes!AuthorOps \cup Notes!Moderations \cup Notes!ReplyOps :
              Notes!Enter(c, op) =>
                /\ tx' \in [Notes!Clients -> TxRows] /\ tx'[c].phase = "checked"
                /\ \A d \in Notes!Clients \ {c} : tx'[d] = tx[d]
         /\ \A p \in {"checked", "holding", "fenced"} :
              Notes!Enters(c, p) /\ tx[c] # Notes!Idle =>
                /\ tx' \in [Notes!Clients -> TxRows] /\ tx'[c].phase = p
                /\ \A d \in Notes!Clients \ {c} : tx'[d] = tx[d]
<1>1. tx \in [Notes!Clients -> TxRows] BY DEF NotesTyped
<1>2. ASSUME Notes!Ends(c)
      PROVE  /\ tx' \in [Notes!Clients -> TxRows] /\ tx'[c] = Notes!Idle
             /\ \A d \in Notes!Clients \ {c} : tx'[d] = tx[d]
  BY <1>1, <1>2, IdleFacts DEF Notes!Ends
<1>3. ASSUME NEW op \in Notes!AuthorOps \cup Notes!Moderations \cup Notes!ReplyOps,
             Notes!Enter(c, op)
      PROVE  /\ tx' \in [Notes!Clients -> TxRows] /\ tx'[c].phase = "checked"
             /\ \A d \in Notes!Clients \ {c} : tx'[d] = tx[d]
  <2>1. PICK t : t = [op |-> op, phase |-> "checked"] OBVIOUS
  <2>2. t \in TxRows /\ t.phase = "checked" BY <2>1, IdleFacts
  <2>3. tx' = [tx EXCEPT ![c] = t] BY <1>3, <2>1 DEF Notes!Enter
  <2> QED BY <1>1, <2>2, <2>3
<1>4. ASSUME NEW p \in {"checked", "holding", "fenced"}, Notes!Enters(c, p), tx[c] # Notes!Idle
      PROVE  /\ tx' \in [Notes!Clients -> TxRows] /\ tx'[c].phase = p
             /\ \A d \in Notes!Clients \ {c} : tx'[d] = tx[d]
  <2>1. PICK t : t = [tx[c] EXCEPT !.phase = p] OBVIOUS
  <2>2. t \in TxRows /\ t.phase = p BY <1>1, <1>4, <2>1, IdleFacts
  <2>3. tx' = [tx EXCEPT ![c] = t] BY <1>4, <2>1, Zenon DEF Notes!Enters
  <2> QED BY <1>1, <2>2, <2>3
<1> QED BY <1>2, <1>3, <1>4

-------------------------------------------------------------------------------
(* Every step moves rows and requests in this way. *)

Still == UNCHANGED <<ann, reply, open, link, purge>>
LEMMA RowsRest ==
  ASSUME NotesTyped
  PROVE  /\ ann' = ann => RowMoves(ann, ann', AnnRows)
         /\ reply' = reply => RowMoves(reply, reply', ReplyRows)
         /\ UNCHANGED tx => tx' \in [Notes!Clients -> TxRows] /\ \A c \in Notes!Clients : TxMoves(c)
         /\ UNCHANGED known => /\ known' = [c \in Notes!Clients |-> known'[c]]
                               /\ \A c \in Notes!Clients : known'[c] = known[c]
BY DEF NotesTyped, RowMoves, TxMoves

LEMMA LookMoves ==
  ASSUME NotesInv, NEW c \in Notes!Clients, Notes!Look(c)
  PROVE  NotesMove
<1>1. NotesTyped BY DEF NotesInv
<1>2. Still /\ UNCHANGED tx /\ tx[c] = Notes!Idle BY DEF Notes!Look, Still
<1>3. known' = [known EXCEPT ![c] = OwnRow(c)] BY DEF Notes!Look, OwnRow
<1>4. OwnRow(c)' = OwnRow(c) BY <1>2 DEF OwnRow, Still
<1>5. \A d \in Notes!Clients :
        known'[d] = known[d] \/ (known'[d] = OwnRow(d)' /\ tx'[d] = Notes!Idle)
  BY <1>1, <1>2, <1>3, <1>4, Notices
<1>6. known' = [d \in Notes!Clients |-> known'[d]] BY <1>1, <1>3, Notices
<1> QED BY <1>1, <1>2, <1>5, <1>6, RowsRest DEF NotesMove, Still, NotesTyped

\* Steps that only move a request.
LEMMA RequestMoves ==
  ASSUME NotesInv, NEW c \in Notes!Clients,
         UNCHANGED <<ann, reply, open, link, known, purge>>,
         tx' \in [Notes!Clients -> TxRows], TxMoves(c),
         \A d \in Notes!Clients \ {c} : tx'[d] = tx[d]
  PROVE  NotesMove
<1>1. NotesTyped BY DEF NotesInv
<1>2. \A d \in Notes!Clients : TxMoves(d) BY DEF TxMoves
<1> QED BY <1>1, <1>2, RowsRest DEF NotesMove, NotesTyped

LEMMA RefuseMoves ==
  ASSUME NotesInv, NEW c \in Notes!Clients, Notes!Refuse(c)
  PROVE  NotesMove
<1>1. NotesTyped BY DEF NotesInv
<1>2. UNCHANGED <<ann, reply, open, link, known, purge>> /\ Notes!Ends(c) BY DEF Notes!Refuse
<1>3. TxMoves(c) BY <1>1, <1>2, Enters DEF TxMoves
<1> QED BY <1>1, <1>2, <1>3, Enters, RequestMoves

LEMMA AuthorizeMoves ==
  ASSUME NotesInv, NEW c \in Notes!Clients, Notes!Authorize(c)
  PROVE  NotesMove
<1>1. NotesTyped BY DEF NotesInv
<1>2. /\ UNCHANGED <<ann, reply, open, link, known, purge>> /\ open
      /\ Notes!Enters(c, "holding") /\ tx[c].phase = "checked"
  BY DEF Notes!Authorize
<1>3. tx[c] # Notes!Idle BY <1>2, IdleFacts
<1>4. /\ tx' \in [Notes!Clients -> TxRows] /\ tx'[c].phase = "holding"
      /\ \A d \in Notes!Clients \ {c} : tx'[d] = tx[d]
  BY <1>1, <1>2, <1>3, Enters
<1>5. tx'[c] # Notes!Idle BY <1>4, IdleFacts
<1>6. TxMoves(c) BY <1>2, <1>3, <1>4, <1>5 DEF TxMoves
<1> QED BY <1>2, <1>4, <1>6, RequestMoves

LEMMA CheckMoves ==
  ASSUME NotesInv, NEW c \in Notes!Clients, tx[c] = Notes!Idle,
         NEW op \in Notes!AuthorOps \cup Notes!Moderations \cup Notes!ReplyOps,
         Notes!Enter(c, op), UNCHANGED <<ann, reply, open, link, known, purge>>,
         c \in Authors => Notes!Unveiled /\ ~ann.locked
  PROVE  NotesMove
<1>1. NotesTyped BY DEF NotesInv
<1>2. /\ tx' \in [Notes!Clients -> TxRows] /\ tx'[c].phase = "checked"
      /\ \A d \in Notes!Clients \ {c} : tx'[d] = tx[d]
  BY <1>1, Enters
<1>3. TxMoves(c) BY <1>2 DEF TxMoves
<1> QED BY <1>2, <1>3, RequestMoves

LEMMA FenceMoves ==
  ASSUME NotesInv, NEW c \in Repliers, Notes!Fence(c)
  PROVE  NotesMove
<1>1. NotesTyped /\ c \in Notes!Clients BY ClientFacts DEF NotesInv
<1>2. /\ UNCHANGED <<ann, reply, open, link, known, purge>>
      /\ Notes!Unveiled /\ ann.deleted = "no" /\ ~ann.locked /\ Notes!Bound
      /\ Notes!Enters(c, "fenced") /\ tx[c].phase = "holding"
  BY DEF Notes!Fence
<1>3. tx[c] # Notes!Idle BY <1>2, IdleFacts
<1>4. /\ tx' \in [Notes!Clients -> TxRows] /\ tx'[c].phase = "fenced"
      /\ \A d \in Notes!Clients \ {c} : tx'[d] = tx[d]
  BY <1>1, <1>2, <1>3, Enters
<1>5. TxMoves(c) BY <1>2, <1>4 DEF TxMoves
<1> QED BY <1>1, <1>2, <1>4, <1>5, RequestMoves

\* A request that has written commits: its client knows the new row.
LEMMA CommitMoves ==
  ASSUME NotesInv, NEW c \in Notes!Clients, Notes!Ends(c), UNCHANGED <<open, link, purge>>,
         known' = [known EXCEPT ![c] = OwnRow(c)'],
         RowMoves(ann, ann', AnnRows), RowMoves(reply, reply', ReplyRows),
         ann' # ann => ~Notes!Fenced
  PROVE  NotesMove
<1>1. NotesTyped BY DEF NotesInv
<1>2. /\ tx' \in [Notes!Clients -> TxRows] /\ tx'[c] = Notes!Idle
      /\ \A d \in Notes!Clients \ {c} : tx'[d] = tx[d]
  BY <1>1, Enters
<1>3. \A d \in Notes!Clients : TxMoves(d) BY <1>2 DEF TxMoves
<1>4. PICK v : v = OwnRow(c)' OBVIOUS
<1>5. \A d \in Notes!Clients :
        known'[d] = known[d] \/ (known'[d] = OwnRow(d)' /\ tx'[d] = Notes!Idle)
  BY <1>1, <1>2, <1>4, Notices
<1>6. known' = [d \in Notes!Clients |-> known'[d]] BY <1>1, <1>4, Notices
<1> QED BY <1>1, <1>2, <1>3, <1>5, <1>6 DEF NotesMove, NotesTyped

LEMMA RisingIsTyped ==
  ASSUME NEW S \in {AnnRows, ReplyRows}, NEW r \in OrNone(S), Notes!Row(r),
         r.version < MaxVersion
  PROVE  r \in S /\ r.version + 1 \in 1..MaxVersion /\ r.version \in Nat
<1>1. MaxVersion \in Nat \ {0} BY AnnotationsAssumption DEF Notes!MaxVersionAssumption
<1> QED BY <1>1, RowKinds

LEMMA WriteAuthorMoves ==
  ASSUME NotesInv, NEW c \in Authors, Notes!WriteAuthor(c)
  PROVE  NotesMove
<1>1. NotesTyped /\ c \in Notes!Clients /\ c \notin Repliers BY ClientFacts DEF NotesInv
<1>2. ann \in AnnRows /\ ann.version + 1 \in 1..MaxVersion
  BY <1>1, RisingIsTyped DEF NotesTyped, Notes!WriteAuthor, Notes!Current
<1>3. PICK v, k, d :
        /\ v = ann.version + 1
        /\ k = (IF tx[c].op = "edit" THEN ann.version + 1 ELSE ann.content)
        /\ d = (IF tx[c].op = "delete" THEN "undoable" ELSE "no")
        /\ ann' = [ann EXCEPT !.version = v, !.content = k, !.deleted = d]
  BY Zenon DEF Notes!WriteAuthor
<1>4. v \in 1..MaxVersion /\ k \in 1..MaxVersion /\ d \in Notes!Deletions
  BY <1>2, <1>3, RowFields DEF Notes!Deletions
<1>5. ann' = Rewritten(ann, v, k, d) BY <1>3, Zenon DEF Rewritten
<1>6. ann' \in AnnRows /\ ann'.version = v BY <1>2, <1>4, <1>5, Authored
<1>7. ann'.version = ann.version + 1 BY <1>3, <1>6
<1>8. RowMoves(ann, ann', AnnRows) BY <1>2, <1>6, <1>7 DEF RowMoves
<1>9. /\ Notes!Ends(c) /\ UNCHANGED <<reply, open, link, purge>> /\ ~Notes!Fenced
      /\ known' = [known EXCEPT ![c] = ann']
  BY DEF Notes!WriteAuthor
<1>10. OwnRow(c)' = ann' BY <1>1 DEF OwnRow
<1> QED BY <1>1, <1>8, <1>9, <1>10, RowsRest, CommitMoves

\* The cascade takes an Annotation and its Reply away together.
LEMMA CascadeMoves ==
  ASSUME NotesTyped, Notes!Row(ann), Notes!Cascade
  PROVE  RowMoves(ann, ann', AnnRows) /\ RowMoves(reply, reply', ReplyRows)
<1>1. ann \in AnnRows /\ ann' = Notes!Gone BY RowKinds DEF NotesTyped, Notes!Cascade
<1>2. CASE Notes!Row(reply)
  <2>1. reply \in ReplyRows /\ reply' = Notes!Gone BY <1>2, RowKinds DEF NotesTyped, Notes!Cascade
  <2> QED BY <1>1, <2>1 DEF RowMoves
<1>3. CASE ~Notes!Row(reply) BY <1>1, <1>3 DEF RowMoves, Notes!Cascade
<1> QED BY <1>2, <1>3

LEMMA WriteModerationMoves ==
  ASSUME NotesInv, NEW c \in Moderators, Notes!WriteModeration(c)
  PROVE  NotesMove
<1>1. NotesTyped /\ c \in Notes!Clients /\ c \notin Repliers BY ClientFacts DEF NotesInv
<1>2. Notes!Row(ann) /\ ann \in AnnRows /\ ann.version + 1 \in 1..MaxVersion
  BY <1>1, RisingIsTyped DEF NotesTyped, Notes!WriteModeration, Notes!Current
<1>3. /\ Notes!Ends(c) /\ UNCHANGED <<open, link, purge>> /\ ~Notes!Fenced
      /\ known' = [known EXCEPT ![c] = ann']
  BY DEF Notes!WriteModeration
<1>4. OwnRow(c)' = ann' BY <1>1 DEF OwnRow
<1>5. CASE tx[c].op = "delete"
  <2>1. Notes!Cascade BY <1>5 DEF Notes!WriteModeration
  <2> QED BY <1>1, <1>2, <1>3, <1>4, <2>1, CascadeMoves, CommitMoves
<1>6. CASE tx[c].op # "delete"
  <2>0. ann' = [ann EXCEPT !.version = @ + 1,
               !.veil = CASE tx[c].op = "hide" -> @ \cup {"hidden"}
                          [] tx[c].op = "archive" -> @ \cup {"archived"}
                          [] tx[c].op = "restore" -> {}
                          [] OTHER -> @,
               !.locked = IF tx[c].op \in {"lock", "unlock"} THEN tx[c].op = "lock" ELSE @]
    BY <1>6 DEF Notes!WriteModeration
  <2> DEFINE w0 == CASE tx[c].op = "hide" -> ann.veil \cup {"hidden"}
                     [] tx[c].op = "archive" -> ann.veil \cup {"archived"}
                     [] tx[c].op = "restore" -> {}
                     [] OTHER -> ann.veil
             b0 == IF tx[c].op \in {"lock", "unlock"} THEN tx[c].op = "lock" ELSE ann.locked
  <2>1. PICK v, w, b : /\ v = ann.version + 1 /\ w = w0 /\ b = b0
                       /\ ann' = [ann EXCEPT !.version = v, !.veil = w, !.locked = b]
    BY <2>0, Zenon
  <2>2. b \in BOOLEAN
    <3>1. ann.locked \in BOOLEAN BY <1>2, RowFields
    <3> QED BY <2>1, <3>1
  <2>3. w \in SUBSET {"hidden", "archived"} BY <1>2, <2>1, RowFields
  <2> HIDE DEF w0, b0
  <2>4. v \in 1..MaxVersion BY <1>2, <2>1
  <2>7. ann' = Marked(ann, v, w, b) BY <2>1, Zenon DEF Marked
  <2>5. ann' \in AnnRows /\ ann'.version = v BY <1>2, <2>2, <2>3, <2>4, <2>7, Moderated
  <2>6. ann'.version = ann.version + 1 BY <2>1, <2>5
  <2>9. RowMoves(ann, ann', AnnRows) BY <1>2, <2>5, <2>6 DEF RowMoves
  <2>8. reply' = reply BY <1>6 DEF Notes!WriteModeration
  <2> QED BY <1>1, <1>3, <1>4, <2>8, <2>9, RowsRest, CommitMoves
<1> QED BY <1>5, <1>6

LEMMA WriteReplyMoves ==
  ASSUME NotesInv, NEW c \in Repliers, Notes!WriteReply(c)
  PROVE  NotesMove
<1>1. NotesTyped /\ c \in Notes!Clients BY ClientFacts DEF NotesInv
<1>2. /\ Notes!Ends(c) /\ UNCHANGED <<ann, open, link, purge>>
      /\ known' = [known EXCEPT ![c] = reply']
  BY DEF Notes!WriteReply
<1>3. OwnRow(c)' = reply' BY DEF OwnRow
<1>4. CASE tx[c].op = "create"
  <2>1. 1 \in 1..MaxVersion
    BY AnnotationsAssumption DEF Notes!MaxVersionAssumption
  <2>2. reply = Notes!Never /\ reply' = [version |-> 1, content |-> 1, deleted |-> "no"]
    BY <1>4 DEF Notes!WriteReply
  <2>3. reply' \in ReplyRows BY <2>1, <2>2, RowsTyped DEF Notes!Deletions
  <2>4. RowMoves(reply, reply', ReplyRows) BY <2>2, <2>3 DEF RowMoves
  <2> QED BY <1>1, <1>2, <1>3, <2>4, RowsRest, CommitMoves
<1>5. CASE tx[c].op # "create"
  <2>1. reply \in ReplyRows /\ reply.version + 1 \in 1..MaxVersion
    BY <1>1, <1>5, RisingIsTyped DEF NotesTyped, Notes!WriteReply, Notes!Current
  <2>2. PICK v, k, d :
          /\ v = reply.version + 1
          /\ k = (IF tx[c].op = "edit" THEN reply.version + 1 ELSE reply.content)
          /\ d = (IF tx[c].op = "delete" THEN "undoable" ELSE "no")
          /\ reply' = [reply EXCEPT !.version = v, !.content = k, !.deleted = d]
    <3>1. reply' = [reply EXCEPT !.version = @ + 1,
                      !.content = IF tx[c].op = "edit" THEN reply.version + 1 ELSE @,
                      !.deleted = IF tx[c].op = "delete" THEN "undoable" ELSE "no"]
      BY <1>5 DEF Notes!WriteReply
    <3> QED BY <3>1, Zenon
  <2>3. v \in 1..MaxVersion /\ k \in 1..MaxVersion /\ d \in Notes!Deletions
    BY <2>1, <2>2, RowFields DEF Notes!Deletions
  <2>4. reply' = Rewritten(reply, v, k, d) BY <2>2, Zenon DEF Rewritten
  <2>5. reply' \in ReplyRows /\ reply'.version = v BY <2>1, <2>3, <2>4, Replied
  <2>6. reply'.version = reply.version + 1 BY <2>2, <2>5
  <2>7. RowMoves(reply, reply', ReplyRows) BY <2>1, <2>5, <2>6 DEF RowMoves
  <2> QED BY <1>1, <1>2, <1>3, <2>7, RowsRest, CommitMoves
<1> QED BY <1>4, <1>5

LEMMA ClientMoves ==
  ASSUME NotesInv, NEW c \in Notes!Clients, Notes!Step(c)
  PROVE  NotesMove
<1>1. CASE Notes!Look(c) \/ Notes!Authorize(c) \/ Notes!Refuse(c)
  BY <1>1, LookMoves, AuthorizeMoves, RefuseMoves
<1>2. CASE c \in Authors /\ Notes!AuthorStep(c)
  <2>1. CASE Notes!WriteAuthor(c) BY <1>2, <2>1, WriteAuthorMoves
  <2>2. ASSUME NEW op \in Notes!AuthorOps, Notes!CheckAuthor(c, op) PROVE NotesMove
    <3>1. /\ tx[c] = Notes!Idle /\ Notes!Enter(c, op) /\ Notes!Unveiled /\ ~ann.locked
          /\ UNCHANGED <<ann, reply, open, link, known, purge>>
      BY <2>2 DEF Notes!CheckAuthor, Notes!Visible
    <3> QED BY <3>1, CheckMoves
  <2> QED BY <1>2, <2>1, <2>2 DEF Notes!AuthorStep
<1>3. CASE c \in Moderators /\ Notes!ModeratorStep(c)
  <2>0. c \notin Authors BY <1>3, AnnotationsAssumption DEF Notes!ClientsAssumption
  <2>1. CASE Notes!WriteModeration(c) BY <1>3, <2>1, WriteModerationMoves
  <2>2. ASSUME NEW op \in Notes!Moderations, Notes!CheckModeration(c, op) PROVE NotesMove
    <3>1. /\ tx[c] = Notes!Idle /\ Notes!Enter(c, op)
          /\ UNCHANGED <<ann, reply, open, link, known, purge>>
      BY <2>2 DEF Notes!CheckModeration
    <3> QED BY <2>0, <3>1, CheckMoves
  <2> QED BY <1>3, <2>1, <2>2 DEF Notes!ModeratorStep
<1>4. CASE c \in Repliers /\ Notes!ReplierStep(c)
  <2>0. c \notin Authors BY <1>4, ClientFacts
  <2>1. CASE Notes!Fence(c) \/ Notes!WriteReply(c) BY <1>4, <2>1, FenceMoves, WriteReplyMoves
  <2>2. ASSUME NEW op \in Notes!ReplyOps, Notes!CheckReply(c, op) PROVE NotesMove
    <3>1. /\ tx[c] = Notes!Idle /\ Notes!Enter(c, op)
          /\ UNCHANGED <<ann, reply, open, link, known, purge>>
      BY <2>2 DEF Notes!CheckReply
    <3> QED BY <2>0, <3>1, CheckMoves
  <2> QED BY <1>4, <2>1, <2>2 DEF Notes!ReplierStep
<1> QED BY <1>1, <1>2, <1>3, <1>4 DEF Notes!Step

\* Steps of nobody's request.
LEMMA FieldsMove ==
  ASSUME NotesInv, UNCHANGED <<open, known, tx>>, purge' \subseteq {"annotation", "reply"},
         link' = link \/ (link' = FALSE /\ ~Notes!Fenced),
         RowMoves(ann, ann', AnnRows), RowMoves(reply, reply', ReplyRows),
         ann' # ann => ~Notes!Fenced \/ ~(Notes!Row(ann) /\ ann.deleted = "no")
  PROVE  NotesMove
BY RowsRest DEF NotesMove, NotesInv

LEMMA CreateMoves ==
  ASSUME NotesInv, NEW scope \in {"private", "project"}, Notes!Create(scope)
  PROVE  NotesMove
<1>1. NotesTyped BY DEF NotesInv
<1>2. 1 \in 1..MaxVersion /\ MaxVersion \in Nat
  BY AnnotationsAssumption DEF Notes!MaxVersionAssumption
<1>3. /\ ann = Notes!Never /\ UNCHANGED <<reply, open, link, known, tx, purge>>
      /\ ann' = [scope |-> scope, version |-> 1, content |-> 1, deleted |-> "no",
                 veil |-> {}, locked |-> FALSE]
  BY DEF Notes!Create
<1>4. ann' \in AnnRows BY <1>2, <1>3 DEF AnnRows, Notes!AnnotationRows, Notes!Deletions
<1>5. ~Notes!Row(ann) BY <1>3 DEF Notes!Never, Notes!Row
<1>6. RowMoves(ann, ann', AnnRows) BY <1>3, <1>4 DEF RowMoves
<1> QED BY <1>1, <1>3, <1>5, <1>6, RowsRest, FieldsMove DEF NotesTyped

LEMMA DetachMoves ==
  ASSUME NotesInv, Notes!Detach
  PROVE  NotesMove
<1>1. NotesTyped BY DEF NotesInv
<1>2. ~Notes!Fenced BY ClientFacts DEF Notes!Detach, Notes!Fenced, Notes!HoldsLink, Notes!Holding
<1>3. link' = FALSE /\ UNCHANGED <<open, known, tx, purge>> BY DEF Notes!Detach
<1>4. RowMoves(ann, ann', AnnRows) /\ RowMoves(reply, reply', ReplyRows)
  <2>1. CASE Notes!Row(ann) /\ ann.scope = "project"
    BY <1>1, <2>1, CascadeMoves DEF Notes!Detach
  <2>2. CASE ~(Notes!Row(ann) /\ ann.scope = "project")
    BY <1>1, <2>2, RowsRest DEF Notes!Detach
  <2> QED BY <2>1, <2>2
<1> QED BY <1>1, <1>2, <1>3, <1>4, FieldsMove DEF NotesTyped

LEMMA DeleteDocumentMoves ==
  ASSUME NotesInv, Notes!DeleteDocument
  PROVE  NotesMove
<1>1. NotesTyped BY DEF NotesInv
<1>2. /\ Notes!Row(ann) /\ ~Notes!Fenced /\ Notes!Cascade
      /\ UNCHANGED <<open, link, known, tx, purge>>
  BY DEF Notes!DeleteDocument
<1> QED BY <1>1, <1>2, CascadeMoves, FieldsMove DEF NotesTyped

LEMMA CloseMoves ==
  ASSUME NotesInv, Notes!Close
  PROVE  NotesMove
BY RowsRest DEF NotesInv, NotesTyped, NotesMove, Notes!Close

LEMMA ExpireMoves ==
  ASSUME NotesInv, Notes!Expire
  PROVE  NotesMove
<1>1. NotesTyped BY DEF NotesInv
<1>2. UNCHANGED <<open, link, known, tx, purge>> BY DEF Notes!Expire
<1>3. CASE /\ Notes!Row(ann) /\ ann.deleted = "undoable"
           /\ ann' = [ann EXCEPT !.deleted = "expired"] /\ UNCHANGED reply
  <2>1. ann \in AnnRows BY <1>1, <1>3, RowKinds DEF NotesTyped
  <2>2. RowMoves(ann, ann', AnnRows) BY <1>3, <2>1, Zenon DEF RowMoves
  <2>3. RowMoves(reply, reply', ReplyRows) BY <1>1, <1>3, RowsRest
  <2> QED BY <1>1, <1>2, <1>3, <2>2, <2>3, FieldsMove DEF NotesTyped
<1>4. CASE /\ Notes!Row(reply) /\ reply.deleted = "undoable"
           /\ reply' = [reply EXCEPT !.deleted = "expired"] /\ UNCHANGED ann
  <2>1. reply \in ReplyRows BY <1>1, <1>4, RowKinds DEF NotesTyped
  <2>2. RowMoves(reply, reply', ReplyRows) BY <1>4, <2>1, Zenon DEF RowMoves
  <2>3. RowMoves(ann, ann', AnnRows) BY <1>1, <1>4, RowsRest
  <2> QED BY <1>1, <1>2, <1>4, <2>2, <2>3, FieldsMove DEF NotesTyped
<1> QED BY <1>3, <1>4, Zenon DEF Notes!Expire

LEMMA SelectMoves ==
  ASSUME NotesInv, Notes!Select
  PROVE  NotesMove
<1>1. NotesTyped BY DEF NotesInv
<1>2. UNCHANGED <<ann, reply, open, link, known, tx>> /\ purge' \subseteq {"annotation", "reply"}
  BY DEF Notes!Select
<1> QED BY <1>1, <1>2, RowsRest, FieldsMove

LEMMA PurgeMoves ==
  ASSUME NotesInv, Notes!Purge
  PROVE  NotesMove
<1>1. NotesTyped BY DEF NotesInv
<1>2. UNCHANGED <<open, link, known, tx>> /\ purge' \subseteq {"annotation", "reply"}
  BY <1>1 DEF Notes!Purge, NotesTyped
<1>3. CASE ~Notes!Fenced /\ IF Notes!Expired(ann) THEN Notes!Cascade ELSE UNCHANGED <<ann, reply>>
  <2>1. RowMoves(ann, ann', AnnRows) /\ RowMoves(reply, reply', ReplyRows)
    BY <1>1, <1>3, CascadeMoves, RowsRest DEF Notes!Expired
  <2> QED BY <1>2, <1>3, <2>1, FieldsMove
<1>4. CASE reply' = (IF Notes!Expired(reply) THEN Notes!Gone ELSE reply) /\ UNCHANGED ann
  <2>1. Notes!Row(reply) => reply \in ReplyRows BY <1>1, RowKinds DEF NotesTyped
  <2>2. RowMoves(reply, reply', ReplyRows) BY <1>4, <2>1 DEF RowMoves, Notes!Expired
  <2> QED BY <1>1, <1>2, <1>4, <2>2, RowsRest, FieldsMove
<1> QED BY <1>3, <1>4 DEF Notes!Purge

LEMMA StepsMove ==
  ASSUME NotesInv, Notes!Next
  PROVE  NotesMove
BY CreateMoves, DetachMoves, DeleteDocumentMoves, CloseMoves, ExpireMoves, SelectMoves,
   PurgeMoves, ClientMoves
DEF Notes!Next, Notes!Other

-------------------------------------------------------------------------------
(* Moves of this kind keep the invariant. *)

\* Rows keep their types, and what was seen of one stays an earlier state of it.
LEMMA MovesKeepRows ==
  ASSUME NEW S \in {AnnRows, ReplyRows}, NEW x \in OrNone(S), NEW y, RowMoves(x, y, S)
  PROVE  /\ y \in OrNone(S)
         /\ \A k \in OrNone(S) : Earlier(k, x) => Earlier(k, y)
         /\ Earlier(y, y)
<1>1. x \in S /\ x.deleted = "undoable" /\ y = [x EXCEPT !.deleted = "expired"] =>
        y \in S /\ y.version = x.version /\ Notes!Stamp(y) = Notes!Stamp(x)
  BY StampsAgree
<1>2. y \in OrNone(S) BY <1>1 DEF RowMoves, OrNone
<1>3. Earlier(y, y)
  <2>1. Notes!Row(y) => y # Notes!Never /\ y.version \in Nat BY <1>2, RowKinds
  <2> QED BY <2>1 DEF Earlier
<1>4. ASSUME NEW k \in OrNone(S), Earlier(k, x), Notes!Row(k)
      PROVE  Earlier(k, y)
  <2>1. x # Notes!Never BY <1>4 DEF Earlier
  <2>2. k.version \in Nat \ {0} BY <1>4, RowKinds
  <2>3. \A r \in OrNone(S) : Notes!Row(r) => r \in S /\ r.version \in Nat \ {0} BY RowKinds
  <2>4. \A r \in S : Notes!Row(r) /\ r # Notes!Never
    <3>1. \A r \in S : r \in OrNone(S) BY DEF OrNone
    <3> QED BY <3>1, RowKinds
  <2>5. CASE y = x BY <1>4, <2>5
  <2>6. CASE y = Notes!Gone
    <3>1. y # Notes!Never /\ ~Notes!Row(y) BY <2>6 DEF Notes!Gone, Notes!Never, Notes!Row
    <3> QED BY <3>1 DEF Earlier
  <2>7. CASE x \in S /\ y \in S /\ y.version = x.version + 1
    <3>1. k.version <= x.version /\ x.version \in Nat BY <1>4, <2>3, <2>4, <2>7 DEF Earlier
    <3>2. k.version <= y.version /\ k.version # y.version BY <2>2, <2>7, <3>1
    <3> QED BY <2>4, <2>7, <3>2 DEF Earlier
  <2>8. CASE x \in S /\ x.deleted = "undoable" /\ y = [x EXCEPT !.deleted = "expired"]
    <3>1. y \in S /\ y.version = x.version /\ Notes!Stamp(y) = Notes!Stamp(x) BY <1>1, <2>8
    <3>2. k.version <= x.version /\ (k.version = x.version => Notes!Stamp(k) = Notes!Stamp(x))
      BY <1>4, <2>4, <2>8 DEF Earlier
    <3> QED BY <2>4, <3>1, <3>2 DEF Earlier
  <2> QED BY <2>1, <2>5, <2>6, <2>7, <2>8 DEF RowMoves
<1>5. \A k \in OrNone(S) : Earlier(k, x) => Earlier(k, y) BY <1>4 DEF Earlier
<1> QED BY <1>2, <1>3, <1>5

LEMMA MovesKeepSeen ==
  ASSUME NotesInv, NotesMove
  PROVE  NotesTyped' /\ SeenIsPast'
<1>1. /\ ann' \in OrNone(AnnRows) /\ reply' \in OrNone(ReplyRows)
      /\ \A k \in OrNone(AnnRows) : Earlier(k, ann) => Earlier(k, ann')
      /\ \A k \in OrNone(ReplyRows) : Earlier(k, reply) => Earlier(k, reply')
      /\ Earlier(ann', ann') /\ Earlier(reply', reply')
  BY MovesKeepRows DEF NotesInv, NotesTyped, NotesMove
<1>2. ASSUME NEW c \in Notes!Clients
      PROVE  known'[c] \in OrNone(RowsOf(c)) /\ Earlier(known'[c], OwnRow(c)')
  <2>1. known[c] \in OrNone(RowsOf(c)) /\ Earlier(known[c], OwnRow(c))
    BY DEF NotesInv, NotesTyped, SeenIsPast
  <2>2. known'[c] = known[c] \/ known'[c] = OwnRow(c)' BY DEF NotesMove
  <2>3. CASE c \in Repliers BY <1>1, <2>1, <2>2, <2>3 DEF OwnRow, RowsOf
  <2>4. CASE c \notin Repliers BY <1>1, <2>1, <2>2, <2>4 DEF OwnRow, RowsOf
  <2> QED BY <2>3, <2>4
<1>3. SeenIsPast'
  <2> SUFFICES ASSUME NEW c \in Notes!Clients' PROVE Earlier(known[c], OwnRow(c))'
    BY DEF SeenIsPast
  <2>1. c \in Notes!Clients BY DEF Notes!Clients
  <2> QED BY <1>2, <2>1 DEF Earlier, Notes!Row, Notes!Stamp
<1>4. NotesTyped'
  <2>1. open' \in BOOLEAN /\ link' \in BOOLEAN BY DEF NotesInv, NotesTyped, NotesMove
  <2> QED BY <1>1, <1>2, <2>1
          DEF NotesTyped, NotesMove, Notes!Clients, TxRows, RowsOf, OrNone, AnnRows, ReplyRows,
              Notes!AnnotationRows, Notes!ReplyRows
<1> QED BY <1>3, <1>4

LEMMA MovesKeepChecked ==
  ASSUME NotesInv, NotesMove
  PROVE  CheckedIsClear'
<1> SUFFICES ASSUME NEW c \in Authors, tx'[c] # Notes!Idle, Notes!Row(ann'),
                    ann'.version = known'[c].version
             PROVE  ann'.veil = {} /\ ~ann'.locked
  BY DEF CheckedIsClear, Notes!Row, Notes!Idle
<1>1. c \in Notes!Clients /\ c \notin Repliers /\ OwnRow(c) = ann BY ClientFacts
<1>2. known'[c] = known[c] /\ TxMoves(c) BY <1>1 DEF NotesMove
<1>3. known[c] \in OrNone(AnnRows) /\ Earlier(known[c], ann) /\ ann \in OrNone(AnnRows)
  BY <1>1 DEF NotesInv, NotesTyped, SeenIsPast, RowsOf
<1>4. ASSUME tx[c] # Notes!Idle PROVE ann'.veil = {} /\ ~ann'.locked
  <2>1. Notes!Row(ann) /\ ann.version = known[c].version => ann.veil = {} /\ ~ann.locked
    BY <1>4 DEF NotesInv, CheckedIsClear
  <2>2. CASE ann' = ann BY <1>2, <2>1, <2>2
  <2>3. CASE ann = Notes!Never /\ ann' \in AnnRows
    <3>1. ~Notes!Row(known[c]) BY <1>3, <2>3 DEF Earlier
    <3>2. known[c].version = 0 BY <1>3, <3>1, RowKinds DEF OrNone
    <3> QED BY <1>2, <3>2 DEF Notes!Row
  <2>4. CASE ann' = Notes!Gone BY <2>4 DEF Notes!Row, Notes!Gone
  <2>5. CASE ann \in AnnRows /\ ann' \in AnnRows /\ ann'.version = ann.version + 1
    <3>1. Notes!Row(ann) /\ ann.version \in Nat BY <1>3, <2>5, RowKinds
    <3>2. Notes!Row(known[c]) => known[c].version \in Nat /\ known[c].version <= ann.version
      BY <1>3, <3>1, RowKinds DEF Earlier
    <3>3. known[c].version = 0 \/ Notes!Row(known[c]) BY <1>3, RowKinds DEF OrNone
    <3> QED BY <1>2, <2>5, <3>1, <3>2, <3>3
  <2>6. CASE ann \in AnnRows /\ ann.deleted = "undoable" /\ ann' = [ann EXCEPT !.deleted = "expired"]
    <3>1. ann'.version = ann.version /\ ann'.veil = ann.veil /\ ann'.locked = ann.locked
      BY <2>6, StampsAgree
    <3>2. Notes!Row(ann) BY <1>3, <2>6, RowKinds
    <3>3. ann.veil = {} /\ ~ann.locked BY <1>2, <2>1, <3>1, <3>2
    <3> QED BY <3>1, <3>3
  <2> QED BY <2>2, <2>3, <2>4, <2>5, <2>6 DEF NotesMove, RowMoves
<1>5. CASE tx[c] = Notes!Idle
  <2>1. Notes!Unveiled /\ ~ann.locked /\ ann' = ann BY <1>1, <1>2, <1>5, IdleFacts DEF TxMoves
  <2> QED BY <2>1 DEF Notes!Unveiled
<1> QED BY <1>4, <1>5

LEMMA MovesKeepHolders ==
  ASSUME NotesInv, NotesMove
  PROVE  HoldersAreIn'
<1> SUFFICES ASSUME NEW c \in Notes!Clients, tx'[c].phase \in {"holding", "fenced"}
             PROVE  open'
  BY DEF HoldersAreIn, Notes!Holding, Notes!Clients
<1>1. Notes!Holding(c) => open BY DEF NotesInv, HoldersAreIn
<1>2. open' = open \/ ~Notes!Holding(c) BY DEF NotesMove
<1>3. TxMoves(c) BY DEF NotesMove
<1>4. CASE tx'[c] = tx[c] BY <1>1, <1>2, <1>4 DEF Notes!Holding
<1>5. CASE tx'[c] # tx[c] BY <1>1, <1>3, <1>5, IdleFacts DEF TxMoves, Notes!Holding
<1> QED BY <1>4, <1>5

LEMMA MovesKeepFenced ==
  ASSUME NotesInv, NotesMove
  PROVE  FencedIsFirm'
<1> SUFFICES ASSUME NEW c \in Notes!Clients, tx'[c].phase = "fenced"
             PROVE  /\ c \in Repliers
                    /\ Notes!Unveiled' /\ ann'.deleted = "no" /\ ~ann'.locked /\ Notes!Bound'
  BY DEF FencedIsFirm, Notes!Clients
<1>1. /\ c \in Repliers /\ Notes!Unveiled /\ ann.deleted = "no" /\ ~ann.locked /\ Notes!Bound
      /\ ann' = ann /\ link' = link
  <2>1. TxMoves(c) BY DEF NotesMove
  <2>2. CASE tx[c].phase = "fenced"
    <3>1. c \in Repliers /\ Notes!Unveiled /\ ann.deleted = "no" /\ ~ann.locked /\ Notes!Bound
      BY <2>2 DEF NotesInv, FencedIsFirm
    <3>2. Notes!Fenced BY <2>2, <3>1 DEF Notes!Fenced
    <3> QED BY <3>1, <3>2 DEF NotesMove, Notes!Unveiled
  <2>3. CASE tx[c].phase # "fenced" BY <2>1, <2>3, IdleFacts DEF TxMoves
  <2> QED BY <2>2, <2>3
<1> QED BY <1>1 DEF Notes!Unveiled, Notes!Bound, Notes!Row

LEMMA NotesNext == NotesInv /\ [Notes!Next]_(Notes!vars) => NotesInv'
<1> SUFFICES ASSUME NotesInv, [Notes!Next]_(Notes!vars) PROVE NotesInv' OBVIOUS
<1>1. CASE Notes!Next
  BY <1>1, StepsMove, MovesKeepSeen, MovesKeepChecked, MovesKeepHolders, MovesKeepFenced
  DEF NotesInv
<1>2. CASE UNCHANGED Notes!vars
  <2>1. UNCHANGED <<ann, reply, open, link, known, tx, purge>> BY <1>2 DEF Notes!vars
  <2> QED BY <2>1 DEF NotesInv, NotesTyped, SeenIsPast, CheckedIsClear, HoldersAreIn, FencedIsFirm,
        Earlier, OwnRow, RowsOf, OrNone, AnnRows, ReplyRows, TxRows, Notes!AnnotationRows,
        Notes!ReplyRows, Notes!Row, Notes!Stamp, Notes!Holding, Notes!Unveiled, Notes!Bound,
        Notes!Clients
<1> QED BY <1>1, <1>2

LEMMA NotesInit == Notes!Init => NotesInv
<1> SUFFICES ASSUME Notes!Init PROVE NotesInv OBVIOUS
<1>1. \A c \in Notes!Clients : known[c] = Notes!Never /\ tx[c] = Notes!Idle BY DEF Notes!Init
<1>2. NotesTyped BY <1>1, IdleFacts DEF Notes!Init, NotesTyped, OrNone
<1>3. SeenIsPast BY <1>1 DEF SeenIsPast, Earlier, Notes!Row, Notes!Never
<1>4. CheckedIsClear BY <1>1, ClientFacts DEF CheckedIsClear
<1>5. HoldersAreIn /\ FencedIsFirm
  BY <1>1, IdleFacts DEF HoldersAreIn, FencedIsFirm, Notes!Holding
<1> QED BY <1>2, <1>3, <1>4, <1>5 DEF NotesInv

\* What changes a row, besides what leaves all requests as they are.
Writes(c) ==
  \/ c \in Authors /\ Notes!WriteAuthor(c)
  \/ c \in Moderators /\ Notes!WriteModeration(c)
  \/ c \in Repliers /\ Notes!WriteReply(c)
LEMMA RequestsWrite ==
  ASSUME NEW c, Notes!Step(c)
  PROVE  (UNCHANGED <<ann, reply>> \/ Writes(c)) /\ UNCHANGED purge
<1>1. CASE Notes!Look(c) \/ Notes!Authorize(c) \/ Notes!Refuse(c)
  BY <1>1 DEF Notes!Look, Notes!Authorize, Notes!Refuse
<1>2. CASE c \in Authors /\ Notes!AuthorStep(c)
  <2>1. CASE Notes!WriteAuthor(c) BY <1>2, <2>1, Zenon DEF Writes, Notes!WriteAuthor
  <2>2. CASE \E op \in Notes!AuthorOps : Notes!CheckAuthor(c, op) BY <2>2 DEF Notes!CheckAuthor
  <2> QED BY <1>2, <2>1, <2>2 DEF Notes!AuthorStep
<1>3. CASE c \in Moderators /\ Notes!ModeratorStep(c)
  <2>1. CASE Notes!WriteModeration(c) BY <1>3, <2>1, Zenon DEF Writes, Notes!WriteModeration
  <2>2. CASE \E op \in Notes!Moderations : Notes!CheckModeration(c, op)
    BY <2>2 DEF Notes!CheckModeration
  <2> QED BY <1>3, <2>1, <2>2 DEF Notes!ModeratorStep
<1>4. CASE c \in Repliers /\ Notes!ReplierStep(c)
  <2>1. CASE Notes!WriteReply(c) BY <1>4, <2>1, Zenon DEF Writes, Notes!WriteReply
  <2>2. CASE Notes!Fence(c) \/ \E op \in Notes!ReplyOps : Notes!CheckReply(c, op)
    BY <2>2 DEF Notes!CheckReply, Notes!Fence
  <2> QED BY <1>4, <2>1, <2>2 DEF Notes!ReplierStep
<1> QED BY <1>1, <1>2, <1>3, <1>4 DEF Notes!Step

LEMMA WhoWrites ==
  ASSUME Notes!Next
  PROVE  \/ UNCHANGED <<ann, reply>>
         \/ UNCHANGED tx
         \/ \E c \in Notes!Clients : Writes(c)
<1>1. CASE Notes!Other
  BY <1>1 DEF Notes!Other, Notes!Create, Notes!Detach, Notes!DeleteDocument, Notes!Close,
     Notes!Expire, Notes!Select, Notes!Purge
<1>2. ASSUME NEW c \in Notes!Clients, Notes!Step(c)
      PROVE  UNCHANGED <<ann, reply>> \/ Writes(c)
  BY <1>2, RequestsWrite
<1> QED BY <1>1, <1>2 DEF Notes!Next

LEMMA SeenIsReplaced ==
  ASSUME NotesInv, Notes!Next, NEW c \in Authors \cup Repliers,
         tx[c].phase \in {"holding", "fenced"}, tx'[c] = Notes!Idle
  PROVE  /\ Notes!Row(ann) /\ Notes!Row(ann') /\ ann' # ann =>
              Notes!Stamp(known[c]) = Notes!Stamp(ann) /\ ann.veil = {} /\ ~ann.locked
         /\ Notes!Row(reply) /\ Notes!Row(reply') /\ reply' # reply =>
              Notes!Stamp(known[c]) = Notes!Stamp(reply)
<1>1. c \in Notes!Clients /\ tx'[c] # tx[c] /\ tx[c] # Notes!Idle BY ClientFacts, IdleFacts
<1>2. CASE UNCHANGED <<ann, reply>> BY <1>2
<1>3. CASE Writes(c)
  <2>1. Earlier(known[c], OwnRow(c)) /\ known[c] \in OrNone(RowsOf(c))
    BY <1>1 DEF NotesInv, SeenIsPast, NotesTyped
  <2>2. CASE c \in Authors
    <3>1. Notes!Current(ann, c) /\ UNCHANGED reply
      BY <1>3, <2>2, ClientFacts, AnnotationsAssumption
      DEF Writes, Notes!WriteAuthor, Notes!ClientsAssumption
    <3>2. ann.veil = {} /\ ~ann.locked
      BY <1>1, <2>2, <3>1 DEF NotesInv, CheckedIsClear, Notes!Current
    <3>3. OwnRow(c) = ann BY <2>2, ClientFacts
    <3> QED BY <2>1, <3>1, <3>2, <3>3 DEF Earlier, Notes!Current, Notes!Row
  <2>3. CASE c \in Repliers
    <3>1. Notes!WriteReply(c) /\ UNCHANGED ann /\ OwnRow(c) = reply
      BY <1>3, <2>3, ClientFacts DEF Writes, Notes!WriteReply
    <3>2. CASE tx[c].op = "create"
      BY <3>1, <3>2 DEF Notes!WriteReply, Notes!Never, Notes!Row
    <3>3. CASE tx[c].op # "create"
      <4>1. Notes!Current(reply, c) BY <3>1, <3>3 DEF Notes!WriteReply
      <4> QED BY <2>1, <3>1, <4>1 DEF Earlier, Notes!Current, Notes!Row
    <3> QED BY <3>2, <3>3
  <2> QED BY <2>2, <2>3
<1>4. ASSUME NEW d \in Notes!Clients, Writes(d), d # c PROVE FALSE
  <2>1. Notes!Ends(d) BY <1>4 DEF Writes, Notes!WriteAuthor, Notes!WriteModeration, Notes!WriteReply
  <2> QED BY <1>1, <1>4, <2>1, Enters DEF NotesInv
<1> QED BY <1>1, <1>2, <1>3, <1>4, WhoWrites

LEMMA ReadersAreMet ==
  ASSUME NotesInv, Notes!Next, Notes!Row(reply'), reply'.version # reply.version
  PROVE  Notes!Unveiled /\ ann.deleted = "no" /\ ~ann.locked /\ open /\ Notes!Bound
<1>0. NotesTyped BY DEF NotesInv
<1>1. CASE \E c \in Repliers : Notes!WriteReply(c)
  <2>1. PICK c \in Repliers : Notes!WriteReply(c) BY <1>1
  <2>2. tx[c].phase = "fenced" /\ c \in Notes!Clients BY <2>1, ClientFacts DEF Notes!WriteReply
  <2> QED BY <2>2 DEF NotesInv, FencedIsFirm, HoldersAreIn, Notes!Holding
<1>2. ASSUME ~\E c \in Repliers : Notes!WriteReply(c) PROVE FALSE
  <2>1. reply' # Notes!Gone BY DEF Notes!Gone, Notes!Row
  <2>2. reply' # reply OBVIOUS
  <2>3. ~Notes!Cascade BY <2>1, <2>2 DEF Notes!Cascade
  <2>4. Notes!Expire
    <3>1. CASE Notes!Other
      BY <2>1, <2>2, <2>3, <3>1 DEF Notes!Other, Notes!Create, Notes!Detach,
         Notes!DeleteDocument, Notes!Close, Notes!Select, Notes!Purge
    <3>2. ASSUME NEW c \in Notes!Clients, Notes!Step(c) PROVE FALSE
      <4>1. UNCHANGED reply \/ Writes(c) BY <3>2, RequestsWrite
      <4>2. ~Writes(c) BY <1>2, <2>2, <2>3 DEF Writes, Notes!WriteAuthor, Notes!WriteModeration
      <4> QED BY <2>2, <4>1, <4>2
    <3> QED BY <3>1, <3>2 DEF Notes!Next
  <2>5. Notes!Row(reply) /\ reply.deleted = "undoable" /\ reply' = [reply EXCEPT !.deleted = "expired"]
    BY <2>2, <2>4, Zenon DEF Notes!Expire
  <2>6. reply \in ReplyRows BY <1>0, <2>5, RowKinds DEF NotesTyped
  <2> QED BY <2>5, <2>6, StampsAgree
<1> QED BY <1>1, <1>2

LEMMA UndoIsHeld ==
  ASSUME NotesInv, Notes!Next, purge' # purge
  PROVE  /\ Notes!Row(ann) /\ ~Notes!Row(ann') => ann.deleted = "expired"
         /\ Notes!Row(reply) /\ ~Notes!Row(reply') =>
              reply.deleted = "expired" \/ (Notes!Row(ann) /\ ann.deleted = "expired")
<1>1. Notes!Select \/ Notes!Purge
  <2>1. CASE Notes!Other
    BY <2>1 DEF Notes!Other, Notes!Create, Notes!Detach, Notes!DeleteDocument, Notes!Close,
       Notes!Expire
  <2>2. ASSUME NEW c \in Notes!Clients, Notes!Step(c) PROVE FALSE BY <2>2, RequestsWrite
  <2> QED BY <2>1, <2>2 DEF Notes!Next
<1>2. CASE Notes!Select BY <1>2 DEF Notes!Select, Notes!Row
<1>3. CASE Notes!Purge BY <1>3 DEF Notes!Purge, Notes!Expired, Notes!Cascade, Notes!Row
<1> QED BY <1>1, <1>2, <1>3

\* Authors replace what they have seen of a row that is theirs to change, Replies go
\* to Annotations that their readers have, and nothing is purged within its undo
\* window, whatever requests, moderation, detachment and retention do in between.
THEOREM AnnotationsAreSound == Notes!Spec => AnnotationsStand
<1>1. NotesInv /\ [Notes!Next]_(Notes!vars) =>
        [\A c \in Authors \cup Repliers :
           tx[c].phase \in {"holding", "fenced"} /\ tx'[c] = Notes!Idle =>
             /\ Notes!Row(ann) /\ Notes!Row(ann') /\ ann' # ann =>
                  Notes!Stamp(known[c]) = Notes!Stamp(ann) /\ ann.veil = {} /\ ~ann.locked
             /\ Notes!Row(reply) /\ Notes!Row(reply') /\ reply' # reply =>
                  Notes!Stamp(known[c]) = Notes!Stamp(reply)]_(Notes!vars)
  BY SeenIsReplaced
<1>2. NotesInv /\ [Notes!Next]_(Notes!vars) =>
        [Notes!Row(reply') /\ reply'.version # reply.version =>
           /\ Notes!Unveiled /\ ann.deleted = "no" /\ ~ann.locked /\ open /\ Notes!Bound]_(Notes!vars)
  BY ReadersAreMet
<1>3. NotesInv /\ [Notes!Next]_(Notes!vars) =>
        [\A row \in {<<ann, ann'>>, <<reply, reply'>>} :
           Notes!Row(row[1]) /\ ~Notes!Row(row[2]) /\ purge' # purge =>
             row[1].deleted = "expired" \/ (Notes!Row(ann) /\ ann.deleted = "expired")]_(Notes!vars)
  BY UndoIsHeld
<1> QED
  BY NotesInit, NotesNext, <1>1, <1>2, <1>3, PTL
  DEF Notes!Spec, AnnotationsStand, Notes!AnnotationsStand, Notes!ReplacedIsSeen,
      Notes!RepliesMeetReaders, Notes!UndoHolds

-------------------------------------------------------------------------------
(* Downloads: what a request knows of what it has seen.                       *)

Fields == {"kind", "phase", "key", "todo", "wanted", "annotate", "extras", "manifest", "inside",
           "body", "temp", "until"}
PdfKeys == {Pdf(u) : u \in Uploads}
BinKeys == {Bin(a) : a \in Attachments}
InPhase(S) == req.phase \in S

RequestTyped == req = [f \in Fields |-> req[f]] /\ clock \in Nat

\* A request passes the phases of its kind.
PhasesFollow ==
  /\ InPhase({"named", "headed", "renamed"}) => req.kind = "content"
  /\ InPhase({"querying", "probing", "found"}) => req.kind = "thumbnail"
  /\ InPhase({"granted", "stored", "signing", "linked"}) => req.kind = "artifact"
  /\ InPhase({"picked", "made", "recorded"}) => req.kind = "annotated"
  /\ InPhase({"created", "members", "supplements"}) => req.kind = "archive"
  /\ InPhase({"open"}) => req.kind # "archive"

\* What is still to be looked at contains what the Item shows.
AbsenceHolds ==
  req.kind \in {"content", "annotated"} /\ InPhase({"missing", "refused"}) => ~Reader!Named(req.key)
SearchCovers ==
  /\ InPhase({"querying"}) =>
       Reader!AbstractKeys \subseteq req.todo /\ \A k, l \in req.todo : k = l
  /\ InPhase({"probing"}) => Reader!AbstractKeys = {} /\ Reader!ReadyThumbs \subseteq req.todo
  /\ req.kind = "thumbnail" /\ InPhase({"missing"}) =>
       Reader!AbstractKeys = {} /\ Reader!ReadyThumbs = {}

\* What is asked of an archive and still there is in it, or is still to come.
AskedFor(u) == req.wanted = {} \/ u \in req.wanted
Holds(S) == \A u \in Uploads : Pdf(u) \in Reader!ItemPdfs /\ AskedFor(u) => Pdf(u) \in S
MembersCover ==
  /\ InPhase({"created"}) => req.manifest = {} /\ req.inside = {}
  /\ InPhase({"members"}) =>
       /\ req.manifest = req.inside /\ req.inside \subseteq PdfKeys /\ req.todo \subseteq PdfKeys
       /\ Holds(req.todo \cup req.manifest)
  /\ InPhase({"supplements"}) =>
       /\ req.manifest = req.inside \cap PdfKeys /\ req.todo \subseteq BinKeys
       /\ Holds(req.manifest) /\ Reader!Supplements \subseteq req.todo \cup req.inside
  /\ InPhase({"members", "supplements"}) /\ req.body # "none" => req.key \in req.todo
  /\ req.kind = "archive" /\ InPhase({"done"}) =>
       /\ req.manifest = req.inside \cap PdfKeys /\ Holds(req.manifest)
       /\ req.extras => Reader!Supplements \subseteq req.inside

\* The artifact a link is made for is kept until it expires.
ArtifactStays ==
  /\ InPhase({"granted", "stored", "signing", "linked"}) =>
       \E e \in Exports : req.key = Out(e) /\ (clock < ExpiresAt => Reader!Live(e))
  /\ InPhase({"signing", "linked"}) => req.until \in Nat
  /\ InPhase({"linked"}) => req.until <= ExpiresAt

\* Bodies and copies on disk are in the hands of the phases that end them.
BodiesAreHeld ==
  /\ ~InPhase({"made", "recorded", "members", "supplements", "closed"}) =>
       req.body = "none" /\ ~req.temp
  /\ InPhase({"made"}) => req.body = "none"
  /\ InPhase({"members", "supplements"}) /\ req.body = "none" => ~req.temp
  /\ InPhase({"closed"}) => req.body # "reading" /\ (req.temp => req.body = "handed")

ReadInv ==
  /\ RequestTyped /\ PhasesFollow /\ AbsenceHolds /\ SearchCovers /\ MembersCover
  /\ ArtifactStays /\ BodiesAreHeld

-------------------------------------------------------------------------------
(* What the reader sees of the Documents.                                     *)

LEMMA ShownIsStored ==
  ASSUME IInv
  PROVE  /\ Reader!ItemPdfs \subseteq store /\ Reader!Supplements \subseteq store
         /\ Reader!Thumbs \subseteq store
         /\ Reader!AbstractKeys \subseteq store /\ Reader!ReadyThumbs \subseteq store
         /\ \A e \in Exports : Reader!Live(e) => Out(e) \in store
<1>0. TypeOK /\ Referenced \subseteq store BY DEF IInv, StoreInv, NamedIsStored
<1>1. \A u \in Uploads : rev[u].state # "none" => Row(u) BY <1>0, RowStates
<1>2. \A u \in Uploads : Row(u) => Pdf(u) \in ItemKeys /\ rev[u].thumb \subseteq ItemKeys
  BY DEF ItemKeys, RevisionKeys, Row
<1>3. \A a \in Attachments : att[a] # "none" => Bin(a) \in ItemKeys
  BY DEF ItemKeys, AttachmentKeys
<1>4. ItemKeys \subseteq store /\ \A e \in Exports : art[e] # "none" => Out(e) \in store
  BY <1>0 DEF Referenced
<1>5. Reader!ItemPdfs \subseteq store BY <1>1, <1>2, <1>4 DEF Reader!ItemPdfs, Reader!Row
<1>6. Reader!Thumbs \subseteq store BY <1>1, <1>2, <1>4 DEF Reader!Thumbs, Reader!Row
<1>7. Reader!ReadyThumbs \subseteq store BY <1>1, <1>2, <1>4 DEF Reader!ReadyThumbs
<1>8. Reader!Supplements \subseteq store /\ Reader!AbstractKeys \subseteq store
  BY <1>3, <1>4 DEF Reader!Supplements, Reader!AbstractKeys
<1>9. \A e \in Exports : Reader!Live(e) => Out(e) \in store BY <1>4 DEF Reader!Live
<1> QED BY <1>5, <1>6, <1>7, <1>8, <1>9

LEMMA ShownKinds ==
  /\ Reader!ItemPdfs \subseteq PdfKeys /\ Reader!Supplements \subseteq BinKeys
  /\ PdfKeys \cap BinKeys = {}
  /\ \A u \in Uploads : Pdf(u) \in Reader!ItemPdfs <=> Reader!Row(u)
<1>1. PdfKeys \cap BinKeys = {} BY DistinctKeys DEF PdfKeys, BinKeys
<1>2. \A u \in Uploads : Pdf(u) \in Reader!ItemPdfs <=> Reader!Row(u)
  BY DistinctKeys DEF Reader!ItemPdfs
<1> QED BY <1>1, <1>2 DEF Reader!ItemPdfs, PdfKeys, Reader!Supplements, BinKeys

\* The reader's own steps leave the Documents as they are.
ShownRests ==
  /\ Reader!ItemPdfs' = Reader!ItemPdfs /\ Reader!Supplements' = Reader!Supplements
  /\ Reader!Thumbs' = Reader!Thumbs /\ Reader!AbstractKeys' = Reader!AbstractKeys
  /\ Reader!ReadyThumbs' = Reader!ReadyThumbs
  /\ clock' = clock /\ store' = store /\ sees' = sees /\ item' = item
  /\ \A e \in Exports : Reader!Live(e)' <=> Reader!Live(e)
LEMMA RestKeeps == Reader!Rest => ShownRests
BY DEF Reader!Rest, Reader!shared, ShownRests, Reader!ItemPdfs, Reader!Supplements, Reader!Thumbs,
       Reader!AbstractKeys, Reader!ReadyThumbs, Reader!Row, Reader!Live

\* What may happen around a request that is under way.
ShownWanes ==
  /\ Reader!ItemPdfs' \subseteq Reader!ItemPdfs /\ Reader!Supplements' \subseteq Reader!Supplements
  /\ Reader!Thumbs' \subseteq Reader!Thumbs /\ Reader!AbstractKeys' \subseteq Reader!AbstractKeys
  /\ Reader!ReadyThumbs' \subseteq Reader!ReadyThumbs
  /\ (item' => item) /\ (sees' => sees)
LEMMA WanesKeepsInv ==
  ASSUME ReadInv, req' = req, clock' \in Nat, req.phase # "idle" => ShownWanes,
         clock' < ExpiresAt =>
           clock < ExpiresAt /\ \A e \in Exports : Reader!Live(e) => Reader!Live(e)'
  PROVE  ReadInv'
<1> USE DEF InPhase
<1>1. RequestTyped' BY DEF ReadInv, RequestTyped
<1>2. PhasesFollow' /\ BodiesAreHeld' BY DEF ReadInv, PhasesFollow, BodiesAreHeld
<1>3. AbsenceHolds'
  BY DEF ReadInv, AbsenceHolds, ShownWanes, Reader!Named, Reader!MayRead
<1>4. SearchCovers' BY DEF ReadInv, SearchCovers, ShownWanes
<1>5. \A S : req.phase # "idle" /\ Holds(S) => Holds(S)'
  BY DEF Holds, AskedFor, ShownWanes
<1>6. MembersCover'
  BY <1>5 DEF ReadInv, MembersCover, ShownWanes
<1>7. ArtifactStays' BY DEF ReadInv, ArtifactStays
<1> QED BY <1>1, <1>2, <1>3, <1>4, <1>6, <1>7 DEF ReadInv

-------------------------------------------------------------------------------
(* What Documents and the clock do around a request.                          *)

\* An Item that is gone stays gone, and an artifact is live until it expires.
LEMMA DocumentsWane ==
  ASSUME TypeOK, Next
  PROVE  /\ item' => item
         /\ (\A e \in Exports : ~Expire(e)) =>
              \A e \in Exports : Reader!Live(e) => Reader!Live(e)'
<1> DEFINE Wane == (item' => item) /\ \A e \in Exports : Reader!Live(e) => Reader!Live(e)'
<1>1. ASSUME item' = item, art' = art PROVE Wane BY <1>1 DEF Reader!Live
<1>2. ASSUME NEW u \in Uploads, UploadStep(u) PROVE Wane
  <2>1. CASE Request(u) \/ UploadRuns(u) \/ DeleteRevision(u)
    BY <1>1, <2>1 DEF Request, StartUpload, PutObject, SendComplete, UploadFails, UploadRuns,
       Receive, Abandon, ReserveRevision, DeleteRevision, docs
  <2>2. ASSUME NEW j, Inspection(j) PROVE Wane
    BY <1>1, <2>2 DEF Inspection, Look, Draw, Publish, Superseded, StepEnds, StepRefuses, GivesUp,
       FailRevision, docs
  <2>3. ASSUME NEW j, Retry(u, j[2]) \/ Fault(j) \/ Cleared(j) PROVE Wane
    BY <1>1, <2>3 DEF Retry, Fault, Redo, StepBreaks, GivesUp, Die, Outlive, Cleared, docs
  <2> QED BY <1>2, <2>1, <2>2, <2>3 DEF UploadStep
<1>3. ASSUME NEW a \in Attachments, AttachmentStep(a) PROVE Wane
  BY <1>1, <1>3 DEF AttachmentStep, AttachmentRuns, Request, StartUpload, PutObject, SendComplete,
     UploadFails, Receive, Abandon, ValidateAttachment, CommitAttachment, DeleteAttachment,
     Cleared, Die, docs
<1>4. ASSUME NEW e \in Exports, ExportStep(e), ~Expire(e) PROVE Wane
  <2>1. CASE RecordArtifact(e) BY <2>1 DEF RecordArtifact, TypeOK, Reader!Live
  <2>2. CASE Retire(e) BY <2>2 DEF Retire, TypeOK, Reader!Live
  <2>3. CASE StartExport(e) \/ Build(e) \/ ExportRaises(e) \/ ExportEnds(e)
             \/ Cleared(<<e, 0>>) \/ Die(<<e, 0>>)
    BY <1>1, <2>3 DEF StartExport, Build, ExportRaises, ExportEnds, Cleared, Die, docs
  <2> QED BY <1>4, <2>1, <2>2, <2>3 DEF ExportStep, ExportRuns
<1>5. CASE CopyStep
  BY <1>1, <1>5 DEF CopyStep, StartCopy, Install, CopyFails, CopyObject, docs
<1>6. CASE ObjectStep \/ Authority
  BY <1>1, <1>6 DEF ObjectStep, Collect, Recheck, Remove, Drop, Scan, Authority, docs
<1>7. CASE DeleteItem BY <1>7 DEF DeleteItem, Reader!Live
<1>8. ASSUME NEW e \in Exports, Expire(e) PROVE item' = item BY <1>8 DEF Expire
<1> QED BY <1>2, <1>3, <1>4, <1>5, <1>6, <1>7, <1>8 DEF Next

LEMMA TickKeepsDocuments ==
  ASSUME IInv, UNCHANGED producing, Reader!Tick PROVE IInv'
<1>0. TypeOK BY DEF IInv
<1>1. UNCHANGED <<item, rev, att, store, producing>>
      /\ art' \in [Exports -> {"none", "live", "expired"}]
      /\ \A e \in Exports : art'[e] = "none" <=> art[e] = "none"
  BY <1>0 DEF Reader!Tick, TypeOK, Reader!Live
<1>2. TypeOK' BY <1>0, <1>1 DEF TypeOK, producing
<1>3. Referenced' = Referenced
  BY <1>1 DEF Referenced, ItemKeys, RevisionKeys, AttachmentKeys, producing
<1>4. StoreInv' /\ SweptIsOver'
  <2>1. Awaited' = Awaited /\ Promised' = Promised /\ Begun' = Begun
    BY <1>1 DEF Awaited, AwaitedThumb, Promised, Begun, Row, Owns, Sent, producing
  <2> QED BY <1>1, <1>3, <2>1 DEF IInv, StoreInv, NamedIsStored, SweptIsOver, producing
<1>5. OutputsFollow' BY <1>1 DEF IInv, RunsInv, OutputsFollow, producing
<1>6. RunsInv'
  BY <1>1, <1>5 DEF IInv, RunsInv, RowsFollowRuns, RunsFollowRows, RequestsFollow, DeadIsRunning,
     Row, Owns, producing
<1>7. CopyInv'
  BY <1>1 DEF IInv, CopyInv, CopiesKnown, SnapshotKeys, RevisionKeys, AttachmentKeys, producing
<1> QED BY <1>2, <1>4, <1>6, <1>7 DEF IInv

-------------------------------------------------------------------------------
(* The reader's own steps: what they make of the request, and that they keep  *)
(* what it knows.                                                             *)

LEMMA NamedIsShown ==
  \A k : Reader!Named(k) =>
    k \in Reader!ItemPdfs \cup Reader!Supplements \cup Reader!Thumbs
BY DEF Reader!Named
LEMMA NamedRests ==
  ASSUME ShownRests PROVE \A k : Reader!Named(k)' <=> Reader!Named(k)
BY DEF ShownRests, Reader!Named, Reader!MayRead
LEMMA HoldsRests ==
  ASSUME ShownRests, req'.wanted = req.wanted PROVE \A S : Holds(S)' <=> Holds(S)
BY DEF ShownRests, Holds, AskedFor

OthersRest == UNCHANGED <<req.kind, req.key, req.todo, req.wanted, req.annotate, req.extras,
                          req.manifest, req.inside, req.body, req.temp, req.until>>
LEMMA PhaseMoves ==
  ASSUME RequestTyped, NEW p, Reader!To(p)
  PROVE  req' = [f \in Fields |-> req'[f]] /\ req'.phase = p /\ OthersRest
BY DEF RequestTyped, Fields, Reader!To, OthersRest

\* Steps of one object.
LEMMA ObjectKeepsInv ==
  ASSUME IInv, ReadInv,
         Reader!Head \/ Reader!NotModified \/ Reader!Again \/ Reader!Open \/ Reader!Read
  PROVE  ReadInv'
<1> USE DEF InPhase
<1>0. ShownRests
  BY RestKeeps DEF Reader!Head, Reader!NotModified, Reader!Again, Reader!Open, Reader!Read
<1>1. \/ req.phase = "named" /\ req'.phase \in {"headed", "missing"}
      \/ req.phase = "headed" /\ req'.phase \in {"done", "renamed", "refused"}
      \/ req.phase = "renamed" /\ req'.phase \in {"open", "missing"}
      \/ req.phase = "open" /\ req'.phase = "done"
  BY PhaseMoves DEF ReadInv, Reader!Head, Reader!NotModified, Reader!Again, Reader!Open, Reader!Read
<1>2. req' = [f \in Fields |-> req'[f]] /\ OthersRest
  BY PhaseMoves DEF ReadInv, Reader!Head, Reader!NotModified, Reader!Again, Reader!Open, Reader!Read
<1>3. req'.phase \in {"missing", "refused"} => ~Reader!Named(req.key)
  BY PhaseMoves, NamedIsShown, ShownIsStored
     DEF ReadInv, Reader!Head, Reader!NotModified, Reader!Again, Reader!Open, Reader!Read
<1>4. RequestTyped' /\ PhasesFollow' /\ BodiesAreHeld' /\ ArtifactStays'
  BY <1>0, <1>1, <1>2
     DEF ReadInv, RequestTyped, PhasesFollow, BodiesAreHeld, ArtifactStays, OthersRest, ShownRests
<1>5. AbsenceHolds'
  BY <1>0, <1>2, <1>3, NamedRests DEF AbsenceHolds, OthersRest
<1>6. SearchCovers'
  BY <1>0, <1>1, <1>2 DEF ReadInv, SearchCovers, PhasesFollow, OthersRest, ShownRests
<1>7. MembersCover'
  BY <1>0, <1>1, <1>2, HoldsRests DEF ReadInv, MembersCover, PhasesFollow, OthersRest, ShownRests
<1> QED BY <1>4, <1>5, <1>6, <1>7 DEF ReadInv

\* Asking: a request starts from NoRequest.
Starts(kind, phase) ==
  /\ req' = [f \in Fields |-> req'[f]] /\ req'.kind = kind /\ req'.phase = phase
  /\ req'.body = "none" /\ req'.temp = FALSE /\ req'.manifest = {} /\ req'.inside = {}
LEMMA ContentStarts ==
  ASSUME NEW k, Reader!Ask(k) PROVE Starts("content", "named")
BY DEF Reader!Ask, Reader!NoRequest, Fields, Starts
LEMMA ThumbnailStarts ==
  ASSUME Reader!AskThumbnail
  PROVE  Starts("thumbnail", "querying") /\ req'.todo = Reader!AbstractKeys
BY DEF Reader!AskThumbnail, Reader!NoRequest, Fields, Starts
LEMMA ArtifactStarts ==
  ASSUME NEW e, Reader!AskArtifact(e)
  PROVE  Starts("artifact", "granted") /\ req'.key = Out(e) /\ Reader!Live(e)
BY DEF Reader!AskArtifact, Reader!NoRequest, Fields, Starts
LEMMA AnnotatedStarts ==
  ASSUME NEW u, NEW annotate, Reader!AskAnnotated(u, annotate) PROVE Starts("annotated", "picked")
BY DEF Reader!AskAnnotated, Reader!NoRequest, Fields, Starts
LEMMA ArchiveStarts ==
  ASSUME NEW wanted, NEW annotate, NEW extras, Reader!AskArchive(wanted, annotate, extras)
  PROVE  Starts("archive", "created")
<1> DEFINE q == [Reader!NoRequest EXCEPT !.kind = "archive", !.phase = "created"]
<1>1. /\ q = [f \in Fields |-> q[f]] /\ q.kind = "archive" /\ q.phase = "created"
      /\ q.body = "none" /\ q.temp = FALSE /\ q.manifest = {} /\ q.inside = {}
  BY DEF Reader!NoRequest, Fields
<1>2. req' = [q EXCEPT !.wanted = wanted, !.annotate = annotate, !.extras = extras]
  BY DEF Reader!AskArchive
<1> HIDE DEF q
<1> QED BY <1>1, <1>2 DEF Fields, Starts

LEMMA AskKeepsInv ==
  ASSUME IInv, AtMostOne, ReadInv,
         \/ \E k : Reader!Ask(k)
         \/ Reader!AskThumbnail
         \/ \E e \in Exports : Reader!AskArtifact(e)
         \/ \E u \in Uploads, annotate \in BOOLEAN : Reader!AskAnnotated(u, annotate)
         \/ \E wanted \in Selections, annotate, extras \in BOOLEAN :
              Reader!AskArchive(wanted, annotate, extras)
  PROVE  ReadInv'
<1> USE DEF InPhase
<1>1. ShownRests
  BY RestKeeps DEF Reader!Ask, Reader!AskThumbnail, Reader!AskArtifact, Reader!AskAnnotated,
     Reader!AskArchive
<1>2. ASSUME Starts("content", "named") \/ Starts("annotated", "picked")
             \/ Starts("archive", "created")
      PROVE  ReadInv'
  BY <1>1, <1>2 DEF ReadInv, RequestTyped, PhasesFollow, AbsenceHolds, SearchCovers, MembersCover,
     ArtifactStays, BodiesAreHeld, ShownRests, Starts
<1>3. ASSUME Reader!AskThumbnail PROVE ReadInv'
  <2>1. \A k, l \in Reader!AbstractKeys : k = l BY DEF AtMostOne, Reader!AbstractKeys
  <2> QED BY <1>1, <1>3, <2>1, ThumbnailStarts DEF ReadInv, RequestTyped, PhasesFollow,
      AbsenceHolds, SearchCovers, MembersCover, ArtifactStays, BodiesAreHeld, ShownRests, Starts
<1>4. ASSUME NEW e \in Exports, Reader!AskArtifact(e) PROVE ReadInv'
  BY <1>1, <1>4, ArtifactStarts DEF ReadInv, RequestTyped, PhasesFollow, AbsenceHolds,
     SearchCovers, MembersCover, ArtifactStays, BodiesAreHeld, ShownRests, Starts
<1>5. ASSUME NEW k, Reader!Ask(k) PROVE ReadInv' BY <1>2, <1>5, ContentStarts
<1>6. ASSUME NEW u, NEW annotate, Reader!AskAnnotated(u, annotate) PROVE ReadInv'
  BY <1>2, <1>6, AnnotatedStarts
<1>7. ASSUME NEW wanted, NEW annotate, NEW extras, Reader!AskArchive(wanted, annotate, extras)
      PROVE  ReadInv'
  BY <1>2, <1>7, ArchiveStarts
<1> QED BY <1>3, <1>4, <1>5, <1>6, <1>7

\* The thumbnail of the Item.
LEMMA ThumbnailKeepsInv ==
  ASSUME IInv, ReadInv,
         \/ Reader!ProbeAbstract \/ Reader!NoThumbnail \/ Reader!OpenThumbnail
         \/ \E k \in req.todo : Reader!ProbeThumb(k)
  PROVE  ReadInv'
<1> USE DEF InPhase
<1> DEFINE Kept == /\ req' = [f \in Fields |-> req'[f]]
                   /\ UNCHANGED <<req.kind, req.body, req.temp, req.until>>
           Found == req.phase \in {"querying", "probing"} /\ req'.phase = "found"
           Opened == req.phase = "found" /\ req'.phase \in {"open", "broken"}
           NoAbstract == /\ req.phase = "querying" /\ req'.phase = "querying"
                         /\ ~(req.todo \subseteq store) /\ req'.todo = {}
           Turned == /\ req.phase = "querying" /\ req'.phase = "probing" /\ req.todo = {}
                     /\ req'.todo = Reader!ReadyThumbs
           Probed == /\ req.phase = "probing" /\ req'.phase = "probing"
                     /\ \E k : k \notin store /\ req'.todo = req.todo \ {k}
           Nothing == req.phase = "probing" /\ req.todo = {} /\ req'.phase = "missing"
<1>0. RequestTyped BY DEF ReadInv
<1>1. ShownRests
  BY RestKeeps DEF Reader!ProbeAbstract, Reader!NoThumbnail, Reader!OpenThumbnail, Reader!ProbeThumb
<1>2. ASSUME Reader!ProbeAbstract PROVE Kept /\ (Found \/ NoAbstract \/ Turned)
  BY <1>0, <1>2, ZenonT(30) DEF Reader!ProbeAbstract, RequestTyped, Fields
<1>3. ASSUME NEW k, Reader!ProbeThumb(k) PROVE Kept /\ (Found \/ Probed)
  BY <1>0, <1>3 DEF Reader!ProbeThumb, RequestTyped, Fields
<1>4. ASSUME Reader!NoThumbnail \/ Reader!OpenThumbnail PROVE Kept /\ (Nothing \/ Opened)
  BY <1>0, <1>4, PhaseMoves DEF Reader!NoThumbnail, Reader!OpenThumbnail, OthersRest
<1>5. Kept /\ (Found \/ Opened \/ NoAbstract \/ Turned \/ Probed \/ Nothing)
  BY <1>2, <1>3, <1>4
<1>6. RequestTyped' /\ PhasesFollow' /\ BodiesAreHeld' /\ ArtifactStays' /\ AbsenceHolds'
        /\ MembersCover'
  BY <1>1, <1>5 DEF ReadInv, RequestTyped, PhasesFollow, BodiesAreHeld, ArtifactStays, AbsenceHolds,
     MembersCover, ShownRests
<1>7. SearchCovers'
  <2>1. CASE Found \/ Opened BY <1>1, <1>5, <2>1 DEF ReadInv, PhasesFollow, SearchCovers
  <2>2. CASE NoAbstract BY <1>1, <1>5, <2>2, ShownIsStored DEF ReadInv, SearchCovers, ShownRests
  <2>3. CASE Turned BY <1>1, <1>5, <2>3 DEF ReadInv, SearchCovers, ShownRests
  <2>4. CASE Probed BY <1>1, <1>5, <2>4, ShownIsStored DEF ReadInv, SearchCovers, ShownRests
  <2>5. CASE Nothing BY <1>1, <1>5, <2>5 DEF ReadInv, SearchCovers, ShownRests
  <2> QED BY <1>5, <2>1, <2>2, <2>3, <2>4, <2>5
<1> QED BY <1>6, <1>7 DEF ReadInv

\* The file of an annotated export.
LEMMA ArtifactKeepsInv ==
  ASSUME IInv, ReadInv,
         Reader!ArtifactExists \/ Reader!Sign \/ Reader!Link \/ Reader!OpenArtifact
  PROVE  ReadInv'
<1> USE DEF InPhase
<1> DEFINE Kept == /\ req' = [f \in Fields |-> req'[f]]
                   /\ UNCHANGED <<req.kind, req.key, req.body, req.temp>>
           Artifacts == req.phase \in {"granted", "stored", "signing"}
<1>0. RequestTyped BY DEF ReadInv
<1>1. ShownRests
  BY RestKeeps DEF Reader!ArtifactExists, Reader!Sign, Reader!Link, Reader!OpenArtifact
<1>2. ASSUME Reader!ArtifactExists \/ Reader!OpenArtifact
      PROVE  Kept /\ Artifacts /\ req'.phase \in {"stored", "missing", "open", "broken"}
  BY <1>0, <1>2, PhaseMoves DEF Reader!ArtifactExists, Reader!OpenArtifact, OthersRest
<1>3. ASSUME Reader!Sign
      PROVE  /\ Kept /\ Artifacts
             /\ \/ req'.phase = "refused"
                \/ /\ req'.phase = "signing" /\ ~(Reader!Left < 1)
                   /\ req'.until = IF Lifetime < Reader!Left THEN Lifetime ELSE Reader!Left
  BY <1>0, <1>3 DEF Reader!Sign, RequestTyped, Fields
<1>4. ASSUME Reader!Link
      PROVE  /\ Kept /\ req.phase = "signing"
             /\ \/ req'.phase = "refused"
                \/ /\ req'.phase = "linked" /\ ~(clock + req.until > ExpiresAt)
                   /\ req'.until = clock + req.until
  BY <1>0, <1>4 DEF Reader!Link, RequestTyped, Fields
<1>5. Kept /\ Artifacts
        /\ req'.phase \in {"stored", "missing", "open", "broken", "refused", "signing", "linked"}
  BY <1>2, <1>3, <1>4
<1>6. RequestTyped' /\ PhasesFollow' /\ BodiesAreHeld' /\ AbsenceHolds' /\ SearchCovers'
        /\ MembersCover'
  BY <1>1, <1>5 DEF ReadInv, RequestTyped, PhasesFollow, BodiesAreHeld, AbsenceHolds, SearchCovers,
     MembersCover, ShownRests
<1>7. ArtifactStays'
  <2>0. ExpiresAt \in Nat /\ Lifetime \in Nat /\ clock \in Nat
    BY <1>0, DownloadsAssumption DEF Reader!ClockAssumption, RequestTyped
  <2>1. req'.phase \in {"signing", "linked"} => req'.until \in Nat
    <3>1. CASE Reader!ArtifactExists \/ Reader!OpenArtifact BY <1>2, <3>1
    <3>2. CASE Reader!Sign BY <1>3, <2>0, <3>2 DEF Reader!Left
    <3>3. CASE Reader!Link BY <1>4, <2>0, <3>3 DEF ReadInv, ArtifactStays
    <3> QED BY <3>1, <3>2, <3>3
  <2>2. req'.phase = "linked" => req'.until <= ExpiresAt
    <3>1. CASE Reader!ArtifactExists \/ Reader!OpenArtifact BY <1>2, <3>1
    <3>2. CASE Reader!Sign BY <1>3, <3>2
    <3>3. CASE Reader!Link BY <1>4, <2>0, <3>3 DEF ReadInv, ArtifactStays
    <3> QED BY <3>1, <3>2, <3>3
  <2>3. \E e \in Exports : req.key = Out(e) /\ (clock < ExpiresAt => Reader!Live(e))
    BY <1>5 DEF ReadInv, ArtifactStays
  <2> QED BY <1>1, <1>5, <2>1, <2>2, <2>3 DEF ArtifactStays, ShownRests
<1> QED BY <1>6, <1>7 DEF ReadInv

\* One PDF with its annotations.
LEMMA AnnotatedKeepsInv ==
  ASSUME IInv, ReadInv, Reader!MakeCopy \/ Reader!RecordExport \/ Reader!SendAnnotated
  PROVE  ReadInv'
<1> USE DEF InPhase
<1> DEFINE Kept == /\ req' = [f \in Fields |-> req'[f]]
                   /\ UNCHANGED <<req.kind, req.key>>
           Clean == req'.body = "none" /\ req'.temp = FALSE
<1>0. RequestTyped BY DEF ReadInv
<1>1. ShownRests BY RestKeeps DEF Reader!MakeCopy, Reader!RecordExport, Reader!SendAnnotated
<1>2. ASSUME Reader!MakeCopy
      PROVE  /\ Kept /\ req.phase = "picked" /\ req'.body = req.body
             /\ \/ req'.phase = "made"
                \/ req'.phase = "missing" /\ req'.temp = req.temp /\ req.key \notin store
  BY <1>0, <1>2 DEF Reader!MakeCopy, RequestTyped, Fields
<1>3. ASSUME Reader!RecordExport
      PROVE  /\ Kept /\ req.phase = "made"
             /\ \/ req'.phase = "recorded"
                \/ req'.phase = "broken" /\ req'.body = req.body /\ req'.temp = FALSE
  BY <1>0, <1>3 DEF Reader!RecordExport, RequestTyped, Fields
<1>4. ASSUME Reader!SendAnnotated
      PROVE  /\ Kept /\ req.phase = "recorded"
             /\ req'.phase = "recorded" \/ (req'.phase = "done" /\ Clean)
  BY <1>0, <1>4 DEF Reader!SendAnnotated, RequestTyped, Fields
<1>5. /\ Kept /\ req.phase \in {"picked", "made", "recorded"}
      /\ req'.phase \in {"made", "missing", "recorded", "broken", "done"}
  BY <1>2, <1>3, <1>4
<1>6. /\ req'.phase = "missing" => ~Reader!Named(req.key) /\ req'.body = "none" /\ ~req'.temp
      /\ req'.phase \in {"broken", "done"} => req'.body = "none" /\ ~req'.temp
      /\ req'.phase = "made" => req'.body = "none"
  BY <1>2, <1>3, <1>4, NamedIsShown, ShownIsStored DEF ReadInv, BodiesAreHeld
<1>7. RequestTyped' /\ PhasesFollow' /\ BodiesAreHeld' /\ SearchCovers' /\ MembersCover'
        /\ ArtifactStays'
  BY <1>1, <1>5, <1>6 DEF ReadInv, RequestTyped, PhasesFollow, BodiesAreHeld, SearchCovers,
     MembersCover, ArtifactStays, ShownRests
<1>8. AbsenceHolds' BY <1>1, <1>5, <1>6, NamedRests DEF AbsenceHolds
<1> QED BY <1>7, <1>8 DEF ReadInv

\* The archive of the Item.
LEMMA HandedMoves ==
  ASSUME RequestTyped, NEW k, NEW b, req' = [req EXCEPT !.key = k, !.body = "handed", !.temp = b]
  PROVE  /\ req' = [f \in Fields |-> req'[f]] /\ req'.key = k /\ req'.body = "handed"
         /\ UNCHANGED <<req.kind, req.phase, req.todo, req.wanted, req.annotate, req.extras,
                        req.manifest, req.inside>>
BY DEF RequestTyped, Fields

LEMMA MembersKeepInv ==
  ASSUME IInv, ReadInv,
         \/ Reader!ListRevisions \/ Reader!ReadMember \/ Reader!MemberEnds
         \/ \E k \in req.todo : Reader!Member(k)
  PROVE  ReadInv'
<1> USE DEF InPhase
<1> DEFINE Kept == /\ req' = [f \in Fields |-> req'[f]]
                   /\ UNCHANGED <<req.kind, req.wanted, req.annotate, req.extras>>
           Listed == /\ req.phase = "created" /\ req'.phase = "members" /\ req'.body = req.body
                     /\ UNCHANGED <<req.manifest, req.inside, req.temp>>
                     /\ req'.todo = IF req.wanted = {} THEN Reader!ItemPdfs
                                    ELSE Reader!ItemPdfs \cap {Pdf(u) : u \in req.wanted}
           Sending == req.phase \in {"members", "supplements"} /\ req'.phase = req.phase
           Handed == /\ Sending /\ UNCHANGED <<req.todo, req.manifest, req.inside>>
                     /\ req'.body # "none" /\ req'.key \in req.todo
           Failed == /\ req.phase \in {"members", "supplements"} /\ req'.phase = "broken"
                     /\ req.body = "none" /\ req'.body = "none" /\ req'.temp = req.temp
           Ended == /\ Sending /\ req.body # "none" /\ req'.body = "none" /\ req'.temp = FALSE
                    /\ req'.todo = req.todo \ {req.key} /\ req'.inside = req.inside \cup {req.key}
                    /\ req'.manifest = IF req.phase = "members" THEN req.manifest \cup {req.key}
                                       ELSE req.manifest
<1>0. RequestTyped BY DEF ReadInv
<1>1. ShownRests
  BY RestKeeps DEF Reader!ListRevisions, Reader!ReadMember, Reader!MemberEnds, Reader!Member
<1>2. ASSUME Reader!ListRevisions PROVE Kept /\ Listed
  BY <1>0, <1>2 DEF Reader!ListRevisions, RequestTyped, Fields
<1>3. ASSUME NEW k \in req.todo, Reader!Member(k) PROVE Kept /\ (Handed \/ Failed)
  <2>1. req.phase \in {"members", "supplements"} /\ req.body = "none"
    BY <1>3 DEF Reader!Member, Reader!Archiving
  <2>2. \/ \E b : req' = [req EXCEPT !.key = k, !.body = "handed", !.temp = b]
        \/ Reader!To("broken")
    BY <1>3 DEF Reader!Member, Reader!To
  <2>3. CASE \E b : req' = [req EXCEPT !.key = k, !.body = "handed", !.temp = b]
    <3>1. PICK b : req' = [req EXCEPT !.key = k, !.body = "handed", !.temp = b] BY <2>3
    <3>2. /\ req' = [f \in Fields |-> req'[f]] /\ req'.key = k /\ req'.body = "handed"
          /\ UNCHANGED <<req.kind, req.phase, req.todo, req.wanted, req.annotate, req.extras,
                         req.manifest, req.inside>>
      BY <1>0, <3>1, HandedMoves
    <3> QED BY <2>1, <3>2
  <2>4. CASE Reader!To("broken") BY <1>0, <2>1, <2>4, PhaseMoves DEF OthersRest
  <2> QED BY <2>2, <2>3, <2>4
<1>4. ASSUME Reader!ReadMember PROVE Kept /\ Handed
  <2>1. /\ Kept /\ Sending /\ UNCHANGED <<req.todo, req.manifest, req.inside, req.key>>
        /\ req.body = "handed" /\ req'.body = "reading"
    BY <1>0, <1>4 DEF Reader!ReadMember, Reader!Archiving, RequestTyped, Fields
  <2> QED BY <2>1 DEF ReadInv, MembersCover
<1>5. ASSUME Reader!MemberEnds PROVE Kept /\ Ended
  <2>1. req.body = "reading" /\ Kept /\ Sending /\ req'.body = "none" /\ req'.temp = FALSE
        /\ req'.todo = req.todo \ {req.key} /\ req'.inside = req.inside \cup {req.key}
        /\ req'.manifest = IF req.phase = "members" THEN req.manifest \cup {req.key}
                           ELSE req.manifest
    BY <1>0, <1>5 DEF Reader!MemberEnds, Reader!Archiving, RequestTyped, Fields
  <2> QED BY <2>1
<1>6. Kept /\ (Listed \/ Handed \/ Failed \/ Ended) BY <1>2, <1>3, <1>4, <1>5
<1> HIDE DEF Kept
<1>7. RequestTyped' BY <1>1, <1>6 DEF ReadInv, RequestTyped, ShownRests, Kept
<1>8. PhasesFollow' /\ AbsenceHolds' /\ SearchCovers' /\ ArtifactStays'
  BY <1>6 DEF ReadInv, PhasesFollow, AbsenceHolds, SearchCovers, ArtifactStays, Kept
<1>9. BodiesAreHeld' BY <1>6 DEF ReadInv, BodiesAreHeld
<1>10. req.kind = "archive" /\ req'.kind = "archive" /\ req'.wanted = req.wanted
  BY <1>6 DEF ReadInv, PhasesFollow, Kept
<1>11. MembersCover'
  <2>1. CASE Listed
    <3>1. req'.manifest = {} /\ req'.inside = {} /\ req'.body = "none"
      BY <2>1 DEF ReadInv, MembersCover, BodiesAreHeld
    <3>2. Holds(req'.todo)
      BY <2>1 DEF Holds, AskedFor
    <3>3. req'.todo \subseteq PdfKeys BY <2>1, ShownKinds
    <3>4. Holds(req.todo \cup req.manifest)'
      BY <1>1, <1>10, <3>2 DEF Holds, AskedFor, ShownRests
    <3> QED BY <2>1, <3>1, <3>3, <3>4 DEF MembersCover
  <2>2. CASE Handed
    BY <1>1, <1>10, <2>2, HoldsRests DEF ReadInv, MembersCover, ShownRests
  <2>3. CASE Failed BY <2>3 DEF MembersCover
  <2>4. CASE Ended /\ req.phase = "members"
    <3>1. req.key \in req.todo /\ req.key \in PdfKeys BY <2>4 DEF ReadInv, MembersCover
    <3>2. req.todo \cup req.manifest = req'.todo \cup req'.manifest BY <2>4, <3>1
    <3>3. Holds(req.todo \cup req.manifest)'
      BY <1>1, <1>10, <2>4, <3>2 DEF ReadInv, MembersCover, Holds, AskedFor, ShownRests
    <3> QED BY <2>4, <3>1, <3>3 DEF ReadInv, MembersCover
  <2>5. CASE Ended /\ req.phase = "supplements"
    <3>1. req.key \in req.todo /\ req.key \in BinKeys BY <2>5 DEF ReadInv, MembersCover
    <3>2. req'.manifest = req'.inside \cap PdfKeys
      BY <2>5, <3>1, ShownKinds DEF ReadInv, MembersCover
    <3>3. Holds(req.manifest)'
      BY <1>1, <1>10, <2>5 DEF ReadInv, MembersCover, Holds, AskedFor, ShownRests
    <3> QED BY <1>1, <2>5, <3>1, <3>2, <3>3 DEF ReadInv, MembersCover, ShownRests
  <2> QED BY <1>6, <2>1, <2>2, <2>3, <2>4, <2>5
<1> QED BY <1>7, <1>8, <1>9, <1>11 DEF ReadInv

LEMMA ArchiveEndsKeepsInv ==
  ASSUME IInv, ReadInv, Reader!Manifest \/ Reader!ArchiveEnds \/ Reader!Close
  PROVE  ReadInv'
<1> USE DEF InPhase
<1> DEFINE Kept == /\ req' = [f \in Fields |-> req'[f]]
                   /\ UNCHANGED <<req.kind, req.wanted, req.extras, req.manifest, req.inside>>
           Whole == /\ req.todo = {} /\ req.body = "none" /\ req'.body = "none"
                    /\ req'.temp = req.temp
           Listed == /\ Whole /\ req.phase = "members" /\ req'.phase = "supplements"
                     /\ req'.todo = Reader!Supplements
           Short == Whole /\ req.phase = "members" /\ req'.phase = "done" /\ ~req.extras
           Long == Whole /\ req.phase = "supplements" /\ req'.phase = "done"
           Closed == /\ req'.phase = "closed" /\ req'.body # "reading"
                     /\ req'.temp => req'.body = "handed"
<1>0. RequestTyped BY DEF ReadInv
<1>1. ShownRests BY RestKeeps DEF Reader!Manifest, Reader!ArchiveEnds, Reader!Close
<1>2. ASSUME Reader!Manifest PROVE Kept /\ (Listed \/ Short)
  BY <1>0, <1>2 DEF Reader!Manifest, Reader!To, RequestTyped, Fields
<1>3. ASSUME Reader!ArchiveEnds PROVE Kept /\ Long
  BY <1>0, <1>3, PhaseMoves DEF Reader!ArchiveEnds, OthersRest
<1>4. ASSUME Reader!Close PROVE Kept /\ Closed
  BY <1>0, <1>4 DEF Reader!Close, RequestTyped, Fields
<1>5. Kept /\ (Listed \/ Short \/ Long \/ Closed) BY <1>2, <1>3, <1>4
<1> HIDE DEF Kept
<1>6. RequestTyped' BY <1>1, <1>5 DEF ReadInv, RequestTyped, ShownRests, Kept
<1>7. PhasesFollow' /\ AbsenceHolds' /\ SearchCovers' /\ ArtifactStays' /\ BodiesAreHeld'
  BY <1>5 DEF ReadInv, PhasesFollow, AbsenceHolds, SearchCovers, ArtifactStays, BodiesAreHeld, Kept
<1>8. \A S : Holds(S)' <=> Holds(S) BY <1>1, <1>5, HoldsRests DEF Kept
<1>9. MembersCover'
  <2>1. CASE Listed
    <3>1. req.inside \subseteq PdfKeys /\ req.manifest = req.inside /\ Holds(req.manifest)
      BY <2>1 DEF ReadInv, MembersCover
    <3> QED BY <1>1, <1>5, <1>8, <2>1, <3>1, ShownKinds DEF MembersCover, ShownRests, Kept
  <2>2. CASE Short
    <3>1. req.inside \subseteq PdfKeys /\ req.manifest = req.inside /\ Holds(req.manifest)
      BY <2>2 DEF ReadInv, MembersCover
    <3> QED BY <1>5, <1>8, <2>2, <3>1 DEF MembersCover, Kept
  <2>3. CASE Long
    BY <1>1, <1>5, <1>8, <2>3 DEF ReadInv, MembersCover, ShownRests, Kept
  <2>4. CASE Closed BY <2>4 DEF MembersCover
  <2> QED BY <1>5, <2>1, <2>2, <2>3, <2>4
<1> QED BY <1>6, <1>7, <1>9 DEF ReadInv

\* Every step of the reader.
LEMMA RequestKeepsReadInv ==
  ASSUME IInv, AtMostOne, ReadInv,
         Reader!OneObject \/ Reader!ItemThumbnail \/ Reader!Artifact \/ Reader!Annotated
           \/ Reader!Archive \/ Reader!Close
  PROVE  ReadInv'
<1>1. CASE Reader!OneObject BY <1>1, AskKeepsInv, ObjectKeepsInv DEF Reader!OneObject
<1>2. CASE Reader!ItemThumbnail BY <1>2, AskKeepsInv, ThumbnailKeepsInv DEF Reader!ItemThumbnail
<1>3. CASE Reader!Artifact BY <1>3, AskKeepsInv, ArtifactKeepsInv DEF Reader!Artifact
<1>4. CASE Reader!Annotated BY <1>4, AskKeepsInv, AnnotatedKeepsInv DEF Reader!Annotated
<1>5. CASE Reader!Archive
  BY <1>5, AskKeepsInv, MembersKeepInv, ArchiveEndsKeepsInv DEF Reader!Archive
<1>6. CASE Reader!Close BY <1>6, ArchiveEndsKeepsInv
<1> QED BY <1>1, <1>2, <1>3, <1>4, <1>5, <1>6

LEMMA RequestRests ==
  ASSUME Reader!OneObject \/ Reader!ItemThumbnail \/ Reader!Artifact \/ Reader!Annotated
           \/ Reader!Archive \/ Reader!Close
  PROVE  Reader!Rest
<1>1. CASE Reader!OneObject
  BY <1>1 DEF Reader!OneObject, Reader!Ask, Reader!Head, Reader!NotModified, Reader!Again,
     Reader!Open, Reader!Read
<1>2. CASE Reader!ItemThumbnail
  BY <1>2 DEF Reader!ItemThumbnail, Reader!AskThumbnail, Reader!ProbeAbstract, Reader!NoThumbnail,
     Reader!OpenThumbnail, Reader!ProbeThumb
<1>3. CASE Reader!Artifact
  BY <1>3 DEF Reader!Artifact, Reader!AskArtifact, Reader!ArtifactExists, Reader!Sign, Reader!Link,
     Reader!OpenArtifact
<1>4. CASE Reader!Annotated
  BY <1>4 DEF Reader!Annotated, Reader!AskAnnotated, Reader!MakeCopy, Reader!RecordExport,
     Reader!SendAnnotated
<1>5. CASE Reader!Archive
  BY <1>5 DEF Reader!Archive, Reader!AskArchive, Reader!ListRevisions, Reader!ReadMember,
     Reader!MemberEnds, Reader!Manifest, Reader!ArchiveEnds, Reader!Member
<1>6. CASE Reader!Close BY <1>6 DEF Reader!Close
<1> QED BY <1>1, <1>2, <1>3, <1>4, <1>5, <1>6

LEMMA SightKeepsReadInv == ASSUME ReadInv, Reader!LosesSight PROVE ReadInv'
<1>1. req' = req /\ clock' = clock /\ UNCHANGED Reader!shared /\ sees' = FALSE
  BY DEF Reader!LosesSight
<1>2. ShownWanes /\ \A e \in Exports : Reader!Live(e) => Reader!Live(e)'
  BY <1>1 DEF ShownWanes, Reader!shared, Reader!ItemPdfs, Reader!Supplements, Reader!Thumbs,
     Reader!AbstractKeys, Reader!ReadyThumbs, Reader!Row, Reader!Live
<1> QED BY <1>1, <1>2, WanesKeepsInv DEF ReadInv, RequestTyped

LEMMA TickKeepsReadInv == ASSUME ReadInv, Reader!Tick PROVE ReadInv'
<1>1. req' = req /\ sees' = sees /\ UNCHANGED <<item, rev, att>> /\ clock' = clock + 1
  BY DEF Reader!Tick
<1>2. ShownWanes
  BY <1>1 DEF ShownWanes, Reader!ItemPdfs, Reader!Supplements, Reader!Thumbs,
     Reader!AbstractKeys, Reader!ReadyThumbs, Reader!Row
<1>3. clock \in Nat /\ clock' \in Nat /\ ExpiresAt \in Nat
  BY <1>1, DownloadsAssumption DEF ReadInv, RequestTyped, Reader!ClockAssumption
<1>4. ASSUME clock' < ExpiresAt
      PROVE  clock < ExpiresAt /\ \A e \in Exports : Reader!Live(e) => Reader!Live(e)'
  <2>1. clock < ExpiresAt /\ ~(clock' >= ExpiresAt) BY <1>1, <1>3, <1>4
  <2>2. \A e \in Exports : art'[e] = art[e] BY <2>1 DEF Reader!Tick
  <2> QED BY <2>1, <2>2 DEF Reader!Live
<1> QED BY <1>1, <1>2, <1>3, <1>4, WanesKeepsInv

LEMMA ProducesKeepsReadInv == ASSUME TypeOK, ReadInv, Produces PROVE ReadInv'
<1>1. Next /\ req' = req /\ clock' = clock /\ sees' = sees BY DEF Produces, downloading
<1>2. req.phase # "idle" => ShownWanes
  BY <1>1, DocumentsWane DEF Produces, NothingAppears, ShownWanes
<1>3. clock < ExpiresAt => \A e \in Exports : Reader!Live(e) => Reader!Live(e)'
  BY <1>1, DocumentsWane DEF Produces
<1> QED BY <1>1, <1>2, <1>3, WanesKeepsInv DEF ReadInv, RequestTyped

LEMMA ReadNextKeepsInv ==
  IInv /\ AtMostOne /\ ReadInv /\ [ReadNext]_<<vars, downloading>> =>
    IInv' /\ AtMostOne' /\ ReadInv'
<1> SUFFICES ASSUME IInv, AtMostOne, ReadInv, [ReadNext]_<<vars, downloading>>
             PROVE  IInv' /\ AtMostOne' /\ ReadInv'
  OBVIOUS
<1>0. TypeOK BY DEF IInv
<1>1. ASSUME UNCHANGED vars PROVE IInv' /\ AtMostOne'
  BY <1>0, <1>1, NextKeepsInv, AtMostOneStays
<1>2. CASE Produces
  <2>1. IInv' /\ AtMostOne' BY <1>0, <1>2, NextKeepsInv, AtMostOneStays DEF Produces
  <2> QED BY <1>0, <1>2, <2>1, ProducesKeepsReadInv
<1>3. CASE Reader!Step /\ UNCHANGED producing
  <2>1. ASSUME Reader!Rest \/ Reader!LosesSight PROVE UNCHANGED vars
    BY <1>3, <2>1 DEF Reader!Rest, Reader!LosesSight, Reader!shared, producing, vars, docs
  <2>2. CASE Reader!Tick
    <3>1. AtMostOne' BY <2>2 DEF Reader!Tick, AtMostOne
    <3> QED BY <1>3, <2>2, <3>1, TickKeepsDocuments, TickKeepsReadInv
  <2>3. CASE Reader!LosesSight BY <1>1, <2>1, <2>3, SightKeepsReadInv
  <2>4. CASE Reader!OneObject \/ Reader!ItemThumbnail \/ Reader!Artifact \/ Reader!Annotated
               \/ Reader!Archive \/ Reader!Close
    BY <1>1, <2>1, <2>4, RequestRests, RequestKeepsReadInv
  <2> QED BY <1>3, <2>2, <2>3, <2>4 DEF Reader!Step
<1>4. CASE UNCHANGED <<vars, downloading>>
  <2>1. UNCHANGED vars /\ req' = req /\ clock' = clock /\ sees' = sees
    BY <1>4 DEF downloading
  <2>2. ShownWanes /\ \A e \in Exports : Reader!Live(e) => Reader!Live(e)'
    BY <2>1 DEF vars, docs, ShownWanes, Reader!ItemPdfs, Reader!Supplements, Reader!Thumbs,
       Reader!AbstractKeys, Reader!ReadyThumbs, Reader!Row, Reader!Live
  <2>3. ReadInv' BY <2>1, <2>2, WanesKeepsInv DEF ReadInv, RequestTyped
  <2> QED BY <1>1, <2>1, <2>3
<1> QED BY <1>2, <1>3, <1>4 DEF ReadNext

LEMMA ReadInitInv == ReadInit => IInv /\ AtMostOne /\ ReadInv
<1> SUFFICES ASSUME ReadInit PROVE IInv /\ AtMostOne /\ ReadInv OBVIOUS
<1>1. IInv /\ AtMostOne BY InitInv DEF ReadInit, Init, AtMostOne
<1>2. req = [f \in Fields |-> req[f]] /\ req.phase = "idle" /\ req.body = "none" /\ req.temp = FALSE
  BY DEF ReadInit, Reader!Init, Reader!NoRequest, Fields
<1>3. req.kind = "content" BY DEF ReadInit, Reader!Init, Reader!NoRequest
<1>4. ReadInv
  BY <1>2, <1>3 DEF ReadInit, Reader!Init, ReadInv, RequestTyped, PhasesFollow, AbsenceHolds,
     SearchCovers, MembersCover, ArtifactStays, BodiesAreHeld, InPhase
<1> QED BY <1>1, <1>4

LEMMA ReadInvHolds == IInv /\ ReadInv => DownloadsHold
<1> SUFFICES ASSUME IInv, ReadInv PROVE DownloadsHold OBVIOUS
<1> USE DEF InPhase
<1>1. Reader!WhatStandsIsServed
  BY DEF ReadInv, AbsenceHolds, SearchCovers, Reader!WhatStandsIsServed
<1>2. Reader!ArchiveIsWhole
  BY ShownKinds DEF ReadInv, MembersCover, Holds, AskedFor, PdfKeys, Reader!ArchiveIsWhole
<1>3. Reader!LinkWorks
  <2>1. SUFFICES ASSUME req.phase = "linked"
                 PROVE  req.until <= ExpiresAt /\ (clock < req.until => req.key \in store)
    BY DEF Reader!LinkWorks
  <2>2. clock \in Nat /\ ExpiresAt \in Nat /\ req.until \in Nat /\ req.until <= ExpiresAt
    BY <2>1, DownloadsAssumption DEF ReadInv, RequestTyped, ArtifactStays, Reader!ClockAssumption
  <2>3. PICK e \in Exports : req.key = Out(e) /\ (clock < ExpiresAt => Reader!Live(e))
    BY <2>1 DEF ReadInv, ArtifactStays
  <2> QED BY <2>2, <2>3, ShownIsStored
<1>4. Reader!NothingIsHeld
  BY DEF ReadInv, BodiesAreHeld, Reader!NothingIsHeld, Reader!Ended
<1> QED BY <1>1, <1>2, <1>3, <1>4 DEF DownloadsHold, Reader!DownloadsHold

\* What stands is served, archives are whole, links work until they end, and a
\* request that is over holds nothing, whatever is deleted or expires meanwhile.
THEOREM DownloadsAreSound == ReadSpec => []DownloadsHold
BY ReadInitInv, ReadNextKeepsInv, ReadInvHolds, PTL DEF ReadSpec
===============================================================================
