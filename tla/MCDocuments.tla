------------------------------ MODULE MCDocuments ------------------------------
(***************************************************************************)
(* Casts that meet over the Documents of one Item; where they read a File  *)
(* Revision rather than make one, it is there from the start.  Or sessions *)
(* of the author, a moderator and a replier over one Annotation, two or    *)
(* three requests at a time.                                               *)
(***************************************************************************)
EXTENDS Reading
CONSTANTS u1, u2, a1, a2, e1, copier, reader,  \* over the Documents
          s1, s2, m1, r1, r2                   \* over the Annotation
VARIABLES cast

Producers == {{u1}, {a1, a2}, {u1, e1}, {u1, copier}, {a1, copier}}
Readers == {{s1, s2, m1}, {s1, r1}, {m1, r1}, {r1, r2}}

Downloaders == {{reader, u1, u2, a1}, {reader, u1, a1}, {reader, u1, e1}}

\* Documents that are there: PDFs (two of them have no thumbnail), attachments,
\* artifacts.
Shown(us, as, es) ==
  LET thumbs == IF Cardinality(us) = 1 THEN {Png(<<u, 0>>) : u \in us} ELSE {} IN
  /\ item = TRUE /\ may = TRUE /\ tgt = {} /\ dead = {} /\ sweep = {} /\ faults = 0
  /\ rev = [u \in Uploads |-> IF u \notin us THEN NoRow ELSE
       [state |-> IF thumbs = {} THEN "failed" ELSE "ready", run |-> 0, thumb |-> thumbs]]
  /\ att = [a \in Attachments |-> IF a \in as THEN "abstract" ELSE "none"]
  /\ art = [e \in Exports |-> IF e \in es THEN "live" ELSE "none"]
  /\ http = [x \in Senders |-> IF x \in us \cup as THEN "over" ELSE "none"]
  /\ mail = [x \in Senders |-> IF x \in us \cup as THEN "complete" ELSE "none"]
  /\ job = [j \in Jobs |-> IF j \in (us \cup as \cup es) \X {0} THEN "ended" ELSE "none"]
  /\ copy = NoCopy
  /\ store = {FileOf(x) : x \in us \cup as} \cup thumbs \cup {Out(e) : e \in es}

MCInit ==
  /\ cast \in Producers \cup Readers \cup Downloaders /\ Notes!Init /\ Reader!Init
  /\ IF cast \in Downloaders
     THEN Shown(cast \cap Uploads, cast \cap Attachments, cast \cap Exports)
     ELSE IF cast \in {{u1, e1}, {u1, copier}} THEN Shown({u1}, {}, {}) ELSE Init
DocumentStep ==
  /\ \/ \E u \in cast \cap Uploads : UploadStep(u)
     \/ \E a \in cast \cap Attachments : AttachmentStep(a)
     \/ \E e \in cast \cap Exports : ExportStep(e)
     \/ copier \in cast /\ CopyStep
     \/ ObjectStep \/ DeleteItem \/ Authority
  /\ UNCHANGED <<cast, annotating, downloading>>
\* A private Annotation has no repliers; the largest cast has both kinds.
AnnotationStep ==
  /\ Notes!Other \/ \E c \in cast : Notes!Step(c)
  /\ cast # {s1, s2, m1} /\ Notes!Row(ann') => ann'.scope = "project"
  /\ UNCHANGED <<cast, vars, downloading>>
\* What the reader looks at is deleted or expires, as long as that matters;
\* nothing is added.
RemovalStep ==
  /\ req.phase \notin Reader!Ended \ {"linked"}
  /\ \/ \E u \in cast \cap Uploads : DeleteRevision(u)
     \/ \E a \in cast \cap Attachments : DeleteAttachment(a)
     \/ \E e \in Exports : Retire(e)
     \/ \E s \in sweep : Collect(s)
     \/ DeleteItem
  /\ UNCHANGED <<cast, annotating, downloading>>
SmallRequest ==
  \/ Reader!OneObject \/ Reader!ItemThumbnail \/ Reader!Artifact \/ Reader!Annotated
  \/ e1 \in cast /\ Reader!Tick
DownloadStep ==
  /\ \/ Reader!Close \/ Reader!LosesSight
     \/ u2 \in cast /\ Reader!Archive
     \/ u2 \notin cast /\ SmallRequest
  /\ UNCHANGED <<cast, annotating, producing>>
MCNext ==
  \/ cast \in Producers /\ DocumentStep
  \/ cast \in Readers /\ AnnotationStep
  \/ cast \in Downloaders /\ (RemovalStep \/ DownloadStep)
MCSpec ==
  /\ MCInit /\ [][MCNext]_<<vars, cast, annotating, downloading>>
  /\ cast \notin Readers => Collects
===============================================================================
