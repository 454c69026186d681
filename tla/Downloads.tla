------------------------------- MODULE Downloads -------------------------------
(***************************************************************************)
(* One reader's request for what Documents holds: the content of a PDF, an *)
(* attachment or a thumbnail, the thumbnail of the Item, the file of an    *)
(* annotated export, one PDF with annotations, or the archive of the Item  *)
(* (documents/bundles.py, revisions.py, exports.py, web/api/documents.py). *)
(*                                                                         *)
(* Nothing is locked: each check, query, look at the store and object read *)
(* is a step, and the Documents (the variables item, rev, att, art and     *)
(* store, module Documents) change in between.  An object that has been    *)
(* opened is read to its end whatever becomes of it.                       *)
(***************************************************************************)
EXTENDS Ranges, FiniteSets

CONSTANTS Uploads, Attachments, Exports,
          Pdf(_), Bin(_), Out(_),  \* the object keys of Documents
          ExpiresAt,               \* the instant artifacts expire
          Lifetime,                \* signed_download_seconds
          Selections,              \* the PDFs asked of an archive, {} for all
          MaxClock                 \* bound: the clock

SelectionsAssumption == Selections \subseteq SUBSET Uploads
ClockAssumption == ExpiresAt \in Nat /\ Lifetime \in Nat \ {0} /\ MaxClock \in Nat

VARIABLES item, rev, att, art, store,
          sees,   \* the reader may read the Workspace
          clock,
          req     \* the request

shared == <<item, rev, att, art, store>>

NoKey == <<>>
Kinds == {"content", "thumbnail", "artifact", "annotated", "archive"}
Ended == {"done", "linked", "refused", "missing", "broken", "closed"}
Phases == Ended \cup {"idle", "named", "headed", "renamed", "open", "querying", "probing",
                      "found", "picked", "granted", "stored", "signing", "made", "recorded",
                      "created", "members", "supplements"}
NoRequest == [kind |-> "content", phase |-> "idle", key |-> NoKey, todo |-> {},
              wanted |-> {}, annotate |-> FALSE, extras |-> FALSE,
              manifest |-> {}, inside |-> {}, body |-> "none", temp |-> FALSE, until |-> 0]

Row(u) == rev[u].state # "none"
ItemPdfs == {Pdf(u) : u \in {x \in Uploads : Row(x)}}
Supplements == {Bin(a) : a \in {x \in Attachments : att[x] # "none"}}
Thumbs == UNION {rev[u].thumb : u \in {x \in Uploads : Row(x)}}
ReadyThumbs == UNION {rev[u].thumb : u \in {x \in Uploads : rev[x].state = "ready"}}
AbstractKeys == {Bin(a) : a \in {x \in Attachments : att[x] = "abstract"}}
\* require_revision and require_attachment: the row, then the Item's readers.
MayRead == sees /\ item
Named(k) == MayRead /\ k \in ItemPdfs \cup Supplements \cup Thumbs
Live(e) == art[e] = "live"

\* body: of the archive member or answer in hand, given over or being read.
\* temp: its annotated copy is on disk.
TypeOK ==
  /\ sees \in BOOLEAN /\ clock \in 0..MaxClock
  /\ req.kind \in Kinds /\ req.phase \in Phases
  /\ req.body \in {"none", "handed", "reading"} /\ req.temp \in BOOLEAN
  /\ req.manifest \subseteq ItemPdfs \cup {req.key} \cup req.inside
  /\ req.until \in 0..(ExpiresAt + MaxClock)

To(phase) == req' = [req EXCEPT !.phase = phase]
Rest == UNCHANGED <<shared, sees, clock>>

-------------------------------------------------------------------------------
(* One object: its metadata, then its bytes, each authorized.               *)

Ask(k) ==
  /\ req.phase = "idle" /\ Named(k)
  /\ req' = [NoRequest EXCEPT !.phase = "named", !.key = k] /\ Rest
Head ==
  /\ req.phase = "named" /\ To(IF req.key \in store THEN "headed" ELSE "missing") /\ Rest
\* The validator of the client still holds.
NotModified == req.phase = "headed" /\ To("done") /\ Rest
Again ==
  /\ req.phase = "headed"
  /\ To(IF Named(req.key) THEN "renamed" ELSE "refused") /\ Rest
Open ==
  /\ req.phase = "renamed" /\ To(IF req.key \in store THEN "open" ELSE "missing") /\ Rest
Read == req.phase = "open" /\ To("done") /\ Rest

-------------------------------------------------------------------------------
(* The thumbnail of the Item: resolve_item_thumbnail, head, get.            *)

AskThumbnail ==
  /\ req.phase = "idle" /\ MayRead
  /\ req' = [NoRequest EXCEPT !.kind = "thumbnail", !.phase = "querying",
               !.todo = AbstractKeys]
  /\ Rest
\* Mutant: a graphical abstract whose object is gone ends the search.
ProbeAbstractOnly ==
  /\ req.phase = "querying"
  /\ \/ /\ req.todo # {}
        /\ req' = IF req.todo \subseteq store
                  THEN [req EXCEPT !.phase = "found", !.key = CHOOSE k \in req.todo : TRUE]
                  ELSE [req EXCEPT !.phase = "missing", !.todo = {}]
     \/ req.todo = {} /\ req' = [req EXCEPT !.phase = "probing", !.todo = ReadyThumbs]
  /\ Rest
ProbeAbstract ==
  /\ req.phase = "querying"
  /\ \/ /\ req.todo # {}
        /\ req' = IF req.todo \subseteq store
                  THEN [req EXCEPT !.phase = "found", !.key = CHOOSE k \in req.todo : TRUE]
                  ELSE [req EXCEPT !.todo = {}]
     \/ req.todo = {} /\ req' = [req EXCEPT !.phase = "probing", !.todo = ReadyThumbs]
  /\ Rest
ProbeThumb(k) ==
  /\ req.phase = "probing" /\ k \in req.todo
  /\ req' = IF k \in store THEN [req EXCEPT !.phase = "found", !.key = k]
            ELSE [req EXCEPT !.todo = @ \ {k}]
  /\ Rest
NoThumbnail ==
  /\ req.phase = "probing" /\ req.todo = {} /\ To("missing") /\ Rest
\* head_item_thumbnail and get_item_thumbnail.
OpenThumbnail ==
  /\ req.phase = "found"
  /\ To(IF req.key \in store THEN "open" ELSE "broken") /\ Rest

-------------------------------------------------------------------------------
(* The file of an annotated export: get_export_file.                        *)

AskArtifact(e) ==
  /\ req.phase = "idle" /\ sees /\ Live(e) /\ MayRead /\ ItemPdfs # {}
  /\ req' = [NoRequest EXCEPT !.kind = "artifact", !.phase = "granted", !.key = Out(e)]
  /\ Rest
ArtifactExists ==
  /\ req.phase = "granted"
  /\ To(IF req.key \in store THEN "stored" ELSE "missing") /\ Rest
\* sign_download: the lifetime is computed before the native signing.
Left == ExpiresAt - clock - 1
Sign ==
  /\ req.phase = "stored"
  /\ req' = IF Left < 1 THEN [req EXCEPT !.phase = "refused"]
            ELSE [req EXCEPT !.phase = "signing",
                    !.until = IF Lifetime < Left THEN Lifetime ELSE Left]
  /\ Rest
\* Mutant: slow signing is not noticed.
LinkAnyway ==
  /\ req.phase = "signing"
  /\ req' = [req EXCEPT !.phase = "linked", !.until = clock + @]
  /\ Rest
Link ==
  /\ req.phase = "signing"
  /\ req' = IF clock + req.until > ExpiresAt THEN [req EXCEPT !.phase = "refused", !.until = 0]
            ELSE [req EXCEPT !.phase = "linked", !.until = clock + @]
  /\ Rest
\* Local storage signs nothing.
OpenArtifact ==
  /\ req.phase = "stored" /\ To(IF req.key \in store THEN "open" ELSE "broken") /\ Rest

-------------------------------------------------------------------------------
(* One PDF with its annotations: export_revision_pdf.                       *)

\* With no visible annotation the stored PDF is opened, and what follows is
\* its download.
AskAnnotated(u, annotate) ==
  /\ req.phase = "idle" /\ Named(Pdf(u))
  /\ req' = [NoRequest EXCEPT !.kind = "annotated", !.phase = "picked", !.key = Pdf(u),
               !.annotate = annotate]
  /\ Rest
MakeCopy ==
  /\ req.phase = "picked"
  /\ req' = IF req.key \in store THEN [req EXCEPT !.phase = "made", !.temp = req.annotate]
            ELSE [req EXCEPT !.phase = "missing"]
  /\ Rest
\* _record_revision_pdf_export commits, or the copy is removed again.
RecordExport ==
  /\ req.phase = "made"
  /\ req' \in {[req EXCEPT !.phase = "recorded", !.body = "handed"],
               [req EXCEPT !.phase = "broken", !.temp = FALSE]}
  /\ Rest
SendAnnotated ==
  /\ req.phase = "recorded"
  /\ req' = IF req.body = "handed" THEN [req EXCEPT !.body = "reading"]
            ELSE [req EXCEPT !.phase = "done", !.body = "none", !.temp = FALSE]
  /\ Rest

-------------------------------------------------------------------------------
(* The archive: create_item_document_bundle, then members as they are sent. *)

AskArchive(wanted, annotate, extras) ==
  /\ req.phase = "idle" /\ MayRead
  /\ req' = [NoRequest EXCEPT !.kind = "archive", !.phase = "created", !.wanted = wanted,
               !.annotate = annotate, !.extras = extras]
  /\ Rest
ListRevisions ==
  /\ req.phase = "created"
  /\ req' = [req EXCEPT !.phase = "members",
               !.todo = IF req.wanted = {} THEN ItemPdfs
                        ELSE ItemPdfs \cap {Pdf(u) : u \in req.wanted}]
  /\ Rest

Archiving == req.phase \in {"members", "supplements"}
\* Mutant: a member whose object is gone is listed and left out.
MemberOrNothing(k) ==
  /\ Archiving /\ req.body = "none" /\ k \in req.todo
  /\ LET own == req.annotate /\ req.phase = "members" IN
     IF (own => sees) /\ k \in store
     THEN \E annotated \in {FALSE, own} :
            req' = [req EXCEPT !.key = k, !.body = "handed", !.temp = annotated]
     ELSE req' = [req EXCEPT !.todo = @ \ {k}, !.manifest = @ \cup {k}]
  /\ Rest
\* _revision_member: an annotated one asks for the Workspace again, and is a
\* copy on disk if the reader has annotations there.
Member(k) ==
  /\ Archiving /\ req.body = "none" /\ k \in req.todo
  /\ LET own == req.annotate /\ req.phase = "members" IN
     IF (own => sees) /\ k \in store
     THEN \E annotated \in {FALSE, own} :
            req' = [req EXCEPT !.key = k, !.body = "handed", !.temp = annotated]
     ELSE req' = [req EXCEPT !.phase = "broken"]
  /\ Rest
ReadMember ==
  /\ Archiving /\ req.body = "handed"
  /\ req' = [req EXCEPT !.body = "reading"] /\ Rest
MemberEnds ==
  /\ Archiving /\ req.body = "reading"
  /\ req' = [req EXCEPT !.body = "none", !.temp = FALSE, !.key = NoKey,
               !.todo = @ \ {req.key}, !.inside = @ \cup {req.key},
               !.manifest = IF req.phase = "members" THEN @ \cup {req.key} ELSE @]
  /\ Rest
\* The manifest is a member; the attachments are listed after it.
Manifest ==
  /\ req.phase = "members" /\ req.todo = {} /\ req.body = "none"
  /\ req' = IF req.extras THEN [req EXCEPT !.phase = "supplements", !.todo = Supplements]
            ELSE [req EXCEPT !.phase = "done"]
  /\ Rest
ArchiveEnds ==
  /\ req.phase = "supplements" /\ req.todo = {} /\ req.body = "none"
  /\ To("done") /\ Rest

\* The client goes away: _zip_body and _path_body close what was begun.  The
\* copy of a body that nobody has begun to read stays on disk.
CloseOnly ==
  /\ req.phase \in {"recorded", "created", "members", "supplements"}
  /\ req' = [req EXCEPT !.phase = "closed"]
  /\ Rest
Close ==
  /\ req.phase \in {"recorded", "created", "members", "supplements"}
  /\ req' = [req EXCEPT !.phase = "closed", !.temp = @ /\ req.body = "handed",
               !.body = IF @ = "reading" THEN "none" ELSE @]
  /\ Rest

-------------------------------------------------------------------------------
LosesSight ==
  /\ req.phase \notin Ended /\ sees /\ sees' = FALSE /\ UNCHANGED <<shared, clock, req>>
Tick ==
  /\ clock < MaxClock /\ clock' = clock + 1
  /\ art' = [e \in Exports |->
       IF Live(e) /\ clock' >= ExpiresAt THEN "expired" ELSE art[e]]
  /\ UNCHANGED <<item, rev, att, store, sees, req>>

Init == sees = TRUE /\ clock = 0 /\ req = NoRequest

OneObject ==
  \/ \E k \in ItemPdfs \cup Supplements \cup Thumbs : Ask(k)
  \/ Head \/ NotModified \/ Again \/ Open \/ Read
ItemThumbnail ==
  \/ AskThumbnail \/ ProbeAbstract \/ NoThumbnail \/ OpenThumbnail
  \/ \E k \in req.todo : ProbeThumb(k)
Artifact ==
  \/ \E e \in Exports : AskArtifact(e)
  \/ ArtifactExists \/ Sign \/ Link \/ OpenArtifact
Annotated ==
  \/ \E u \in Uploads, annotate \in BOOLEAN : AskAnnotated(u, annotate)
  \/ MakeCopy \/ RecordExport \/ SendAnnotated
Archive ==
  \/ \E wanted \in Selections, annotate, extras \in BOOLEAN :
       AskArchive(wanted, annotate, extras)
  \/ ListRevisions \/ ReadMember \/ MemberEnds \/ Manifest \/ ArchiveEnds
  \/ \E k \in req.todo : Member(k)
Step ==
  \/ OneObject \/ ItemThumbnail \/ Artifact \/ Annotated \/ Archive \/ Close
  \/ LosesSight \/ Tick

-------------------------------------------------------------------------------
(* While nothing is uploaded or made ready anew, what stands at the end of a *)
(* request stood all along.                                                  *)

\* Rows go before their objects: a request fails for want of an object, or is
\* refused, only when the Document has gone or the reader has lost sight of it;
\* and the Item has no thumbnail only when it has none to show.
WhatStandsIsServed ==
  /\ req.kind \in {"content", "annotated"} /\ req.phase \in {"missing", "refused"}
       => ~Named(req.key)
  /\ req.kind = "thumbnail" /\ req.phase = "missing"
       => (AbstractKeys \cup ReadyThumbs) \cap store = {}

\* An archive that was sent to its end contains what its manifest lists, and
\* that is each PDF asked for that stood all along; so do the attachments.
ArchiveIsWhole ==
  req.kind = "archive" /\ req.phase = "done" =>
    /\ req.manifest = req.inside \cap {Pdf(u) : u \in Uploads}
    /\ \A u \in Uploads :
         Row(u) /\ (req.wanted = {} \/ u \in req.wanted) => Pdf(u) \in req.manifest
    /\ req.extras => Supplements \subseteq req.inside

\* A link that was handed out ends no later than the artifact, and until then
\* the artifact is in the store, whatever Documents are deleted meanwhile.
LinkWorks ==
  req.phase = "linked" =>
    req.until <= ExpiresAt /\ (clock < req.until => req.key \in store)

\* A request that is over reads nothing any more and leaves no copy on disk,
\* unless nobody ever began to read it.
NothingIsHeld ==
  req.phase \in Ended =>
    req.body # "reading" /\ (req.temp => req.phase = "closed" /\ req.body = "handed")

DownloadsHold == WhatStandsIsServed /\ ArchiveIsWhole /\ LinkWorks /\ NothingIsHeld
===============================================================================
