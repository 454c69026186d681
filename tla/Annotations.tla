------------------------------- MODULE Annotations -------------------------------
(***************************************************************************)
(* One PDF Annotation and one Reply to it: authored edits, soft deletion   *)
(* and undo, moderation, Replies, detachment of the ProjectItem it is      *)
(* bound to, and the purge of what the undo window has left                *)
(* (documents/annotations.py, access/annotations.py,                       *)
(* documents/retention.py, core/persistence.py).                           *)
(*                                                                         *)
(* A request reads the record without a lock and checks it ("checked"),    *)
(* then holds the Workspace and Project roots, and for some operations the *)
(* ProjectItem, shared ("holding"); a Reply also holds the Annotation      *)
(* shared and checks it again ("fenced").  Its last statement writes if    *)
(* the version the client has seen is still current, and commits.          *)
(***************************************************************************)
EXTENDS Naturals

CONSTANTS Authors,     \* sessions of the author
          Moderators,  \* sessions of others who may moderate
          Repliers,    \* sessions of the author of the Reply
          MaxVersion   \* bound: versions of a row

ClientsAssumption ==
  Authors \cap Moderators = {} /\ (Authors \cup Moderators) \cap Repliers = {}
MaxVersionAssumption == MaxVersion \in Nat \ {0}

VARIABLES ann,    \* the Annotation
          reply,  \* the Reply
          open,   \* the Workspace and the Project are active and admit the clients
          link,   \* the ProjectItem
          known,  \* what each client has last seen of the row it writes
          tx,     \* requests
          purge   \* rows a purge has selected

vars == <<ann, reply, open, link, known, tx, purge>>

Clients == Authors \cup Moderators \cup Repliers
AuthorOps == {"edit", "delete", "restore"}
Moderations == {"hide", "archive", "restore", "lock", "unlock", "delete"}
ReplyOps == {"create", "edit", "delete", "restore"}
OpsOf(c) == IF c \in Authors THEN AuthorOps
            ELSE IF c \in Moderators THEN Moderations ELSE ReplyOps

Never == [version |-> 0]               \* not created yet
Gone == [version |-> 0, was |-> TRUE]  \* physically deleted; clients draw fresh ids
Row(x) == x.version > 0

\* Soft deletion, and whether its undo window is over.
Deletions == {"no", "undoable", "expired"}
AnnotationRows == [scope : {"private", "project"}, version : 1..MaxVersion,
                   content : 1..MaxVersion, deleted : Deletions,
                   veil : SUBSET {"hidden", "archived"}, locked : BOOLEAN]
ReplyRows == [version : 1..MaxVersion, content : 1..MaxVersion, deleted : Deletions]
Idle == [op |-> "none", phase |-> "idle"]

TypeOK ==
  /\ ann \in AnnotationRows \cup {Never, Gone}
  /\ reply \in ReplyRows \cup {Never, Gone}
  /\ open \in BOOLEAN /\ link \in BOOLEAN
  /\ known \in [Clients -> AnnotationRows \cup ReplyRows \cup {Never, Gone}]
  /\ \A c \in Clients : tx[c] \in
       [op : OpsOf(c), phase : {"checked", "holding", "fenced"}] \cup {Idle}
  /\ purge \subseteq {"annotation", "reply"}

\* A client looks at its row; moderators also see what is veiled.
Look(c) ==
  /\ tx[c] = Idle
  /\ known' = [known EXCEPT ![c] = IF c \in Repliers THEN reply ELSE ann]
  /\ UNCHANGED <<ann, reply, open, link, tx, purge>>

Holding(c) == tx[c].phase \in {"holding", "fenced"}
\* FOR SHARE on the ProjectItem, and on the Annotation.
HoldsLink(c) == Holding(c) /\ (c \in Repliers \/ (c \in Authors /\ tx[c].op = "edit"))
Fenced == \E r \in Repliers : tx[r].phase = "fenced"

Enter(c, op) == tx' = [tx EXCEPT ![c] = [op |-> op, phase |-> "checked"]]
Enters(c, phase) == tx' = [tx EXCEPT ![c].phase = phase]
Ends(c) == tx' = [tx EXCEPT ![c] = Idle]

Unveiled == Row(ann) /\ ann.veil = {}
Bound == ann.scope = "project" => link
\* _visible_annotation.
Visible(deleted) ==
  /\ Unveiled /\ open /\ Bound
  /\ (ann.deleted # "no") = deleted

-------------------------------------------------------------------------------
(* The author: require_editable, require_deletable and                      *)
(* require_restorable_annotation, then one conditional UPDATE.              *)

Create(scope) ==
  /\ ann = Never /\ open
  /\ scope = "project" => link
  /\ ann' = [scope |-> scope, version |-> 1, content |-> 1, deleted |-> "no",
             veil |-> {}, locked |-> FALSE]
  /\ UNCHANGED <<reply, open, link, known, tx, purge>>

CheckAuthor(c, op) ==
  /\ tx[c] = Idle /\ Row(known[c])
  /\ Visible(op = "restore") /\ ~ann.locked
  /\ op = "restore" => ann.deleted = "undoable"
  /\ Enter(c, op)
  /\ UNCHANGED <<ann, reply, open, link, known, purge>>

\* require_project_context with a shared lock; an edit then locks its ProjectItem.
Authorize(c) ==
  /\ tx[c].phase = "checked" /\ open
  /\ c \in Moderators \/ tx[c].op # "edit" \/ (Row(ann) /\ Bound)
  /\ Enters(c, "holding")
  /\ UNCHANGED <<ann, reply, open, link, known, purge>>

\* The WHERE clause of an UPDATE; versions stay below the bound.
\* Mutant: the version is not compared.
CurrentAnyVersion(row, c) == Row(row) /\ row.version < MaxVersion
Current(row, c) == Row(row) /\ row.version = known[c].version /\ row.version < MaxVersion

WriteAuthor(c) ==
  LET op == tx[c].op IN
  /\ tx[c].phase = "holding" /\ ~Fenced /\ Current(ann, c)
  /\ ann.deleted = IF op = "restore" THEN "undoable" ELSE "no"
  /\ ann' = [ann EXCEPT !.version = @ + 1,
               !.content = IF op = "edit" THEN ann.version + 1 ELSE @,
               !.deleted = IF op = "delete" THEN "undoable" ELSE "no"]
  /\ known' = [known EXCEPT ![c] = ann']
  /\ Ends(c)
  /\ UNCHANGED <<reply, open, link, purge>>

\* A check fails, the version has moved on, or the request is cancelled.
Refuse(c) ==
  /\ tx[c] # Idle /\ Ends(c)
  /\ UNCHANGED <<ann, reply, open, link, known, purge>>

-------------------------------------------------------------------------------
(* moderate_document_annotation.                                            *)

CheckModeration(c, op) ==
  /\ tx[c] = Idle /\ Row(known[c])
  /\ Row(ann) /\ ann.deleted = "no" /\ ann.scope = "project" /\ link /\ open
  /\ Enter(c, op)
  /\ UNCHANGED <<ann, reply, open, link, known, purge>>

\* The database cascades the deletion of an Annotation to its Replies.
Cascade == ann' = Gone /\ reply' = IF Row(reply) THEN Gone ELSE reply

WriteModeration(c) ==
  LET op == tx[c].op IN
  /\ tx[c].phase = "holding" /\ ~Fenced /\ Current(ann, c) /\ ann.deleted = "no"
  /\ IF op = "delete" THEN Cascade
     ELSE /\ ann' = [ann EXCEPT !.version = @ + 1,
               !.veil = CASE op = "hide" -> @ \cup {"hidden"}
                          [] op = "archive" -> @ \cup {"archived"}
                          [] op = "restore" -> {}
                          [] OTHER -> @,
               !.locked = IF op \in {"lock", "unlock"} THEN op = "lock" ELSE @]
          /\ UNCHANGED reply
  /\ known' = [known EXCEPT ![c] = ann']
  /\ Ends(c)
  /\ UNCHANGED <<open, link, purge>>

-------------------------------------------------------------------------------
(* Replies: require_visible_annotation_for_reply_mutation, then the row.    *)

CheckReply(c, op) ==
  /\ tx[c] = Idle /\ Visible(FALSE)
  /\ op # "create" => Row(known[c])
  /\ Enter(c, op)
  /\ UNCHANGED <<ann, reply, open, link, known, purge>>

\* Mutant: the Annotation is locked but not looked at again.
FenceUnchecked(c) ==
  /\ tx[c].phase = "holding" /\ Row(ann) /\ Bound
  /\ Enters(c, "fenced")
  /\ UNCHANGED <<ann, reply, open, link, known, purge>>
Fence(c) ==
  /\ tx[c].phase = "holding" /\ Unveiled /\ Bound
  /\ ann.deleted = "no" /\ ~ann.locked
  /\ Enters(c, "fenced")
  /\ UNCHANGED <<ann, reply, open, link, known, purge>>

WriteReply(c) ==
  LET op == tx[c].op IN
  /\ tx[c].phase = "fenced"
  /\ IF op = "create"
     THEN reply = Never /\ reply' = [version |-> 1, content |-> 1, deleted |-> "no"]
     ELSE /\ Current(reply, c)
          /\ reply.deleted = IF op = "restore" THEN "undoable" ELSE "no"
          /\ reply' = [reply EXCEPT !.version = @ + 1,
                         !.content = IF op = "edit" THEN reply.version + 1 ELSE @,
                         !.deleted = IF op = "delete" THEN "undoable" ELSE "no"]
  /\ known' = [known EXCEPT ![c] = reply']
  /\ Ends(c)
  /\ UNCHANGED <<ann, open, link, purge>>

-------------------------------------------------------------------------------
(* Everything else that takes rows away.                                    *)

\* remove_items_from_project locks the ProjectItem before its cascade.
Detach ==
  /\ link /\ open /\ \A c \in Clients : ~HoldsLink(c)
  /\ link' = FALSE
  /\ IF Row(ann) /\ ann.scope = "project" THEN Cascade ELSE UNCHANGED <<ann, reply>>
  /\ UNCHANGED <<open, known, tx, purge>>

\* The File Revision or the Item is deleted.
DeleteDocument ==
  /\ Row(ann) /\ ~Fenced /\ Cascade
  /\ UNCHANGED <<open, link, known, tx, purge>>

\* The Project or the Workspace is archived, or a member loses access, under
\* exclusive locks of a root.
Close ==
  /\ open /\ open' = FALSE /\ \A c \in Clients : ~Holding(c)
  /\ UNCHANGED <<ann, reply, link, known, tx, purge>>

\* The undo window of a deletion passes.
Expire ==
  /\ \/ /\ Row(ann) /\ ann.deleted = "undoable"
        /\ ann' = [ann EXCEPT !.deleted = "expired"] /\ UNCHANGED reply
     \/ /\ Row(reply) /\ reply.deleted = "undoable"
        /\ reply' = [reply EXCEPT !.deleted = "expired"] /\ UNCHANGED ann
  /\ UNCHANGED <<open, link, known, tx, purge>>

\* delete_page selects a page of keys by the predicate and deletes by both; the
\* row may be written between the two.
Select ==
  /\ purge = {}
  /\ purge' = {t \in {"annotation", "reply"} :
       LET row == IF t = "annotation" THEN ann ELSE reply
       IN  Row(row) /\ row.deleted # "no"}
  /\ UNCHANGED <<ann, reply, open, link, known, tx>>
\* Mutant: rows are deleted by their keys alone.
ExpiredByKey(row) == Row(row)
Expired(row) == Row(row) /\ row.deleted = "expired"
Purge ==
  /\ \/ /\ "annotation" \in purge /\ ~Fenced
        /\ purge' = purge \ {"annotation"}
        /\ IF Expired(ann) THEN Cascade ELSE UNCHANGED <<ann, reply>>
     \/ /\ "reply" \in purge
        /\ purge' = purge \ {"reply"}
        /\ reply' = IF Expired(reply) THEN Gone ELSE reply
        /\ UNCHANGED ann
  /\ UNCHANGED <<open, link, known, tx>>

-------------------------------------------------------------------------------
Init ==
  /\ ann = Never /\ reply = Never /\ open = TRUE /\ link = TRUE
  /\ known = [c \in Clients |-> Never] /\ tx = [c \in Clients |-> Idle]
  /\ purge = {}

AuthorStep(c) == WriteAuthor(c) \/ \E op \in AuthorOps : CheckAuthor(c, op)
ModeratorStep(c) == WriteModeration(c) \/ \E op \in Moderations : CheckModeration(c, op)
ReplierStep(c) == Fence(c) \/ WriteReply(c) \/ \E op \in ReplyOps : CheckReply(c, op)
Step(c) ==
  \/ Look(c) \/ Authorize(c) \/ Refuse(c)
  \/ c \in Authors /\ AuthorStep(c)
  \/ c \in Moderators /\ ModeratorStep(c)
  \/ c \in Repliers /\ ReplierStep(c)
Other ==
  \/ \E scope \in {"private", "project"} : Create(scope)
  \/ Detach \/ DeleteDocument \/ Close \/ Expire \/ Select \/ Purge

Next == Other \/ \E c \in Clients : Step(c)
Spec == Init /\ [][Next]_vars

-------------------------------------------------------------------------------
Stamp(row) == [row EXCEPT !.deleted = IF @ = "expired" THEN "undoable" ELSE @]
\* An author replaces, deletes or restores exactly what this author has seen: not
\* another session's text, nor an Annotation that was locked or veiled meanwhile.
ReplacedIsSeen == [][\A c \in Authors \cup Repliers :
  tx[c].phase \in {"holding", "fenced"} /\ tx'[c] = Idle =>
    /\ Row(ann) /\ Row(ann') /\ ann' # ann =>
         Stamp(known[c]) = Stamp(ann) /\ ann.veil = {} /\ ~ann.locked
    /\ Row(reply) /\ Row(reply') /\ reply' # reply => Stamp(known[c]) = Stamp(reply)]_vars

\* A Reply is written only to an Annotation that stands, visible and unlocked, in
\* a Project that is open, up to the moment it commits.
RepliesMeetReaders == [][
  Row(reply') /\ reply'.version # reply.version =>
    /\ Unveiled /\ ann.deleted = "no" /\ ~ann.locked /\ open /\ Bound]_vars

\* A deletion can be undone for its whole window: what was restored in time, or
\* deleted anew, is not purged for its earlier deletion.
UndoHolds == [][
  \A row \in {<<ann, ann'>>, <<reply, reply'>>} :
    Row(row[1]) /\ ~Row(row[2]) /\ purge' # purge =>
      row[1].deleted = "expired" \/ (Row(ann) /\ ann.deleted = "expired")]_vars

\* What a step may never do to an Annotation and its Reply.
AnnotationsStand == ReplacedIsSeen /\ RepliesMeetReaders /\ UndoHolds
===============================================================================
