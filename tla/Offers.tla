--------------------------------- MODULE Offers ---------------------------------
(***************************************************************************)
(* What the pages of a Project and of a document show and offer            *)
(* (access/projections.py, projects/workspaces.py, access/annotations.py,  *)
(* documents/annotations.py), beside what their commands accept.  A page   *)
(* decides for many rows from a few batched queries; a command decides for *)
(* one row, by loading it, its ProjectItem, its Project and the caller's   *)
(* membership again.                                                       *)
(*                                                                         *)
(* Annotations, Replies and messages are no variables here: their rows are *)
(* quantified, so every answer is given for every row there could be.      *)
(***************************************************************************)
EXTENDS Projects

Veils == {"hidden", "archived"}
\* Governance only ever touches Project Annotations.
AnnotationRows ==
  {n \in [scope : {"private", "project"}, author : Users, project : ProjectIds,
          item : Items, veil : SUBSET Veils, locked : BOOLEAN, deleted : BOOLEAN] :
     n.scope = "private" => n.veil = {} /\ ~n.locked}

Relation(m, author) == IF m[1] = author THEN "own" ELSE "other"
\* The ProjectItem an Annotation is bound to.
Bound(n) == <<n.project, n.item>> \in link
Resource(n) == IF n.scope = "project" THEN "project_annotation" ELSE "private_annotation"

\* The policy's names, built from a resource and an action as the code builds them.
Moderations == {"hide", "archive", "restore", "lock", "unlock", "delete"}
Named(resource) ==
  CASE resource = "project_annotation" ->
         [create |-> "project_annotation.create", read |-> "project_annotation.read",
          update |-> "project_annotation.update", delete |-> "project_annotation.delete",
          restore |-> "project_annotation.restore", hide |-> "project_annotation.hide",
          archive |-> "project_annotation.archive", lock |-> "project_annotation.lock",
          unlock |-> "project_annotation.unlock"]
    [] resource = "private_annotation" ->
         [create |-> "private_annotation.create", read |-> "private_annotation.read",
          update |-> "private_annotation.update", delete |-> "private_annotation.delete",
          restore |-> "private_annotation.restore"]
    [] resource = "project_annotation_reply" ->
         [update |-> "project_annotation_reply.update",
          create |-> "project_annotation_reply.create"]
    [] resource = "private_annotation_reply" ->
         [update |-> "private_annotation_reply.update",
          create |-> "private_annotation_reply.create"]

-------------------------------------------------------------------------------
(* Pages of Projects. *)

\* _participation_predicate.
Participates(m, p) == project[p].mode = "workspace" \/ <<p, m>> \in seat

\* list_workspace_projects: the discoverable ones; its "joinable" view.
ListedProjects(m) == {p \in ProjectIds : May(m, "workspace.read", "any") /\ Discovers(m, p)}
JoinableProjects(m) ==
  {p \in ListedProjects(m) : Open(p) /\ project[p].mode = "open" /\ ~Participates(m, p)}
\* list_item_organize_projects: where an Item can be put, and where it is seen.
AssignableProjects(m) == {p \in ListedProjects(m) : Open(p)}
\* open_project_workspace: the active participants shown.
ShownParticipants(p) ==
  IF project[p].mode = "workspace" THEN {}
  ELSE {s[2][1] : s \in {x \in SeatsOf(p) : member[x[2]].status = "active"}}

\* workspace_project_participations: the modes a new Project may have.
CreationChoices(m) == {mode \in Participations : May(m, "project.create", mode)}
\* project_participation_changes.
ModeChoices(m, p) == {mode \in Participations : MayUpdate(m, p, mode)}

\* project_decisions, for a Project the page has found.
ProjectDecisions(m, p) ==
  LET whenOpen == {"project.update", "project_item.manage", "project.archive",
                   "project_discussion.create"}
  IN {action \in whenOpen : Open(p) /\ May(m, action, "any")}
     \cup {action \in {"project.restore"} :
             project[p].state = "archived" /\ May(m, action, "any")}
     \cup {action \in {"project_participation.manage"} :
             Open(p) /\ project[p].mode = "managed" /\ May(m, action, "managed")}
     \cup {action \in {IF Participates(m, p) THEN "project_participation.leave"
                       ELSE "project_participation.join"} :
             Open(p) /\ project[p].mode = "open" /\ May(m, action, "open")}
     \cup {action \in {"project.delete"} : May(m, action, "any")}
     \cup {action \in {"project_discussion.delete"} : Open(p) /\ May(m, action, "other")}

-------------------------------------------------------------------------------
(* Pages of Annotations. *)

\* visible_annotation_scope_predicate, with the ProjectItems of discoverable Projects.
InScope(m, n) ==
  /\ May(m, Named(Resource(n)).read, Relation(m, n.author))
  /\ n.scope = "project" => Bound(n) /\ Discovers(m, n.project)

\* _browsable_annotations: moderators also browse what is veiled.
Browsable(m, n) ==
  /\ ~n.deleted /\ InScope(m, n)
  /\ n.veil = {} \/ May(m, "project_annotation.review", "any")
\* select_visible_annotations: what an export prints.
Exported(m, n) == May(m, "workspace.read", "any") /\ Browsable(m, n) /\ n.veil = {}

\* _active_visible_project_item_ids.
ActiveAndVisible(m, n) == Bound(n) /\ Open(n.project) /\ Discovers(m, n.project)

\* Mutant: the hint does not look at the Project's state.
EditableHintAnyState(m, n) ==
  /\ n.author = m[1] /\ n.veil = {} /\ ~n.locked
  /\ May(m, Named(Resource(n)).update, "own")
  /\ n.scope = "project" => Bound(n) /\ Discovers(m, n.project)
\* editable_annotation_ids.
EditableHint(m, n) ==
  /\ n.author = m[1] /\ n.veil = {} /\ ~n.locked
  /\ May(m, Named(Resource(n)).update, "own")
  /\ n.scope = "project" => ActiveAndVisible(m, n)

\* annotation_decisions, as _annotation_views asks for it: what the author is
\* offered, and what a moderator is.
AuthorOffers(m, n) ==
  {action \in {"update", "delete"} :
     EditableHint(m, n) /\ May(m, Named(Resource(n))[action], "own")}
ModeratorOffers(m, n) ==
  LET candidates == (IF n.veil # {} THEN {"restore"} ELSE {"hide", "archive"})
                    \cup {IF n.locked THEN "unlock" ELSE "lock", "delete"}
  IN {action \in candidates :
        /\ n.scope = "project" /\ ~n.deleted /\ n.author # m[1]
        /\ Bound(n) /\ Open(n.project)
        /\ May(m, Named("project_annotation")[action], "other")}

\* editable_annotation_reply_ids, for a Reply by one User.
ReplyResource(n) ==
  IF n.scope = "project" THEN "project_annotation_reply" ELSE "private_annotation_reply"
ReplyHint(m, n, by) ==
  /\ n.veil = {} /\ ~n.locked
  /\ May(m, Named(ReplyResource(n)).update, Relation(m, by))
  /\ IF n.scope = "project" THEN ActiveAndVisible(m, n) ELSE n.author = m[1]

\* discussion_message_decisions of a Project's message.
MessageOffers(m, p, by) ==
  {action \in {"project_discussion.delete"} : Open(p) /\ May(m, action, Relation(m, by))}

-------------------------------------------------------------------------------
(* What the commands on one Annotation require. *)

\* _visible_annotation.
Reachable(m, n, deleted) ==
  /\ May(m, "workspace.read", "any")
  /\ n.deleted = deleted /\ n.veil = {}
  /\ n.scope = "project" => Bound(n) /\ Discovers(m, n.project)
  /\ May(m, Named(Resource(n)).read, Relation(m, n.author))

\* _require_annotation_action, behind a shared lock on the roots.
MayAuthor(m, n, action) ==
  /\ Reachable(m, n, action = "restore")
  /\ ~n.locked /\ n.author = m[1]
  /\ May(m, Named(Resource(n))[action], "own")
  /\ n.scope = "project" => Open(n.project)

\* moderate_document_annotation.
MayModerate(m, n, action) ==
  /\ May(m, "workspace.read", "any")
  /\ ~n.deleted /\ n.scope = "project" /\ n.author # m[1]
  /\ Bound(n) /\ Discovers(m, n.project)
  /\ May(m, Named("project_annotation")[action], "other") /\ Open(n.project)
\* Whether the values it writes differ from the row's.
Alters(n, action) ==
  CASE action = "hide" -> "hidden" \notin n.veil
    [] action = "archive" -> "archived" \notin n.veil
    [] action = "restore" -> n.veil # {}
    [] action = "lock" -> ~n.locked
    [] action = "unlock" -> n.locked
    [] action = "delete" -> TRUE

\* require_visible_annotation_for_reply_mutation, then _require_reply_action with
\* the relation to the Reply's author.
MayReply(m, n) ==
  /\ Reachable(m, n, FALSE) /\ ~n.locked
  /\ May(m, Named(ReplyResource(n)).create, Relation(m, n.author))
  /\ IF n.scope = "project" THEN Open(n.project) ELSE n.author = m[1]
MayEditReply(m, n, by) ==
  /\ Reachable(m, n, FALSE) /\ ~n.locked
  /\ \A relation \in {"own", Relation(m, by)} :
       May(m, Named(ReplyResource(n)).update, relation)
  /\ IF n.scope = "project" THEN Open(n.project) ELSE n.author = m[1]

-------------------------------------------------------------------------------
(* Pages and commands agree. *)

\* The caller would still discover the Project.
SeesAfter(m, p, change) ==
  Shows(m, p, change.row, (seat \ change.out) \cup change.in)

\* The page of a Project offers exactly the commands that would be accepted and
\* change something, joining included, which a selection of an earlier
\* membership would refuse; the joinable view lists what can be joined, the
\* participants shown can be removed, and each Project an Item can be put into
\* is on the page of the Item. Whoever changes its mode to one on offer does not
\* lose sight of it.
ProjectPageAgrees(m, p) == LET offers == ProjectDecisions(m, p) IN
  /\ p \in ListedProjects(m)
  /\ "project_participation.join" \in offers
       <=> MayJoin(m, p) /\ MayTake(p, m) /\ <<p, m>> \notin seat
  /\ "project_participation.join" \in offers <=>
       p \in JoinableProjects(m) /\ May(m, "project_participation.join", "open")
  /\ "project_participation.leave" \in offers <=> MayLeave(m, p) /\ <<p, m>> \in seat
  /\ "project.archive" \in offers <=> MaySetState(m, p, "archived") /\ Open(p)
  /\ "project.restore" \in offers <=> MaySetState(m, p, "active") /\ ~Open(p)
  /\ "project.delete" \in offers <=> MayDelete(m, p)
  /\ "project_item.manage" \in offers <=> MayLink(m, p)
  /\ MayLink(m, p) => p \in AssignableProjects(m)
  /\ "project.update" \in offers <=> MayUpdate(m, p, project[p].mode)
  /\ \A mode \in ModeChoices(m, p) : SeesAfter(m, p, UpdateChange(m, p, mode))
  /\ "project_participation.manage" \in offers <=> MayCurate(m, p)
  /\ MayCurate(m, p) => \A u \in ShownParticipants(p) : MayRemove(m, p, u)
  /\ \A u \in Users :
       /\ "project_discussion.delete" \in offers => MessageOffers(m, p, u) # {}
       /\ MessageOffers(m, p, u) # {} /\ u # m[1] => "project_discussion.delete" \in offers

\* So does every page that can be found, and whoever creates a Project in one of
\* the modes on offer finds it.
ProjectPagesAgree == \A m \in MemberIds, p \in ProjectIds :
  /\ member[m].status = "active" /\ project[p].state = "absent" =>
       \A mode \in CreationChoices(m) : SeesAfter(m, p, CreateChange(m, p, mode))
  /\ Discovers(m, p) => ProjectPageAgrees(m, p)

\* Browsing, exporting and opening an Annotation directly show the same ones,
\* veiled ones apart, which only moderators browse; a button is offered exactly
\* where its command is accepted and changes something; and nobody moderates
\* what they cannot browse.
AnnotationAgrees(m, n) ==
  /\ Exported(m, n) <=> Reachable(m, n, FALSE)
  /\ Browsable(m, n) <=> \/ Reachable(m, n, FALSE)
                         \/ /\ n.veil # {} /\ May(m, "project_annotation.review", "any")
                            /\ Reachable(m, [n EXCEPT !.veil = {}], FALSE)
  /\ \A action \in Moderations : MayModerate(m, n, action) => Browsable(m, n)
  /\ Browsable(m, n) =>
       /\ \A action \in {"update", "delete"} :
            action \in AuthorOffers(m, n) <=> MayAuthor(m, n, action)
       /\ \A action \in Moderations :
            action \in ModeratorOffers(m, n) <=>
              /\ MayModerate(m, n, action) /\ Alters(n, action)
              /\ action \in {"hide", "archive"} => n.veil = {}
       /\ \A by \in Users : ReplyHint(m, n, by) <=> MayEditReply(m, n, by)
       /\ MayEditReply(m, n, m[1]) => MayReply(m, n)
AnnotationPagesAgree == \A m \in MemberIds :
  member[m].status = "active" => \A n \in AnnotationRows : AnnotationAgrees(m, n)

\* Pages offer what commands accept.
OffersStand == ProjectPagesAgree /\ AnnotationPagesAgree
===============================================================================
