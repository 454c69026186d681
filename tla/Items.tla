---------------------------------- MODULE Items ----------------------------------
(***************************************************************************)
(* The metadata of one Item and what is derived from it: its citation key, *)
(* its two search projections and its Tag recommendation                   *)
(* (library/item_metadata.py, identifiers.py, workflows.py,                *)
(* tag_recommendations.py, search/postgres.py, operations/workflows.py).   *)
(*                                                                         *)
(* A request commits in one step: it holds the Item row from its first     *)
(* write, and reads again what it looked at before.  A synchronization     *)
(* with a provider, a generation of recommendations and a rebuild of the   *)
(* projections span several steps.  Texts are numbered by the version that *)
(* wrote them; a Document is an extracted text of the Item, numbered in    *)
(* the order of creation.                                                  *)
(***************************************************************************)
EXTENDS Naturals, FiniteSetsExt

CONSTANTS Clients,     \* sessions that edit
          MaxVersion,  \* bound: versions of the Item
          MaxDocs,     \* bound: File Revisions
          MaxToken,    \* bound: generations requested
          MaxFaults    \* bound: faults

ASSUME BoundsAssumption ==
  {MaxVersion, MaxDocs} \subseteq Nat \ {0} /\ {MaxToken, MaxFaults} \subseteq Nat

VARIABLES item,     \* the row; version 0: none
          docs,     \* its File Revisions
          may,      \* the actor's role and the Workspace allow updates
          client,   \* what a session has seen, and its synchronization
          rec,      \* item_tag_recommendations; token 0: none
          notices,  \* pending file_revision_changed workflows
          lost,     \* one of them was given up
          flow,     \* recommend_tags workflows, by generation token
          index,    \* item_search and revision_search
          rebuild,  \* a rebuild in progress
          whole,    \* every row was indexed when written or by a rebuild
          faults

base == <<item, docs, may, client>>
derived == <<rec, notices, lost, flow>>
search == <<index, rebuild, whole>>
vars == <<base, derived, search, faults>>

Docs == 1..MaxDocs
Tokens == 1..MaxToken
\* A citation key is the client's own, or generated from the present or from
\* earlier metadata.
CitationKeys == {"none", "own", "current", "earlier"}
NoItem == [version |-> 0, text |-> 0, key |-> "none"]
NoRecord == [token |-> 0, ready |-> FALSE, seen |-> <<0, 0>>]
NoRebuild == [todo |-> {}, held |-> {}, text |-> 0, docs |-> {}]
Texts == (0..MaxVersion) \X (0..MaxDocs)
Targets == {0} \cup Docs  \* rows a rebuild visits; 0 is the Item

TypeOK ==
  /\ item \in [version : 0..MaxVersion, text : 0..MaxVersion, key : CitationKeys]
  /\ docs \in [Docs -> {"new", "ready", "gone"}]
  /\ may \in BOOLEAN /\ lost \in BOOLEAN /\ whole \in BOOLEAN
  /\ client \in [Clients -> [known : 0..MaxVersion, sync : {"none", "renews", "keeps"}]]
  /\ rec \in [token : 0..MaxToken, ready : BOOLEAN, seen : Texts]
  /\ notices \in 0..MaxToken
  /\ flow \in [Tokens -> [phase : {"none", "queued", "current", "read", "made",
                                   "ended", "empty", "failed"}, seen : Texts]]
  /\ index \in [item : 0..MaxVersion, docs : SUBSET Docs]
  /\ rebuild \in [todo : SUBSET Targets, held : SUBSET Targets,
                  text : 0..MaxVersion, docs : SUBSET Docs]
  /\ faults \in 0..MaxFaults

Exists == item.version > 0
Ready == {d \in Docs : docs[d] = "ready"}
Newest == Max({0} \cup Ready)
\* Rows locked FOR SHARE by a rebuild.
\* Mutant: it reads them without a lock.
HeldNever(t) == FALSE
Held(t) == t \in rebuild.held
\* The bound of the generations: an action that requests one needs room for it
\* and for those the pending notices will request.
Room == rec.token + notices < MaxToken

-------------------------------------------------------------------------------
(* Tag recommendations: request_item_tag_recommendation, force = True, in the *)
(* transaction of its caller.                                                 *)

\* Mutant: the workflow is named after the Item alone, so that a second one with
\* the same name is not started.
RequestSameName ==
  /\ rec' = [token |-> rec.token + 1, ready |-> FALSE, seen |-> <<0, 0>>]
  /\ flow' = [flow EXCEPT ![rec.token + 1].phase =
                IF rec.token = 0 THEN "queued" ELSE "none"]
Request ==
  /\ rec' = [token |-> rec.token + 1, ready |-> FALSE, seen |-> <<0, 0>>]
  /\ flow' = [flow EXCEPT ![rec.token + 1].phase = "queued"]

Regenerate ==
  /\ Exists /\ may /\ Room /\ Request
  /\ UNCHANGED <<base, notices, lost, search, faults>>

\* request_item_tag_recommendation_step; the workflow of a deleted Item ends.
Notice ==
  /\ notices > 0 /\ notices' = notices - 1
  /\ \/ Exists /\ may /\ Request
     \/ ~Exists /\ UNCHANGED <<rec, flow>>
  /\ UNCHANGED <<base, lost, search, faults>>
\* The step commits and is executed again after a crash.
NoticeAgain ==
  /\ notices > 0 /\ faults < MaxFaults /\ faults' = faults + 1
  /\ Exists /\ may /\ Room /\ Request
  /\ UNCHANGED <<base, notices, lost, search>>
\* Its attempts are used up: the actor may not, or a fault.
NoticeRefused ==
  /\ Exists /\ ~may
  /\ notices > 0 /\ notices' = notices - 1 /\ lost' = TRUE
  /\ UNCHANGED <<base, rec, flow, search, faults>>
NoticeBreaks ==
  /\ faults < MaxFaults /\ faults' = faults + 1
  /\ notices > 0 /\ notices' = notices - 1 /\ lost' = TRUE
  /\ UNCHANGED <<base, rec, flow, search>>

Moves(t, phase) == flow' = [flow EXCEPT ![t] = [phase |-> phase, seen |-> <<0, 0>>]]

\* item_tag_recommendation_is_current_step.
CheckCurrent(t) ==
  /\ flow[t].phase = "queued"
  /\ Moves(t, IF rec.token = t THEN "current" ELSE "ended")
  /\ UNCHANGED <<base, rec, notices, lost, search, faults>>
\* recommend_item_tags reads the Item, then the newest ready File Revision, and
\* asks the engine.
ReadItem(t) ==
  /\ flow[t].phase = "current"
  /\ IF Exists THEN flow' = [flow EXCEPT ![t] = [phase |-> "read", seen |-> <<item.text, 0>>]]
     ELSE Moves(t, "ended")
  /\ UNCHANGED <<base, rec, notices, lost, search, faults>>
ReadDocument(t) ==
  /\ flow[t].phase = "read"
  /\ flow' = [flow EXCEPT ![t] = [phase |-> "made", seen |-> <<@.seen[1], Newest>>]]
  /\ UNCHANGED <<base, rec, notices, lost, search, faults>>
\* The step takes any ValueError for the deletion of the Item, also one the engine
\* raises on a text it can make nothing of (excerpo/engine.py:241, where a text
\* gives words and no phrases): the workflow ends well and stores nothing.
MakeNothing(t) ==
  /\ flow[t].phase = "read" /\ Moves(t, "empty")
  /\ UNCHANGED <<base, rec, notices, lost, search, faults>>

\* Mutant: the generation is not compared.
IsOursAnyToken(t) == rec.token > 0
IsOurs(t) == rec.token = t
\* _store_item_tag_recommendation.
Store(t) ==
  /\ flow[t].phase = "made" /\ ~Held(0)
  /\ IF ~may THEN Moves(t, "failed") /\ UNCHANGED rec
     ELSE /\ Moves(t, "ended")
          /\ IF Exists /\ IsOurs(t)
             THEN rec' = [rec EXCEPT !.ready = TRUE, !.seen = flow[t].seen]
             ELSE UNCHANGED rec
  /\ UNCHANGED <<base, notices, lost, search, faults>>
\* A step is executed again after a crash, or its attempts are used up.
FlowBreaks(t) ==
  /\ faults < MaxFaults /\ faults' = faults + 1
  /\ flow[t].phase \in {"current", "read", "made"}
  /\ \/ flow[t].phase = "read" /\ Moves(t, "current")
     \/ Moves(t, "failed")
  /\ UNCHANGED <<base, rec, notices, lost, search>>

-------------------------------------------------------------------------------
(* Writes to the Item, each with its search projection and its request in one *)
(* transaction.                                                               *)

Indexed(text) == index' = [index EXCEPT !.item = text]
NextText == item.version + 1
CanWrite == Exists /\ may /\ ~Held(0) /\ item.version < MaxVersion

\* create_item, and an Item that an import or a copy creates.  Ids are not used again:
\* the Documents of an Item that was deleted are gone.
Create(key, requests) ==
  /\ item = NoItem /\ may /\ \A d \in Docs : docs[d] = "new"
  /\ item' = [version |-> 1, text |-> 1, key |-> key]
  /\ Indexed(1) /\ whole' = TRUE
  /\ IF requests THEN Room /\ Request ELSE UNCHANGED <<rec, flow>>
  /\ UNCHANGED <<docs, may, client, notices, lost, rebuild, faults>>

Look(c) ==
  /\ client[c].sync = "none" /\ client' = [client EXCEPT ![c].known = item.version]
  /\ UNCHANGED <<item, docs, may, derived, search, faults>>

\* New metadata; a generated key that is preserved may still be what they give.
Writes(key) ==
  /\ item' = [version |-> item.version + 1, text |-> NextText, key |-> key]
  /\ Indexed(NextText) /\ Room /\ Request
Preserved == IF item.key \in {"current", "earlier"} THEN {"current", "earlier"}
             ELSE {item.key}

\* revise_item_metadata.
Revise(c) ==
  /\ CanWrite /\ client[c].sync = "none" /\ client[c].known = item.version
  /\ \E key \in Preserved \cup {"own", "none"} : Writes(key)
  /\ client' = [client EXCEPT ![c].known = item.version + 1]
  /\ UNCHANGED <<docs, may, notices, lost, rebuild, whole, faults>>

\* sync_metadata_from_upstream remembers whether the key is a generated one, asks
\* the provider outside any transaction, and writes if the version still holds.
StartSync(c) ==
  /\ Exists /\ may /\ client[c].sync = "none" /\ client[c].known > 0
  /\ client' = [client EXCEPT ![c].sync =
                  IF item.key \in {"none", "current"} THEN "renews" ELSE "keeps"]
  /\ UNCHANGED <<item, docs, may, derived, search, faults>>
\* Mutant: the version is not compared.
CommitSyncAnyVersion(c) ==
  /\ CanWrite /\ client[c].sync # "none"
  /\ \E key \in IF client[c].sync = "renews" \/ item.key = "none" THEN {"current"} ELSE Preserved :
       Writes(key)
  /\ client' = [client EXCEPT ![c] = [known |-> item.version + 1, sync |-> "none"]]
  /\ UNCHANGED <<docs, may, notices, lost, rebuild, whole, faults>>
CommitSync(c) ==
  /\ CanWrite /\ client[c].sync # "none" /\ client[c].known = item.version
  /\ \E key \in IF client[c].sync = "renews" \/ item.key = "none" THEN {"current"} ELSE Preserved :
       Writes(key)
  /\ client' = [client EXCEPT ![c] = [known |-> item.version + 1, sync |-> "none"]]
  /\ UNCHANGED <<docs, may, notices, lost, rebuild, whole, faults>>
\* The provider fails, or the version has moved on.
RefuseSync(c) ==
  /\ client[c].sync # "none" /\ client' = [client EXCEPT ![c].sync = "none"]
  /\ UNCHANGED <<item, docs, may, derived, search, faults>>

\* regenerate_citation_key: a new version of the same text, and no request.
RegenerateKey ==
  /\ CanWrite /\ Indexed(item.text)
  /\ item' = [item EXCEPT !.version = @ + 1, !.key = "current"]
  /\ UNCHANGED <<docs, may, client, derived, rebuild, whole, faults>>

\* delete_item, _delete_items: the database cascades to the recommendation, the
\* File Revisions and the projections.
Delete ==
  /\ Exists /\ may /\ rebuild.held = {}
  /\ item' = NoItem /\ rec' = NoRecord
  /\ docs' = [d \in Docs |-> "gone"] /\ index' = [item |-> 0, docs |-> {}]
  /\ UNCHANGED <<may, client, notices, lost, flow, rebuild, whole, faults>>

\* inspect_and_publish_revision, delete_file_revision: with the projection and the
\* notice in the same transaction.
PublishDocument(d) ==
  /\ Exists /\ may /\ docs[d] = "new" /\ ~Held(d) /\ Room
  /\ docs' = [docs EXCEPT ![d] = "ready"]
  /\ index' = [index EXCEPT !.docs = @ \cup {d}]
  /\ notices' = notices + 1
  /\ UNCHANGED <<item, may, client, rec, lost, flow, rebuild, whole, faults>>
DeleteDocument(d) ==
  /\ Exists /\ may /\ docs[d] = "ready" /\ ~Held(d) /\ Room
  /\ docs' = [docs EXCEPT ![d] = "gone"]
  /\ index' = [index EXCEPT !.docs = @ \ {d}]
  /\ notices' = notices + 1
  /\ UNCHANGED <<item, may, client, rec, lost, flow, rebuild, whole, faults>>

\* The actor's role or the lifecycle of the Workspace changes.
Authority ==
  /\ may' = ~may /\ faults < MaxFaults /\ faults' = faults + 1
  /\ UNCHANGED <<item, docs, client, derived, search>>

-------------------------------------------------------------------------------
(* reindex_workspace_workflow and reindex_all: rows are visited under a shared *)
(* lock, and replaced when the transaction of their page commits.              *)

Rows == IF Exists THEN {0} \cup {d \in Docs : docs[d] # "gone"} ELSE {}
StartRebuild ==
  /\ rebuild = NoRebuild /\ Exists
  /\ rebuild' = [NoRebuild EXCEPT !.todo = Rows]
  /\ UNCHANGED <<base, derived, index, whole, faults>>
\* index_item and index_revision read the row that they lock.  Items come first.
Visit(t) ==
  /\ t \in rebuild.todo /\ (t = 0 \/ 0 \notin rebuild.todo)
  /\ rebuild' = [todo |-> rebuild.todo \ {t}, held |-> rebuild.held \cup ({t} \cap Rows),
                  text |-> IF t = 0 THEN item.text ELSE rebuild.text,
                  docs |-> rebuild.docs \cup ({t} \cap Ready)]
  /\ UNCHANGED <<base, derived, index, whole, faults>>
CommitPage ==
  /\ rebuild.held # {}
  /\ index' = [item |-> IF 0 \in rebuild.held THEN rebuild.text ELSE index.item,
               docs |-> (index.docs \ rebuild.held) \cup rebuild.docs]
  /\ rebuild' = [NoRebuild EXCEPT !.todo = rebuild.todo]
  /\ whole' = (whole \/ rebuild.todo = {})
  /\ UNCHANGED <<base, derived, faults>>
\* The transaction fails and takes the rebuild with it.
AbortRebuild ==
  /\ rebuild # NoRebuild /\ rebuild' = NoRebuild
  /\ faults < MaxFaults /\ faults' = faults + 1
  /\ UNCHANGED <<base, derived, index, whole>>

-------------------------------------------------------------------------------
(* A Workspace with nothing yet, or with an Item and a Document from before its *)
(* search projections.                                                          *)
Init ==
  /\ \/ /\ item = NoItem /\ docs = [d \in Docs |-> "new"] /\ whole = TRUE
     \/ /\ item = [version |-> 1, text |-> 1, key |-> "current"]
        /\ docs = [d \in Docs |-> IF d = 1 THEN "ready" ELSE "new"] /\ whole = FALSE
  /\ may = TRUE /\ client = [c \in Clients |-> [known |-> 0, sync |-> "none"]]
  /\ rec = NoRecord /\ notices = 0 /\ lost = FALSE
  /\ flow = [t \in Tokens |-> [phase |-> "none", seen |-> <<0, 0>>]]
  /\ index = [item |-> 0, docs |-> {}] /\ rebuild = NoRebuild /\ faults = 0

FlowStep(t) == \/ CheckCurrent(t) \/ ReadItem(t) \/ ReadDocument(t) \/ MakeNothing(t)
               \/ Store(t) \/ FlowBreaks(t)
Generation == Notice \/ NoticeRefused \/ NoticeAgain \/ NoticeBreaks \/ \E t \in Tokens : FlowStep(t)
Edit == \/ \E key \in {"own", "none"}, requests \in BOOLEAN : Create(key, requests)
        \/ \E c \in Clients : Look(c) \/ Revise(c)
        \/ Regenerate \/ Delete \/ \E d \in Docs : PublishDocument(d) \/ DeleteDocument(d)
Keys == RegenerateKey \/ \E c \in Clients : StartSync(c) \/ CommitSync(c) \/ RefuseSync(c)
Rebuild == StartRebuild \/ CommitPage \/ AbortRebuild \/ \E t \in Targets : Visit(t)

Next == Edit \/ Keys \/ Generation \/ Rebuild \/ Authority

\* The queues hand on what waits in them, and workers carry on.
Works ==
  /\ WF_vars(Notice \/ NoticeRefused) /\ WF_vars(CommitPage)
  /\ WF_vars(\E t \in Targets : Visit(t))
  /\ \A t \in Tokens :
       WF_vars(CheckCurrent(t) \/ ReadItem(t) \/ ReadDocument(t) \/ MakeNothing(t) \/ Store(t))
Spec == Init /\ [][Next]_vars /\ Works

-------------------------------------------------------------------------------
\* A recommendation that is shown was made from the texts the Item has now, unless
\* a notice of the change is still on its way or was given up: an older generation
\* never overwrites a newer one, nor lands after the edit that made it obsolete.
ReadyIsCurrent ==
  rec.ready => rec.seen = <<item.text, Newest>> \/ notices > 0 \/ lost

\* Every requested recommendation is eventually there and current, or shown as
\* failed: an Item is shown as waiting for ever only where the engine raised a
\* ValueError for the newest generation itself, which the workflow reports as the
\* deletion of the Item.  Neither an edit, a repeated or late request nor a
\* generation that is overtaken leaves it waiting.
RecommendationSettles ==
  <>[](\/ rec.token = 0 \/ lost
       \/ flow[rec.token].phase \in {"failed", "empty"}
       \/ rec.ready /\ rec.seen = <<item.text, Newest>>)

\* The search projections hold what the Item and its Documents say, also while a
\* rebuild runs beside the writes; a rebuild that ends has left nothing out.
IndexAgrees ==
  /\ index.item \in {0, item.text} /\ index.docs \subseteq Ready
  /\ whole => index = [item |-> item.text, docs |-> Ready]

\* Synchronizing with a provider never replaces a citation key its owner chose,
\* even one chosen while the provider was asked.
OwnKeyStays == [][
  \A c \in Clients : client[c].sync # "none" /\ client'[c].sync = "none"
    /\ item' # item /\ item.key = "own" => item'.key = "own"]_vars

\* What is derived from an Item is what the Item says.
ProjectionsAgree == ReadyIsCurrent /\ IndexAgrees
===============================================================================
