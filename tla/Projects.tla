-------------------------------- MODULE Projects --------------------------------
(***************************************************************************)
(* The Projects of one Workspace: participation, discovery, working sets   *)
(* and lifecycle (projects/{participation,lifecycle,workspaces}.py), every *)
(* command ONE atomic step.  ProjectsTx runs them as transactions.         *)
(*                                                                         *)
(* A membership is <<user, generation>>, as in Governance.  What the       *)
(* Workspace does to its members and its lifecycle is the environment of   *)
(* this module: any change Governance could make is allowed here, whoever  *)
(* asks for it.  Accounts are active, names and descriptions are left out, *)
(* Items exist throughout.                                                 *)
(***************************************************************************)
EXTENDS AccessPolicy, FiniteSets

CONSTANTS Users, ProjectIds, Items,
          MaxGens,    \* bound: memberships a User may ever have
          AskRoles,   \* roles members are given
          Roster,     \* founding roles, "none" where not a member
          Openings    \* projects there may be at first, with no participants

Gens == 1..MaxGens
MemberIds == Users \X Gens
Participations == {"workspace", "open", "managed"}

ASSUME BoundsAssumption == MaxGens \in Nat \ {0}
ASSUME RolesAssumption == AskRoles \subseteq Roles
ASSUME RosterAssumption == Roster \in [Users -> Roles \cup {"none"}]
ASSUME OpeningsAssumption == Openings \subseteq [ProjectIds -> Participations \cup {"none"}]

VARIABLES space,    \* effective lifecycle of the Workspace
          member,   \* workspace_members
          project,  \* projects: lifecycle state and participation mode
          seat,     \* project_participants
          link      \* project_items

vars == <<space, member, project, seat, link>>

MemberRows == [role : Roles, status : {"unused", "active", "suspended", "ended"}]
ProjectStates == {"absent", "active", "archived", "deleted"}
ProjectRows == [state : ProjectStates, mode : Participations]

TypeOK ==
  /\ space \in Lifecycles
  /\ member \in [MemberIds -> MemberRows]
  /\ project \in [ProjectIds -> ProjectRows]
  /\ seat \in SUBSET (ProjectIds \X MemberIds)
  /\ link \in SUBSET (ProjectIds \X Items)

-------------------------------------------------------------------------------
(* Facts commands read. *)

Current(m) == member[m].status \in {"active", "suspended"}
Exists(p) == project[p].state \in {"active", "archived"}
Open(p) == project[p].state = "active"

\* require_action on the context of an active member.
May(m, action, relation) ==
  /\ member[m].status = "active"
  /\ Allowed(member[m].role, action, space, relation)

SeatsOf(p) == {s \in seat : s[1] = p}
UserSeats(p, u) == {s \in seat : s[1] = p /\ s[2][1] = u}

\* project_discovery_predicate, for a mode and a set of selections.
Shows(m, p, row, seats) ==
  /\ row.state \in {"active", "archived"}
  /\ \/ row.mode \in {"workspace", "open"}
     \/ May(m, "project_governance.read", "any")
     \/ <<p, m>> \in seats
Discovers(m, p) == member[m].status = "active" /\ Shows(m, p, project[p], seat)

\* Row images and selections one command writes to Project p.
Change(row, in, out, linkIn, linkOut) ==
  [row |-> row, in |-> in, out |-> out, linkIn |-> linkIn, linkOut |-> linkOut]
Seats(p, in, out) == Change(project[p], in, out, {}, {})
Links(p, in, out) == Change(project[p], {}, {}, in, out)
Nothing(p) == Change(project[p], {}, {}, {}, {})

Write(p, change) ==
  /\ project' = [project EXCEPT ![p] = change.row]
  /\ seat' = (seat \ change.out) \cup change.in
  /\ link' = (link \ change.linkOut) \cup change.linkIn
  /\ UNCHANGED <<space, member>>

-------------------------------------------------------------------------------
(* Participation (participation.py). *)

\* The unique (project, user) key refuses another generation's selection; a
\* selection of this one is kept.
MayTake(p, m) == UserSeats(p, m[1]) \subseteq {<<p, m>>}

\* What a command requires once lock_project_root found a discoverable Project.
MayJoin(m, p) ==
  /\ Open(p) /\ project[p].mode = "open"
  /\ May(m, "project_participation.join", "open")
JoinChange(m, p) == Seats(p, {<<p, m>>}, {})
Join(m, p) ==
  Discovers(m, p) /\ MayJoin(m, p) /\ MayTake(p, m) /\ Write(p, JoinChange(m, p))

MayLeave(m, p) ==
  /\ Open(p) /\ project[p].mode = "open"
  /\ May(m, "project_participation.leave", "open")
LeaveChange(m, p) == Seats(p, {}, {<<p, m>>})
Leave(m, p) == Discovers(m, p) /\ MayLeave(m, p) /\ Write(p, LeaveChange(m, p))

MayCurate(m, p) ==
  /\ Open(p) /\ project[p].mode = "managed"
  /\ May(m, "project_participation.manage", "managed")

\* Mutant: a suspended or former member can be added.
MayAddMember(m, p, t) == MayCurate(m, p) /\ member[t].status # "unused"
MayAdd(m, p, t) == MayCurate(m, p) /\ member[t].status = "active"
Add(m, p, t) ==
  Discovers(m, p) /\ MayAdd(m, p, t) /\ MayTake(p, t) /\ Write(p, JoinChange(t, p))

\* By user: whatever membership the selection belongs to.
MayRemove(m, p, u) == MayCurate(m, p) /\ UserSeats(p, u) # {}
RemoveChange(p, u) == Seats(p, {}, UserSeats(p, u))
Remove(m, p, u) == Discovers(m, p) /\ MayRemove(m, p, u) /\ Write(p, RemoveChange(p, u))

-------------------------------------------------------------------------------
(* Settings and lifecycle (lifecycle.py, workspaces.py). *)

\* Entering or leaving "managed" needs the authority to curate.
MayUpdate(m, p, mode) ==
  /\ Open(p) /\ May(m, "project.update", "any")
  /\ mode # project[p].mode /\ "managed" \in {mode, project[p].mode} =>
       May(m, "project_participation.manage", "managed")

UpdateChange(m, p, mode) ==
  LET changed == mode # project[p].mode
  IN Change([project[p] EXCEPT !.mode = mode],
            IF changed /\ mode = "open" /\ project[p].mode = "workspace"
            THEN {<<p, m>>} ELSE {},
            IF changed /\ "workspace" \in {mode, project[p].mode}
            THEN SeatsOf(p) ELSE {},
            {}, {})
Update(m, p, mode) ==
  Discovers(m, p) /\ MayUpdate(m, p, mode) /\ Write(p, UpdateChange(m, p, mode))

MaySetState(m, p, s) ==
  May(m, IF s = "archived" THEN "project.archive" ELSE "project.restore", "any")
StateChange(p, s) == Change([project[p] EXCEPT !.state = s], {}, {}, {}, {})
SetState(m, p, s) == Discovers(m, p) /\ MaySetState(m, p, s) /\ Write(p, StateChange(p, s))

MayDelete(m, p) == May(m, "project.delete", "any")
\* The root's cascade.
DeleteChange(p) ==
  Change([project[p] EXCEPT !.state = "deleted"], {}, SeatsOf(p), {},
         {l \in link : l[1] = p})
Delete(m, p) == Discovers(m, p) /\ MayDelete(m, p) /\ Write(p, DeleteChange(p))

MayCreate(m, p, mode) ==
  /\ project[p].state = "absent"
  /\ May(m, "project.create", mode)
CreateChange(m, p, mode) ==
  Change([state |-> "active", mode |-> mode],
         IF mode = "open" THEN {<<p, m>>} ELSE {}, {}, {}, {})
Create(m, p, mode) == MayCreate(m, p, mode) /\ Write(p, CreateChange(m, p, mode))

\* add_item_to_project, remove_item_from_project and their bulk forms.
MayLink(m, p) == Open(p) /\ May(m, "project_item.manage", "any")
LinksTo(p, items) == {p} \X items
Attach(m, p, items) ==
  Discovers(m, p) /\ MayLink(m, p) /\ Write(p, Links(p, LinksTo(p, items), {}))
Detach(m, p, items) ==
  Discovers(m, p) /\ MayLink(m, p) /\ Write(p, Links(p, {}, LinksTo(p, items)))

-------------------------------------------------------------------------------
(* What the Workspace does meanwhile (see Governance). *)

Governed == UNCHANGED <<project, link>>

Admit(u, g, r) ==
  /\ member[<<u, g>>].status = "unused"
  /\ \A h \in Gens : h < g => member[<<u, h>>].status = "ended"
  /\ member' = [member EXCEPT ![<<u, g>>] = [role |-> r, status |-> "active"]]
  /\ UNCHANGED <<space, seat>> /\ Governed

Revise(m, r, s) ==
  /\ Current(m)
  /\ member' = [member EXCEPT ![m] = [role |-> r, status |-> s]]
  /\ UNCHANGED <<space, seat>> /\ Governed

\* _end_membership deletes the selections of exactly this membership.
End(m) ==
  /\ Current(m)
  /\ member' = [member EXCEPT ![m].status = "ended"]
  /\ seat' = {s \in seat : s[2] # m}
  /\ UNCHANGED space /\ Governed

MoveSpace(s) == space' = s /\ UNCHANGED <<member, seat>> /\ Governed

-------------------------------------------------------------------------------
Init ==
  /\ space = "active"
  /\ member = [m \in MemberIds |->
       IF m[2] = 1 /\ Roster[m[1]] # "none"
       THEN [role |-> Roster[m[1]], status |-> "active"]
       ELSE [role |-> "viewer", status |-> "unused"]]
  /\ \E opening \in Openings : project = [p \in ProjectIds |->
       IF opening[p] = "none" THEN [state |-> "absent", mode |-> "open"]
       ELSE [state |-> "active", mode |-> opening[p]]]
  /\ seat = {}
  /\ link = {}

Participate == \E m \in MemberIds, p \in ProjectIds :
  \/ Join(m, p)
  \/ Leave(m, p)
  \/ \E t \in MemberIds : Add(m, p, t)
  \/ \E u \in Users : Remove(m, p, u)

Manage == \E m \in MemberIds, p \in ProjectIds :
  \/ \E mode \in Participations : Update(m, p, mode) \/ Create(m, p, mode)
  \/ \E s \in {"active", "archived"} : SetState(m, p, s)
  \/ Delete(m, p)
  \/ \E items \in SUBSET Items : Attach(m, p, items) \/ Detach(m, p, items)

Govern ==
  \/ \E u \in Users, g \in Gens, r \in AskRoles : Admit(u, g, r)
  \/ \E m \in MemberIds, r \in AskRoles, s \in {"active", "suspended"} : Revise(m, r, s)
  \/ \E m \in MemberIds : End(m)
  \/ \E s \in Lifecycles : MoveSpace(s)

Next == Participate \/ Manage \/ Govern

Spec == Init /\ [][Next]_vars

-------------------------------------------------------------------------------
(* Safety: what check_project_integrity diagnoses never happens. *)

\* A Project everybody takes part in has no explicit participants, through
\* every change of mode.
ImplicitIsEmpty == \A p \in ProjectIds :
  SeatsOf(p) # {} => Exists(p) /\ project[p].mode # "workspace"

\* A selection belongs to a current membership, suspended ones included, and a
\* User has one per Project: a former member who is admitted again starts with
\* none and cannot see the managed Projects of the membership that ended.
SeatsAreCurrent == \A s \in seat :
  Current(s[2]) /\ UserSeats(s[1], s[2][1]) = {s}

(* Action properties. *)

\* While a Project stays archived, or the Workspace stays archived or frozen,
\* working sets stand and selections go only with an ended membership or with
\* the Project.
ReadOnlyStands == [][\A p \in ProjectIds :
  /\ Exists(p) /\ Exists(p)'
  /\ \/ project[p].state = "archived" /\ project[p]'.state = "archived"
     \/ space # "active"
  => /\ {l \in link : l[1] = p}' = {l \in link : l[1] = p}
     /\ SeatsOf(p)' = {s \in SeatsOf(p) : Current(s[2])'}
     /\ project[p]' = project[p]]_vars

\* Nobody gets into a managed Project by themselves: it opens up, or takes in a
\* participant, only while some active member holds the authority to curate.
CurationHasCurator == [][\A p \in ProjectIds :
  /\ Exists(p) /\ project[p].mode = "managed"
  /\ Exists(p)' /\ (project[p]'.mode # "managed" \/ ~(SeatsOf(p)' \subseteq SeatsOf(p)))
  => \E m \in MemberIds : May(m, "project_participation.manage", "managed")]_vars
===============================================================================
