------------------------------ MODULE Governance ------------------------------
(***************************************************************************)
(* What the Workspace commands promise: every command of workspaces/       *)
(* {membership,governance,invitations,lifecycle,creation,retention}.py and *)
(* the account commands that fence them (accounts/administration.py) is    *)
(* ONE atomic step on the committed tables.  GovernanceTx runs the same    *)
(* commands as concurrent transactions and is shown to implement this.     *)
(*                                                                         *)
(* A membership row is identified by <<workspace, user, generation>>: the  *)
(* row's UUID stands for its generation, workspace_id and user_id never    *)
(* change, and a member who comes back gets a new row.  Invitations are    *)
(* identified the same way.  Names, tokens, reasons and audit rows are     *)
(* left out; "seat" says whether a membership holds a Project selection    *)
(* (a ProjectParticipant row), which ending the membership deletes.        *)
(***************************************************************************)
EXTENDS AccessPolicy, FiniteSets

CONSTANTS Users,           \* account ids, ordered as their UUIDs are
          Workspaces,      \* Workspace ids
          MaxGens,         \* memberships a (workspace, user) pair may ever have
          MaxInvites,      \* invitations a (workspace, user) pair may ever get
          AskRoles,        \* roles that requests name
          CreationPolicy,  \* the workspace_creation_policy setting
          Roster           \* founding roles, "none" where not a member

Gens == 1..MaxGens
MemberIds == Workspaces \X Users \X Gens
Serials == 1..MaxInvites
InviteIds == Workspaces \X Users \X Serials

Founded(w) == \E u \in Users : Roster[w][u] # "none"

ASSUME UsersAssumption == Users \subseteq Nat /\ IsFiniteSet(Users)
ASSUME BoundsAssumption == MaxGens \in Nat \ {0} /\ MaxInvites \in Nat
ASSUME AskAssumption == AskRoles \subseteq Roles
ASSUME PolicyAssumption == CreationPolicy \in CreationPolicies
\* A Workspace that exists at the start was created with exactly one owner.
ASSUME RosterAssumption ==
  /\ Roster \in [Workspaces -> [Users -> Roles \cup {"none"}]]
  /\ \A w \in Workspaces : Founded(w) =>
       \E o \in Users : \A u \in Users : Roster[w][u] = "owner" <=> u = o

VARIABLES user,    \* users: active flag and system role
          space,   \* workspaces: lifecycle state and governance freeze
          member,  \* workspace_members: role and status of each row
          invite,  \* workspace_invitations: role, inviter, status
          lapsed,  \* pending invitations whose expires_at has passed
          seat     \* memberships holding a Project selection

vars == <<user, space, member, invite, lapsed, seat>>

UserRows == [active : BOOLEAN, role : SystemRoles]
SpaceStates == {"absent", "active", "archived", "deleted"}
SpaceRows == [state : SpaceStates, frozen : BOOLEAN]
MemberStatus == {"unused", "active", "suspended", "ended", "gone"}
MemberRows == [role : Roles, status : MemberStatus]
InviteStatus == {"unused", "pending", "accepted", "revoked", "gone"}
InviteRows == [role : InvitationRoles, by : Users, status : InviteStatus]

TypeOK ==
  /\ user \in [Users -> UserRows]
  /\ space \in [Workspaces -> SpaceRows]
  /\ member \in [MemberIds -> MemberRows]
  /\ invite \in [InviteIds -> InviteRows]
  /\ lapsed \in SUBSET InviteIds
  /\ seat \in [MemberIds -> BOOLEAN]

-------------------------------------------------------------------------------
(* Facts commands read. *)

Exists(w) == space[w].state \in {"active", "archived"}
Lifecycle(w) == IF space[w].frozen THEN "frozen" ELSE space[w].state
Writable(w) == space[w].state = "active" /\ ~space[w].frozen

Current(m) == member[m].status \in {"active", "suspended"}
CurrentOf(w, u) == {m \in {w} \X {u} \X Gens : Current(m)}
OwnersOf(w) == {m \in {w} \X Users \X Gens : Current(m) /\ member[m].role = "owner"}

\* Pending in the sense of _revoke_pending_invitations: expiry is not looked at.
PendingOf(w, u) == {i \in {w} \X {u} \X Serials : invite[i].status = "pending"}

FreshMembers(w, u) == {m \in {w} \X {u} \X Gens :
  \A g \in Gens : (member[<<w, u, g>>].status = "unused") <=> (g >= m[3])}
FreshInvites(w, u) == {i \in {w} \X {u} \X Serials :
  \A g \in Serials : (invite[<<w, u, g>>].status = "unused") <=> (g >= i[3])}

\* require_workspace_membership, then require_action.
Authorized(a, w, action, relation) ==
  /\ user[a].active
  /\ Exists(w)
  /\ \E m \in {w} \X {a} \X Gens :
       /\ member[m].status = "active"
       /\ Allowed(member[m].role, action, Lifecycle(w), relation)

\* require_system_action for instance governance.
Governs(a) == user[a].active /\ MayGovernInstance(user[a].role)

-------------------------------------------------------------------------------
(* Row sets: the images of the rows a command writes, table by table. *)

NoRows == [x \in {} |-> {}]
Row(x, image) == [y \in {x} |-> image]
Put(rows, table) ==
  [x \in DOMAIN table |-> IF x \in DOMAIN rows THEN rows[x] ELSE table[x]]

Rows(u, s, m, i, t) ==
  [user |-> u, space |-> s, member |-> m, invite |-> i, seat |-> t]
NoChange == Rows(NoRows, NoRows, NoRows, NoRows, NoRows)

Write(rows) ==
  /\ user' = Put(rows.user, user)
  /\ space' = Put(rows.space, space)
  /\ member' = Put(rows.member, member)
  /\ invite' = Put(rows.invite, invite)
  /\ seat' = Put(rows.seat, seat)
  /\ lapsed' = {i \in lapsed : invite'[i].status = "pending"}

\* _revoke_pending_invitations, all or all but one.
Revoked(ids) == [i \in ids |-> [invite[i] EXCEPT !.status = "revoked"]]

-------------------------------------------------------------------------------
(* Membership commands (membership.py). *)

MaySetRole(a, m, r) ==
  /\ Current(m)
  /\ member[m].role # "owner" /\ r # "owner"
  /\ Authorized(a, m[1], RoleAction(member[m].role, r), MemberRelation(member[m].role))
SetRoleRows(m, r) ==
  Rows(NoRows, NoRows, Row(m, [member[m] EXCEPT !.role = r]), NoRows, NoRows)
SetRole(a, m, r) == MaySetRole(a, m, r) /\ Write(SetRoleRows(m, r))

MaySuspend(a, m) ==
  /\ Current(m)
  /\ member[m].role # "owner"
  /\ Authorized(a, m[1], "workspace_member.suspend", MemberRelation(member[m].role))
SuspendRows(m) ==
  IF member[m].status = "suspended" THEN NoChange
  ELSE Rows(NoRows, NoRows, Row(m, [member[m] EXCEPT !.status = "suspended"]),
            Revoked(PendingOf(m[1], m[2])), NoRows)
Suspend(a, m) == MaySuspend(a, m) /\ Write(SuspendRows(m))

MayReactivate(a, m) ==
  /\ Current(m)
  /\ Authorized(a, m[1], "workspace_member.reactivate", MemberRelation(member[m].role))
ReactivateRows(m) ==
  Rows(NoRows, NoRows, Row(m, [member[m] EXCEPT !.status = "active"]), NoRows, NoRows)
Reactivate(a, m) == MayReactivate(a, m) /\ Write(ReactivateRows(m))

\* _end_membership: selections of exactly this generation go with it.
EndRows(m) ==
  Rows(NoRows, NoRows, Row(m, [member[m] EXCEPT !.status = "ended"]),
       Revoked(PendingOf(m[1], m[2])), Row(m, FALSE))

MayTerminate(a, m) ==
  /\ Current(m)
  /\ member[m].role # "owner"
  /\ Authorized(a, m[1], "workspace_member.terminate", MemberRelation(member[m].role))
Terminate(a, m) == MayTerminate(a, m) /\ Write(EndRows(m))

\* leave_workspace: only the caller's own, submitted generation.
MayLeave(a, m) ==
  /\ m[2] = a
  /\ member[m].status = "active"
  /\ Authorized(a, m[1], "workspace_member.leave", MemberRelation(member[m].role))
Leave(a, m) == MayLeave(a, m) /\ Write(EndRows(m))

\* The current owner row m0 becomes admin, row m becomes an active owner.
\* Mutant: the previous owner is not demoted.
HandOverKeepsOwner(m0, m) ==
  [x \in {m0, m} |-> IF x = m THEN [role |-> "owner", status |-> "active"]
                     ELSE member[m0]]
HandOver(m0, m) ==
  [x \in {m0, m} |-> IF x = m THEN [role |-> "owner", status |-> "active"]
                     ELSE [member[m0] EXCEPT !.role = "admin"]]

MayTransfer(a, m) ==
  /\ member[m].status = "active"
  /\ user[m[2]].active
  /\ Authorized(a, m[1], "workspace_member.transfer_ownership",
                MemberRelation(member[m].role))
  /\ OwnersOf(m[1]) # {}
TransferRows(m) ==
  Rows(NoRows, NoRows, HandOver(CHOOSE o \in OwnersOf(m[1]) : TRUE, m), NoRows, NoRows)
Transfer(a, m) == MayTransfer(a, m) /\ Write(TransferRows(m))

-------------------------------------------------------------------------------
(* Instance governance (governance.py). *)

\* expected is the owner the administrator saw.
MayReassign(a, w, n, expected) ==
  /\ Governs(a)
  /\ user[n].active
  /\ Exists(w) /\ ~space[w].frozen
  /\ \E o \in OwnersOf(w) : member[o].status = "active" /\ o[2] = expected
  /\ CurrentOf(w, n) = {} => FreshMembers(w, n) # {}
\* Mutant: invitations of a User who becomes owner stay open.
ReassignRowsKeepInvites(w, n) ==
  LET owner == CHOOSE o \in OwnersOf(w) : TRUE
      target == CHOOSE m \in (IF CurrentOf(w, n) = {} THEN FreshMembers(w, n)
                              ELSE CurrentOf(w, n)) : TRUE
  IN IF owner[2] = n THEN NoChange
     ELSE Rows(NoRows, NoRows, HandOver(owner, target), NoRows, NoRows)
ReassignRows(w, n) ==
  LET owner == CHOOSE o \in OwnersOf(w) : TRUE
      target == CHOOSE m \in (IF CurrentOf(w, n) = {} THEN FreshMembers(w, n)
                              ELSE CurrentOf(w, n)) : TRUE
  IN IF owner[2] = n THEN NoChange
     ELSE Rows(NoRows, NoRows, HandOver(owner, target),
               IF member[target].status = "active" THEN NoRows
               ELSE Revoked(PendingOf(w, n)), NoRows)
Reassign(a, w, n, expected) ==
  MayReassign(a, w, n, expected) /\ Write(ReassignRows(w, n))

MaySetFrozen(a, w) == Governs(a) /\ Exists(w)
SetFrozenRows(w, b) ==
  Rows(NoRows, Row(w, [space[w] EXCEPT !.frozen = b]), NoRows, NoRows, NoRows)
Freeze(a, w) == MaySetFrozen(a, w) /\ Write(SetFrozenRows(w, TRUE))
Unfreeze(a, w) == MaySetFrozen(a, w) /\ Write(SetFrozenRows(w, FALSE))

-------------------------------------------------------------------------------
(* Lifecycle (lifecycle.py, creation.py). *)

StateRows(w, s) ==
  Rows(NoRows, Row(w, [space[w] EXCEPT !.state = s]), NoRows, NoRows, NoRows)

MayArchive(a, w) == Authorized(a, w, "workspace.archive", "any")
Archive(a, w) == MayArchive(a, w) /\ Write(StateRows(w, "archived"))

MayRestore(a, w) == ~space[w].frozen /\ Authorized(a, w, "workspace.restore", "any")
Restore(a, w) == MayRestore(a, w) /\ Write(StateRows(w, "active"))

MayDelete(a, w) ==
  /\ ~space[w].frozen
  /\ Authorized(a, w, "workspace.delete", "any")
  /\ space[w].state = "archived"
\* The foreign keys cascade from the root to everything the Workspace owns.
DeleteRows(w) ==
  LET own == {w} \X Users \X Gens
      asked == {w} \X Users \X Serials
  IN Rows(NoRows, Row(w, [space[w] EXCEPT !.state = "deleted"]),
          [m \in {x \in own : member[x].status # "unused"} |->
             [member[m] EXCEPT !.status = "gone"]],
          [i \in {x \in asked : invite[x].status # "unused"} |->
             [invite[i] EXCEPT !.status = "gone"]],
          [m \in own |-> FALSE])
Delete(a, w) == MayDelete(a, w) /\ Write(DeleteRows(w))

MayCreate(a, w, o) ==
  /\ space[w].state = "absent"
  /\ user[a].active /\ user[o].active
  /\ MayCreateWorkspace(user[a].role, CreationPolicy)
  /\ CreationPolicy = "members_allowed" => o = a
CreateRows(w, o) ==
  Rows(NoRows, Row(w, [state |-> "active", frozen |-> FALSE]),
       Row(<<w, o, 1>>, [role |-> "owner", status |-> "active"]), NoRows, NoRows)
Create(a, w, o) == MayCreate(a, w, o) /\ Write(CreateRows(w, o))

-------------------------------------------------------------------------------
(* Invitations (invitations.py). *)

MayInvite(a, w, u, r) ==
  /\ r \in InvitationRoles
  /\ user[u].active
  /\ Authorized(a, w, "workspace_invitation.create", MemberRelation(r))
  /\ CurrentOf(w, u) = {}
  /\ FreshInvites(w, u) # {}
InviteRow(a, w, u, r) ==
  LET new == CHOOSE i \in FreshInvites(w, u) : TRUE
  IN Rows(NoRows, NoRows, NoRows,
          [i \in PendingOf(w, u) \cup {new} |->
             IF i = new THEN [role |-> r, by |-> a, status |-> "pending"]
             ELSE [invite[i] EXCEPT !.status = "revoked"]], NoRows)
Invite(a, w, u, r) == MayInvite(a, w, u, r) /\ Write(InviteRow(a, w, u, r))

\* Mutant: the expiry is not checked.
MayAcceptLate(a, i) ==
  /\ i[2] = a
  /\ user[a].active
  /\ Writable(i[1])
  /\ invite[i].status = "pending"
  /\ CurrentOf(i[1], a) = {}
  /\ FreshMembers(i[1], a) # {}
MayAccept(a, i) ==
  /\ i[2] = a
  /\ user[a].active
  /\ Writable(i[1])
  /\ invite[i].status = "pending" /\ i \notin lapsed
  /\ CurrentOf(i[1], a) = {}
  /\ FreshMembers(i[1], a) # {}
AcceptRows(i) ==
  LET new == CHOOSE m \in FreshMembers(i[1], i[2]) : TRUE
  IN Rows(NoRows, NoRows, Row(new, [role |-> invite[i].role, status |-> "active"]),
          [x \in PendingOf(i[1], i[2]) |->
             [invite[x] EXCEPT !.status = IF x = i THEN "accepted" ELSE "revoked"]],
          NoRows)
Accept(a, i) == MayAccept(a, i) /\ Write(AcceptRows(i))

MayRevoke(a, i) ==
  /\ invite[i].status \in {"pending", "revoked"}
  /\ Authorized(a, i[1], "workspace_invitation.revoke", "any")
RevokeRows(i) ==
  IF i \in lapsed THEN NoChange
  ELSE Rows(NoRows, NoRows, NoRows, Revoked({i}), NoRows)
Revoke(a, i) == MayRevoke(a, i) /\ Write(RevokeRows(i))

-------------------------------------------------------------------------------
(* Accounts (administration.py), Project selections and the environment. *)

\* Mutant: an administrator may deactivate their own account.
MaySetActiveSelf(a, u, b) == Governs(a)
MaySetActive(a, u, b) == Governs(a) /\ ~(u = a /\ ~b)
SetActiveRows(u, b) ==
  Rows(Row(u, [user[u] EXCEPT !.active = b]), NoRows, NoRows, NoRows, NoRows)
SetActive(a, u, b) == MaySetActive(a, u, b) /\ Write(SetActiveRows(u, b))

MaySetSystemRole(a, u, r) == Governs(a) /\ ~(u = a /\ r # "administrator")
SetSystemRoleRows(u, r) ==
  Rows(Row(u, [user[u] EXCEPT !.role = r]), NoRows, NoRows, NoRows, NoRows)
SetSystemRole(a, u, r) ==
  MaySetSystemRole(a, u, r) /\ Write(SetSystemRoleRows(u, r))

\* join_project / leave_project on an open Project, the ordinary content write.
SelectAction(b) == IF b THEN "project_participation.join" ELSE "project_participation.leave"
MaySelect(a, m, b) ==
  /\ m[2] = a
  /\ member[m].status = "active"
  /\ Authorized(a, m[1], SelectAction(b), "open")
SelectRows(m, b) == Rows(NoRows, NoRows, NoRows, NoRows, Row(m, b))
Select(a, m, b) == MaySelect(a, m, b) /\ Write(SelectRows(m, b))

\* Time passes an invitation's expires_at.
Lapse(i) ==
  /\ invite[i].status = "pending" /\ i \notin lapsed
  /\ lapsed' = lapsed \cup {i}
  /\ UNCHANGED <<user, space, member, invite, seat>>

\* purge_workspace_history: terminal rows older than the cutoff.
TerminalInvites ==
  {i \in InviteIds : \/ invite[i].status \in {"accepted", "revoked"}
                     \/ invite[i].status = "pending" /\ i \in lapsed}
EndedMembers == {m \in MemberIds : member[m].status = "ended"}
PurgeHistory ==
  \E oldInvites \in SUBSET TerminalInvites, oldMembers \in SUBSET EndedMembers :
     Write(Rows(NoRows, NoRows,
                [m \in oldMembers |-> [member[m] EXCEPT !.status = "gone"]],
                [i \in oldInvites |-> [invite[i] EXCEPT !.status = "gone"]],
                NoRows))

-------------------------------------------------------------------------------
\* Bootstrap leaves at least one administrator.
Init ==
  /\ user \in [Users -> [active : {TRUE}, role : SystemRoles]]
  /\ \E a \in Users : user[a].role = "administrator"
  /\ space = [w \in Workspaces |->
                [state |-> IF Founded(w) THEN "active" ELSE "absent", frozen |-> FALSE]]
  /\ member = [m \in MemberIds |->
       IF m[3] = 1 /\ Roster[m[1]][m[2]] # "none"
       THEN [role |-> Roster[m[1]][m[2]], status |-> "active"]
       ELSE [role |-> "viewer", status |-> "unused"]]
  /\ invite = [i \in InviteIds |-> [role |-> "viewer", by |-> i[2], status |-> "unused"]]
  /\ lapsed = {}
  /\ seat = [m \in MemberIds |-> FALSE]

MemberCommand == \E a \in Users, m \in MemberIds :
  \/ \E r \in AskRoles : SetRole(a, m, r)
  \/ Suspend(a, m)
  \/ Reactivate(a, m)
  \/ Terminate(a, m)
  \/ Leave(a, m)
  \/ Transfer(a, m)
  \/ \E b \in BOOLEAN : Select(a, m, b)

WorkspaceCommand == \E a \in Users, w \in Workspaces :
  \/ \E n, expected \in Users : Reassign(a, w, n, expected)
  \/ Freeze(a, w)
  \/ Unfreeze(a, w)
  \/ Archive(a, w)
  \/ Restore(a, w)
  \/ Delete(a, w)
  \/ \E o \in Users : Create(a, w, o)

InvitationCommand == \E a \in Users :
  \/ \E w \in Workspaces, u \in Users, r \in AskRoles : Invite(a, w, u, r)
  \/ \E i \in InviteIds : Accept(a, i)
  \/ \E i \in InviteIds : Revoke(a, i)

AccountCommand == \E a, u \in Users :
  \/ \E b \in BOOLEAN : SetActive(a, u, b)
  \/ \E r \in SystemRoles : SetSystemRole(a, u, r)

Next ==
  \/ MemberCommand
  \/ WorkspaceCommand
  \/ InvitationCommand
  \/ AccountCommand
  \/ PurgeHistory
  \/ \E i \in InviteIds : Lapse(i)

Spec == Init /\ [][Next]_vars

-------------------------------------------------------------------------------
(* Safety. *)

\* Every Workspace that exists has exactly one current owner membership and it
\* is active, through transfers, reassignments, departures and suspensions
\* (list_workspaces_for_governance raises RuntimeError otherwise).
OneOwner == \A w \in Workspaces : Exists(w) =>
  \E o \in OwnersOf(w) : member[o].status = "active" /\ OwnersOf(w) = {o}

\* A User has at most one current membership generation per Workspace, however
\* often it leaves and is admitted again by invitation or reassignment.
OneMembership == \A m1, m2 \in MemberIds :
  Current(m1) /\ Current(m2) /\ m1[1] = m2[1] /\ m1[2] = m2[2] => m1 = m2

\* A current member, suspended ones included, never holds a pending invitation
\* to the same Workspace: admission, suspension and reassignment revoke them,
\* so no old token can undo a suspension or a removal.
NoInvitedMember == \A i \in InviteIds :
  invite[i].status = "pending" => CurrentOf(i[1], i[2]) = {}

\* A new invitation supersedes the earlier ones of the same recipient.
OnePending == \A i, j \in InviteIds :
  /\ invite[i].status = "pending" /\ invite[j].status = "pending"
  /\ i[1] = j[1] /\ i[2] = j[2]
  => i = j

\* Project selections are only ever held by current memberships: ending a
\* membership, in any way, takes exactly its own selections along.
SeatsOfMembers == \A m \in MemberIds : seat[m] => Current(m)

\* Administrators may demote and deactivate each other but never themselves,
\* so whatever they do the instance keeps an active administrator.
AdministratorRemains == \E a \in Users : Governs(a)

\* No Workspace can be stranded by its owner: unless it is frozen, every
\* active administrator can hand it to every active User.
NeverStranded == \A w \in Workspaces, a, n \in Users :
  /\ Exists(w) /\ ~space[w].frozen /\ Governs(a) /\ user[n].active
  /\ CurrentOf(w, n) \cup FreshMembers(w, n) # {}
  => \E expected \in Users : MayReassign(a, w, n, expected)

\* The memberships of a Workspace agree with each other, with its invitations and
\* selections, and with whoever governs the instance.
MembershipsSound ==
  OneMembership /\ NoInvitedMember /\ OnePending /\ SeatsOfMembers /\ NeverStranded

(* Action properties. *)

\* While a Workspace stays frozen nobody is admitted, removed, promoted or
\* suspended, no invitation opens or closes by a command, no selection moves
\* and the lifecycle state stands; only time and retention go on.
FreezeHolds == [][\A w \in Workspaces : space[w].frozen /\ space[w]'.frozen =>
  /\ space[w]' = space[w]
  /\ \A m \in {w} \X Users \X Gens :
       /\ Current(m) \/ Current(m)' => member[m]' = member[m]
       /\ seat[m]' = seat[m]
  /\ \A i \in {w} \X Users \X Serials :
       invite[i]' # invite[i] => invite[i]'.status = "gone" /\ i \in TerminalInvites]_vars

\* A User without a current membership gets one only by accepting a pending,
\* unexpired invitation while the Workspace is writable, or as its owner by
\* creation or administrative reassignment.
AdmissionIsGranted == [][\A w \in Workspaces, u \in Users :
  CurrentOf(w, u) = {} /\ CurrentOf(w, u)' # {} =>
    \/ OwnersOf(w)' \cap CurrentOf(w, u)' # {}
    \/ /\ Writable(w)
       /\ \E i \in PendingOf(w, u) \ lapsed : invite[i]'.status = "accepted"]_vars

\* A generation that ended, and an invitation that was accepted or revoked,
\* never comes back to life; retention may only remove it.
HistoryIsFinal == [][
  /\ \A m \in MemberIds : member[m].status \in {"ended", "gone"} =>
       member[m]' = member[m] \/ member[m]'.status = "gone"
  /\ \A i \in InviteIds : invite[i].status \in {"accepted", "revoked", "gone"} =>
       invite[i]' = invite[i] \/ invite[i]'.status = "gone"]_vars

\* Memberships and invitations change as their history and a freeze allow.
ChangesStand == FreezeHolds /\ AdmissionIsGranted /\ HistoryIsFinal
===============================================================================
