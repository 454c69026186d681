------------------------------- MODULE Directory -------------------------------
(***************************************************************************)
(* The pages of a Workspace, as functions of the committed tables: which   *)
(* Workspaces, members and invitations a User is shown, and which commands *)
(* the page offers on each (access/projections.py, workspaces/directory.py *)
(* and the reads of invitations.py and governance.py).  The pages decide   *)
(* from their own queries, the commands of Governance from theirs.  Paging,*)
(* searching and sorting only choose what part of an answer is sent.       *)
(***************************************************************************)
EXTENDS Governance, Integers

\* workspace_decisions: what needs no relation, and leaving.
OnWorkspacePage(a, w, action) ==
  \/ Authorized(a, w, action, "any")
  \/ /\ action = "workspace_member.leave"
     /\ \E m \in {w} \X {a} \X Gens :
          /\ member[m].status = "active"
          /\ Authorized(a, w, action, MemberRelation(member[m].role))

\* workspace_invitation_roles: what the caller may invite somebody as.
InvitationRolesOffered(a, w) ==
  {r \in InvitationRoles :
     Authorized(a, w, "workspace_invitation.create", MemberRelation(r))}

\* Mutant: every membership is offered what an active one is.
MemberDecisionsAnyState(a, m) ==
  LET relation == MemberRelation(member[m].role)
      candidates == {"workspace_member.terminate", "workspace_member.suspend",
                     "workspace_member.transfer_ownership"}
  IN {action \in candidates : Authorized(a, m[1], action, relation)}
\* workspace_member_decisions.
MemberDecisions(a, m) ==
  LET relation == MemberRelation(member[m].role)
      candidates == {"workspace_member.terminate"} \cup
        (IF member[m].status = "active"
         THEN {"workspace_member.suspend", "workspace_member.transfer_ownership"}
         ELSE {"workspace_member.reactivate"})
  IN {action \in candidates : Authorized(a, m[1], action, relation)}

\* workspace_member_roles: the roles a member's row offers.
MemberRolesOffered(a, m) ==
  {r \in InvitationRoles \ {member[m].role} :
     /\ member[m].role # "owner" /\ Current(m)
     /\ Authorized(a, m[1], RoleAction(member[m].role, r), MemberRelation(member[m].role))}

-------------------------------------------------------------------------------
(* What is listed. *)

\* list_workspaces, the caller's own.
ListedWorkspaces(a) ==
  {w \in Workspaces : /\ user[a].active /\ Exists(w)
                      /\ \E m \in {w} \X {a} \X Gens : member[m].status = "active"}

\* list_workspace_members, and what governance of the Workspace sees of them.
ListedMembers(a, w) ==
  {m \in {w} \X Users \X Gens : /\ Authorized(a, w, "workspace.read", "any")
                                /\ member[m].status = "active" /\ user[m[2]].active}
GovernedMembers(a, w) ==
  {m \in {w} \X Users \X Gens :
     Authorized(a, w, "workspace_membership.read", "any") /\ Current(m)}

\* _workspace_owners_query: the owner, where exactly one is current and active.
StructuralOwner(w) ==
  {o[2] : o \in {x \in OwnersOf(w) : member[x].status = "active"
                                     /\ \A y \in OwnersOf(w) : y = x}}
\* check_workspace_integrity: the Workspaces reported.
Reported == {w \in Workspaces : Exists(w) /\ StructuralOwner(w) = {}}
\* list_workspaces_for_governance: every Workspace, with its owner.
GovernedWorkspaces(a) ==
  {x \in Workspaces \X Users :
     Governs(a) /\ Exists(x[1]) /\ x[2] \in StructuralOwner(x[1])}

\* list_workspace_invitations.
Unanswered(i) == invite[i].status = "pending" /\ i \notin lapsed
ListedInvitations(a, w) ==
  {i \in {w} \X Users \X Serials :
     Authorized(a, w, "workspace_invitation.read", "any") /\ Unanswered(i)}
\* list_received_workspace_invitations; get_received_workspace_invitation also
\* shows the answered ones, unless the Workspace is gone.
ReceivedInvitations(a) == {i \in InviteIds : i[2] = a /\ user[a].active /\ Unanswered(i)}

\* _received_invitation_views.
CanAccept(a, i) ==
  /\ user[a].active /\ i[2] = a /\ Unanswered(i)
  /\ Writable(i[1]) /\ CurrentOf(i[1], a) = {}
CanOpen(a, i) ==
  /\ user[a].active /\ i[2] = a /\ invite[i].status = "accepted"
  /\ \E m \in CurrentOf(i[1], a) :
       /\ member[m].status = "active"
       /\ Allowed(member[m].role, "workspace.read", Lifecycle(i[1]), "any")

\* get_workspace_invitation_by_token: the page behind the mailed link, which
\* does not know who opens it.
ShownByToken(i) == Unanswered(i) /\ Writable(i[1])

-------------------------------------------------------------------------------
(* The pages and the commands agree. *)

\* A member's row offers exactly the commands that would be accepted and change
\* something; ownership is also offered to a member whose account is inactive.
MemberRowsAgree == \A a \in Users, m \in MemberIds : Current(m) =>
  LET offers == MemberDecisions(a, m) IN
  /\ "workspace_member.terminate" \in offers <=> MayTerminate(a, m)
  /\ "workspace_member.suspend" \in offers
       <=> MaySuspend(a, m) /\ SuspendRows(m) # NoChange
  /\ "workspace_member.reactivate" \in offers
       <=> MayReactivate(a, m) /\ member[m].status = "suspended"
  /\ MayTransfer(a, m)
       <=> "workspace_member.transfer_ownership" \in offers /\ user[m[2]].active
  /\ \A r \in Roles \ {member[m].role} :
       r \in MemberRolesOffered(a, m) <=> MaySetRole(a, m, r)
  /\ m[2] = a => (OnWorkspacePage(a, m[1], "workspace_member.leave") <=> MayLeave(a, m))

\* The recipient's page, the mailed link and the Workspace's list of invitations
\* agree with the commands: what can be accepted is shown as such on each, the
\* link never leads to a refusal, and an answered invitation opens a Workspace
\* its recipient can read.
InvitationPagesAgree == \A i \in InviteIds : LET w == i[1] u == i[2] IN
  /\ MayAccept(u, i) => CanAccept(u, i) /\ i \in ReceivedInvitations(u) /\ ShownByToken(i)
  /\ ShownByToken(i) /\ user[u].active => CanAccept(u, i)
  /\ CanAccept(u, i) /\ FreshMembers(w, u) # {} => MayAccept(u, i)
  /\ CanOpen(u, i) => w \in ListedWorkspaces(u)
  /\ \A a \in Users : OnWorkspacePage(a, w, "workspace_invitation.revoke")
       => \A x \in ListedInvitations(a, w) : MayRevoke(a, x)
  /\ \A a \in Users, r \in InvitationRoles : FreshInvites(w, u) # {} =>
       (MayInvite(a, w, u, r) <=> /\ r \in InvitationRolesOffered(a, w)
                                  /\ user[u].active /\ CurrentOf(w, u) = {})

\* Every Workspace that exists is shown with one owner, to the administrators who
\* govern it and to its members, and the owner shown is the one a reassignment
\* has to name; nobody can open a Workspace it does not list.
OwnersAreShown ==
  /\ Reported = {}
  /\ \A a \in Users :
       /\ Governs(a) => \A w \in Workspaces : Exists(w) => \E o \in Users :
            /\ <<w, o>> \in GovernedWorkspaces(a)
            /\ \A n, expected \in Users : user[n].active /\ ~space[w].frozen
                 /\ CurrentOf(w, n) \cup FreshMembers(w, n) # {}
                 => (MayReassign(a, w, n, expected) <=> expected = o)
       /\ \A w \in Workspaces :
            /\ w \in ListedWorkspaces(a) <=> OnWorkspacePage(a, w, "workspace.read")
            /\ w \in ListedWorkspaces(a) =>
                 \E m \in ListedMembers(a, w) : m[2] = a
            /\ ListedMembers(a, w) # {} /\ GovernedMembers(a, w) # {} =>
                 ListedMembers(a, w) \subseteq GovernedMembers(a, w)

\* A page never offers what its command would refuse for the facts shown, nor
\* hides what it would do.
PagesMeetCommands == MemberRowsAgree /\ InvitationPagesAgree /\ OwnersAreShown

-------------------------------------------------------------------------------
(* Beside them the pages on Projects and Annotations (Offers), over the tables *)
(* of Projects.  The two sets of tables are taken apart: Projects lets the     *)
(* Workspace and its memberships change in any way Governance could.           *)

CONSTANTS Rooms,    \* its Projects
          Shelf,    \* its Items
          Engaged,  \* founding roles in it, "none" where not a member
          Openings  \* as in Projects

ASSUME ShelfAssumption == Shelf \subseteq Int
ASSUME EngagedAssumption == Engaged \in [Users -> Roles \cup {"none"}]
ASSUME OpeningsAssumption ==
  Openings \subseteq [Rooms -> {"workspace", "open", "managed", "none"}]

VARIABLES within,   \* space of Projects: the Workspace's effective lifecycle
          staff,    \* member of Projects
          project,
          seated,   \* seat of Projects
          link

Work == INSTANCE Offers WITH
  space <- within, member <- staff, seat <- seated,
  ProjectIds <- Rooms, Items <- Shelf, AskRoles <- Roles, Roster <- Engaged

\* Every page offers what its commands accept: see Directory and Offers.
PagesHold == PagesMeetCommands /\ Work!OffersStand
===============================================================================
