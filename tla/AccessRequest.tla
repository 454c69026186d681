----------------------------- MODULE AccessRequest -----------------------------
(***************************************************************************)
(* One request against the Workspace policy while the facts it is decided  *)
(* on move: the member's role goes up and down, the Workspace is archived, *)
(* restored, frozen and unfrozen.  "verdict" is what _enforce answers for  *)
(* the request as the facts stand.                                         *)
(***************************************************************************)
EXTENDS AccessPolicy

VARIABLES role, lifecycle, asked, verdict

requestVars == <<role, lifecycle, asked, verdict>>

MemberCommands ==
  {"workspace_invitation.create", "workspace_member.change_role",
   "workspace_member.promote", "workspace_member.suspend",
   "workspace_member.reactivate", "workspace_member.terminate",
   "workspace_member.leave", "workspace_member.transfer_ownership"}

\* ActionSpec.policy_relations: the relations validate_action_relation accepts.
RelationsOf(action) ==
  CASE action \in {"project_participation.join", "project_participation.leave"} -> {"open"}
    [] action = "project_participation.manage" -> {"managed"}
    [] action = "project.create" -> {"open", "managed", "workspace"}
    [] action \in MemberCommands -> {"owner", "admin", "member"}
    [] \E relation \in {"own", "other"}, base \in Roles, state \in Lifecycles :
         <<action, state, relation>> \in Grants[base] -> {"own", "other"}
    [] OTHER -> {"any"}

Questions == {q \in [action : ResourceActions, relation : Relations] :
                q.relation \in RelationsOf(q.action)}

Ask(r, l, q) ==
  /\ role' = r /\ lifecycle' = l /\ asked' = q
  /\ verdict' = Allowed(r, q.action, l, q.relation)

Promote == \E r \in Roles : Inherits(r, role) /\ r # role /\ Ask(r, lifecycle, asked)
Demote == \E r \in Roles : Inherits(role, r) /\ r # role /\ Ask(r, lifecycle, asked)
Move == \E l \in Lifecycles \ {lifecycle} : Ask(role, l, asked)

RequestInit ==
  /\ role \in Roles /\ lifecycle \in Lifecycles /\ asked \in Questions
  /\ verdict = Allowed(role, asked.action, lifecycle, asked.relation)
RequestNext == Promote \/ Demote \/ Move
RequestSpec == RequestInit /\ [][RequestNext]_requestVars

-------------------------------------------------------------------------------
\* A Workspace that is closed stays as it is: frozen, it allows no change to
\* anybody and no read it would refuse when active; archived, it changes only by
\* being restored or deleted.
ClosedStandsStill ==
  verdict /\ lifecycle # "active" =>
    \/ /\ ~Mutating(asked.action)
       /\ Allowed(role, asked.action, "active", asked.relation)
    \/ /\ lifecycle = "archived"
       /\ asked.action \in {"workspace.restore", "workspace.delete"}

\* Commands on another membership reach strictly down the hierarchy: whoever
\* is allowed one outranks every role of the targeted class, and the owner is
\* nobody's target.
AuthorityReachesDown ==
  verdict /\ asked.action \in MemberCommands \ {"workspace_member.leave"} =>
    \A target \in Roles : MemberRelation(target) = asked.relation => Rank[role] > Rank[target]

\* What is granted is sound in every role, lifecycle and relation: the two above.
GrantsSound == ClosedStandsStill /\ AuthorityReachesDown
===============================================================================
