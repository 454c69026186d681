----------------------------- MODULE AccessPolicy -----------------------------
(***************************************************************************)
(* The immutable Casbin bundle that decides every Workspace action: the    *)
(* role hierarchy and the grants of access/policy/policy.csv, the matcher  *)
(* of model.conf, and the facts access/workspace_policy.py feeds it (the   *)
(* lifecycle of the Workspace, the relation of the actor to the target).   *)
(*                                                                         *)
(* A grant is a triple <<action, lifecycle, relation>>; an action is the   *)
(* dotted name of ResourceAction.  Casbin's "any" relation is an ordinary  *)
(* value: the matcher compares it, it is no wildcard.                      *)
(***************************************************************************)
EXTENDS Naturals

\* Roles from the least to the most privileged (the "g" rules of policy.csv).
Roles == {"viewer", "reviewer", "editor", "admin", "owner"}
InvitationRoles == Roles \ {"owner"}
SystemRoles == {"member", "administrator"}

Rank == [viewer |-> 1, reviewer |-> 2, editor |-> 3, admin |-> 4, owner |-> 5]

Lifecycles == {"active", "archived", "frozen"}
Relations == {"any", "own", "other", "open", "managed", "workspace",
              "owner", "admin", "member"}

Readable == Lifecycles
Grant(actions, lifecycles, relations) == actions \X lifecycles \X relations

\* "p" rules of policy.csv, one set per subject: what the role adds to the
\* role below it.
ViewerGrants ==
  Grant({"private_annotation.create", "private_annotation.delete",
         "private_annotation.restore", "private_annotation.update",
         "private_annotation_reply.create", "private_annotation_reply.delete",
         "private_annotation_reply.restore",
         "private_annotation_reply.update"}, {"active"}, {"own"})
  \cup Grant({"private_annotation.read"}, Readable, {"own"})
  \cup Grant({"project_annotation.read"}, Readable, {"own", "other"})
  \cup Grant({"project_participation.join", "project_participation.leave"},
             {"active"}, {"open"})
  \cup Grant({"workspace.export", "workspace.read"}, Readable, {"any"})
  \cup Grant({"workspace_member.leave"}, {"active"}, {"admin", "member"})

ReviewerGrants ==
  Grant({"item_discussion.create", "project_discussion.create"},
        {"active"}, {"any"})
  \cup Grant({"item_discussion.delete", "project_discussion.delete",
              "project_annotation.create", "project_annotation.delete",
              "project_annotation.restore", "project_annotation.update",
              "project_annotation_reply.delete",
              "project_annotation_reply.restore",
              "project_annotation_reply.update"}, {"active"}, {"own"})
  \cup Grant({"project_annotation_reply.create"}, {"active"}, {"own", "other"})

EditorGrants ==
  Grant({"citation_style.manage", "file.delete", "file.manage", "item.create",
         "item.update", "project.archive", "project.restore", "project.update",
         "project_item.manage", "tag.create", "tag.use"}, {"active"}, {"any"})
  \cup Grant({"project.create"}, {"active"}, {"open", "workspace"})

AdminGrants ==
  Grant({"item.delete", "project.delete", "tag.manage", "workspace.archive",
         "workspace.update", "workspace_invitation.revoke",
         "workspace_maintenance.run"}, {"active"}, {"any"})
  \cup Grant({"item_discussion.delete", "project_discussion.delete",
              "project_annotation.archive", "project_annotation.delete",
              "project_annotation.hide", "project_annotation.lock",
              "project_annotation.restore", "project_annotation.unlock"},
             {"active"}, {"other"})
  \cup Grant({"project.create", "project_participation.manage"},
             {"active"}, {"managed"})
  \cup Grant({"project_annotation.review", "project_governance.read"},
             Readable, {"any"})
  \cup Grant({"workspace.restore"}, {"archived"}, {"any"})
  \cup Grant({"workspace_invitation.create", "workspace_member.change_role",
              "workspace_member.reactivate", "workspace_member.suspend",
              "workspace_member.terminate"}, {"active"}, {"member"})
  \cup Grant({"workspace_invitation.read", "workspace_membership.read"},
             {"active", "archived"}, {"any"})

OwnerGrants ==
  Grant({"workspace.delete"}, {"archived"}, {"any"})
  \cup Grant({"workspace_invitation.create", "workspace_member.change_role",
              "workspace_member.reactivate", "workspace_member.suspend",
              "workspace_member.terminate"}, {"active"}, {"admin"})
  \cup Grant({"workspace_member.promote"}, {"active"}, {"member"})
  \cup Grant({"workspace_member.transfer_ownership"},
             {"active"}, {"admin", "member"})

Grants == [viewer |-> ViewerGrants, reviewer |-> ReviewerGrants,
           editor |-> EditorGrants, admin |-> AdminGrants,
           owner |-> OwnerGrants]

Inherits(role, base) == Rank[role] >= Rank[base]

\* Mutant: the relation is not matched.
AllowedAnyRelation(role, action, lifecycle, relation) ==
  \E base \in Roles, any \in {relation, "member"} :
    Inherits(role, base) /\ <<action, lifecycle, any>> \in Grants[base]

\* model.conf: g(r.subject, p.subject) and equal resource, action, lifecycle
\* and relation.
Allowed(role, action, lifecycle, relation) ==
  \E base \in Roles : /\ Inherits(role, base)
                      /\ <<action, lifecycle, relation>> \in Grants[base]

\* The actions the policy names, and those ACTION_SPECS marks as reads.
ResourceActions == {g[1] : g \in UNION {Grants[role] : role \in Roles}}
ReadActions ==
  {"workspace.read", "workspace.export", "project_governance.read",
   "workspace_invitation.read", "workspace_membership.read",
   "private_annotation.read", "project_annotation.read",
   "project_annotation.review"}
Mutating(action) == action \notin ReadActions

\* workspace_member_relation: the class of the membership acted upon.
MemberRelation(role) == IF role \in {"owner", "admin"} THEN role ELSE "member"

\* workspace_member_role_action: the authority one role transition needs.
RoleAction(current, requested) ==
  IF requested = "admin" /\ current # "admin"
  THEN "workspace_member.promote" ELSE "workspace_member.change_role"

\* The system policy restricted to what governance asks: administrators hold
\* every instance-governance action, Workspace creation follows the setting.
CreationPolicies == {"admins_only", "members_allowed"}
MayGovernInstance(systemRole) == systemRole = "administrator"
MayCreateWorkspace(systemRole, policy) ==
  policy = "members_allowed" \/ systemRole = "administrator"
===============================================================================
