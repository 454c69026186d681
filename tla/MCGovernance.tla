----------------------------- MODULE MCGovernance -----------------------------
(***************************************************************************)
(* Two accounts and one Workspace, in four scenes.  The commands treat all *)
(* accounts alike, so let 1 be an administrator.  From an empty database   *)
(* "once" runs every command, each account being admitted at most once;    *)
(* "returns" leaves out the account, lifecycle and freeze commands, so     *)
(* that both accounts may leave and be admitted a second time.  In         *)
(* "projects" a Project and its Item go through every command while        *)
(* account 1, an admin, changes role and status and account 2, an editor,  *)
(* leaves and comes back.  In every state of these the pages are compared  *)
(* with the commands.  In "question" each question is put to the policy    *)
(* while the facts it is decided on move.                                  *)
(***************************************************************************)
EXTENDS Directory, AccessRequest

VARIABLE scene

MCUsers == {1, 2}
MCWorkspaces == {1}
MCEmpty == [w \in MCWorkspaces |-> [u \in MCUsers |-> "none"]]
MCAskRoles == {"admin", "viewer"}
MCEngaged == <<"admin", "editor">>
AnyMode == {<<mode>> : mode \in {"workspace", "open", "managed", "none"}}

working == <<within, staff, project, seated, link>>

OnceNext ==
  /\ Next
  /\ \A m \in MemberIds : m[3] > 1 => member'[m] = member[m]
  /\ \A i \in InviteIds : i[3] > 1 => invite'[i] = invite[i]

ReturnsNext ==
  /\ \/ MemberCommand
     \/ InvitationCommand
     \/ Create(1, 1, 1)
     \/ \E a, n, expected \in Users, w \in Workspaces : Reassign(a, w, n, expected)
     \/ PurgeHistory
  /\ \A m \in MemberIds : member'[m] # member[m] => member'[m].role # "viewer"
  /\ \A i \in InviteIds : invite'[i] # invite[i] => invite'[i].role # "viewer"

ProjectsNext ==
  /\ Work!Next
  /\ staff'[<<1, 2>>] = staff[<<1, 2>>]
  /\ staff'[<<1, 1>>].role # "owner"
  /\ \A g \in {1, 2} : staff'[<<2, g>>].role # "editor" => staff'[<<2, g>>] = staff[<<2, g>>]

\* Nobody works in the Projects, and nothing is asked.
Idle ==
  /\ within = "active" /\ seated = {} /\ link = {}
  /\ staff = [m \in Work!MemberIds |-> [role |-> "viewer", status |-> "unused"]]
  /\ project = [p \in Rooms |-> [state |-> "absent", mode |-> "open"]]
Unasked ==
  role = "none" /\ lifecycle = "none" /\ asked = "none" /\ verdict = FALSE

MCInit ==
  /\ Init
  /\ scene \in {"once", "returns", "projects", "question"}
  /\ user[1].role = "administrator"
  /\ scene # "once" => user[2].role = "member"
  /\ IF scene = "projects" THEN Work!Init ELSE Idle
  /\ IF scene = "question" THEN RequestInit ELSE Unasked

MCNext ==
  /\ \/ scene = "once" /\ OnceNext /\ UNCHANGED <<working, requestVars>>
     \/ scene = "returns" /\ ReturnsNext /\ UNCHANGED <<working, requestVars>>
     \/ scene = "projects" /\ ProjectsNext /\ UNCHANGED <<vars, requestVars>>
     \/ scene = "question" /\ RequestNext /\ UNCHANGED <<vars, working>>
  /\ UNCHANGED scene

MCSpec == MCInit /\ [][MCNext]_<<vars, scene, working, requestVars>>
===============================================================================
