---------------------------- MODULE MCGovernanceTx ----------------------------
(***************************************************************************)
(* Three accounts and one Workspace: 1 owns it, 2 is an admin, 3 a viewer  *)
(* or not a member yet.  A behaviour sends the commands of one family.     *)
(***************************************************************************)
EXTENDS GovernanceTx, TLC

VARIABLE family

MCUsers == {1, 2, 3}
MCWorkspaces == {1}
TwoWorkspaces == {1, 2}
MCStaffed == [w \in MCWorkspaces |-> <<"owner", "admin", "viewer">>]
MCVacant == [w \in TwoWorkspaces |->
  IF w = 1 THEN <<"owner", "admin", "none">> ELSE <<"none", "none", "none">>]
MCAskRoles == {"admin", "viewer"}

OnMember(op, actors, subjects) ==
  {[op |-> op, by |-> a, space |-> 1, user |-> u, row |-> <<1, u, g>>] :
     a \in actors, u \in subjects, g \in Gens}
OnInvitation(op, actors, subjects) ==
  {[op |-> op, by |-> a, space |-> 1, user |-> u, row |-> <<1, u, s>>] :
     a \in actors, u \in subjects, s \in Serials}
OnWorkspace(op, actors) == {[op |-> op, by |-> a, space |-> 1] : a \in actors}

\* Ownership and authority change hands while members act on each other.
HandoverRequests ==
  OnMember("transfer", {1, 2}, {2, 3})
  \cup OnMember("suspend", {1, 2}, {2, 3})
  \cup {[op |-> "reassign", by |-> 1, space |-> 1, user |-> 3, expected |-> e] : e \in {1, 2}}
  \cup {[op |-> "set_active", by |-> 1, user |-> u, on |-> FALSE] : u \in {2, 3}}
  \cup OnMember("leave", {2}, {2})

\* Invitations race acceptance, revocation, suspension, reassignment and the
\* deactivation of either side; account 3 starts outside.
AdmissionRequests ==
  {[op |-> "invite", by |-> a, space |-> 1, user |-> 3, role |-> r] :
     a \in {1, 2}, r \in {"admin", "viewer"}}
  \cup OnInvitation("accept", {3}, {3})
  \cup OnInvitation("revoke", {2}, {3})
  \cup OnMember("suspend", {1}, {3})
  \cup OnMember("reactivate", {1}, {3})
  \cup OnMember("terminate", {2}, {3})
  \cup {[op |-> "reassign", by |-> 1, space |-> 1, user |-> 3, expected |-> 1],
         [op |-> "set_active", by |-> 1, user |-> 3, on |-> FALSE]}

\* Content writers share the root while lifecycle and freeze change it.
ContentRequests ==
  {[op |-> "select", by |-> 3, space |-> 1, user |-> 3, row |-> <<1, 3, g>>, on |-> b] :
     g \in Gens, b \in BOOLEAN}
  \cup OnMember("terminate", {1, 2}, {3})
  \cup OnMember("suspend", {2}, {3})
  \cup OnWorkspace("freeze", {1}) \cup OnWorkspace("unfreeze", {1})
  \cup OnWorkspace("archive", {1, 2}) \cup OnWorkspace("restore", {2})
  \cup OnWorkspace("delete", {1})
  \cup {[op |-> "set_active", by |-> 1, user |-> 3, on |-> b] : b \in BOOLEAN}

\* Account 1 creates Workspace 2 for somebody while invitations and roles move
\* in Workspace 1.
CreationRequests ==
  {[op |-> "create", by |-> 1, space |-> w, user |-> u] : w \in Workspaces \ {1}, u \in {2, 3}}
  \cup {[op |-> "invite", by |-> a, space |-> 1, user |-> 3, role |-> "viewer"] : a \in {1, 2}}
  \cup {[op |-> "set_role", by |-> 1, space |-> 1, row |-> <<1, 2, 1>>, role |-> "viewer"]}

\* Two administrators of the instance turn against each other.
AdministratorRequests ==
  {[op |-> "set_system_role", by |-> a, user |-> u, role |-> r] :
     a \in {1, 2}, u \in {1, 2}, r \in SystemRoles}
  \cup {[op |-> "set_active", by |-> a, user |-> u, on |-> b] :
     a \in {1, 2}, u \in {1, 2}, b \in BOOLEAN}
  \cup {[op |-> "reassign", by |-> 2, space |-> 1, user |-> 3, expected |-> 1]}
  \cup OnWorkspace("freeze", {1}) \cup OnWorkspace("unfreeze", {2})

Families == [
  handover |-> HandoverRequests, content |-> ContentRequests,
  administrators |-> AdministratorRequests,
  admission |-> AdmissionRequests, creation |-> CreationRequests]
MCRequests == UNION {Families[f] : f \in DOMAIN Families}

\* Account 1 administers the instance, and account 2 in the last family.
Starts(families) ==
  /\ TxInit
  /\ family \in families
  /\ LET staff == IF family = "administrators" THEN {1, 2} ELSE {1}
     IN \A u \in Users : user[u].role = IF u \in staff THEN "administrator" ELSE "member"
MCNext ==
  /\ TxNext
  /\ \A p \in Processes : tx'[p].cmd \in Families[family] \cup {NoCommand}
  /\ UNCHANGED family
MCFairness == \A p \in Processes : WF_<<txVars, family>>(Step(p) /\ UNCHANGED family)

CommandsSpec ==
  /\ Starts({"handover", "content", "administrators"})
  /\ [][MCNext]_<<txVars, family>>
AdmissionSpec ==
  /\ Starts({"admission", "creation"})
  /\ [][MCNext]_<<txVars, family>> /\ MCFairness
CreationSpec == Starts({"creation"}) /\ [][MCNext]_<<txVars, family>>

Servers == Permutations(Processes)
===============================================================================
