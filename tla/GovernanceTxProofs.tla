-------------------------- MODULE GovernanceTxProofs --------------------------
(***************************************************************************)
(* The transactions of GovernanceTx implement the atomic commands, and the *)
(* pages of Directory and Offers agree with those, for any number of       *)
(* accounts, Workspaces and server processes and any requests.             *)
(***************************************************************************)
EXTENDS GovernanceTx, GovernanceProofs, FiniteSetTheorems, SequenceTheorems

-------------------------------------------------------------------------------
(* The abstract commands are those of Governance: they read the same tables  *)
(* except for the expiry of invitations.                                     *)

LEMMA AtomicPolicy ==
  /\ Atomic!Roles = Roles /\ Atomic!SystemRoles = SystemRoles
  /\ Atomic!InvitationRoles = InvitationRoles
  /\ \A grade, action, phase, relation :
       Atomic!Allowed(grade, action, phase, relation) <=> Allowed(grade, action, phase, relation)
  /\ \A grade : Atomic!MemberRelation(grade) = MemberRelation(grade)
  /\ \A r, s : Atomic!RoleAction(r, s) = RoleAction(r, s)
  /\ \A r : Atomic!MayGovernInstance(r) <=> MayGovernInstance(r)
  /\ \A r, policy : Atomic!MayCreateWorkspace(r, policy) <=> MayCreateWorkspace(r, policy)
<1>1. Atomic!Roles = Roles BY DEF Atomic!Roles, Roles
<1>2. Atomic!Grants = Grants
  <2>1. \A a, l, r : Atomic!Grant(a, l, r) = Grant(a, l, r) BY DEF Atomic!Grant, Grant
  <2>2. Atomic!Readable = Readable BY DEF Atomic!Readable, Readable, Atomic!Lifecycles, Lifecycles
  <2>3. Atomic!ViewerGrants = ViewerGrants BY <2>1, <2>2 DEF Atomic!ViewerGrants, ViewerGrants
  <2>4. Atomic!ReviewerGrants = ReviewerGrants BY <2>1 DEF Atomic!ReviewerGrants, ReviewerGrants
  <2>5. Atomic!EditorGrants = EditorGrants BY <2>1 DEF Atomic!EditorGrants, EditorGrants
  <2>6. Atomic!AdminGrants = AdminGrants BY <2>1, <2>2 DEF Atomic!AdminGrants, AdminGrants
  <2>7. Atomic!OwnerGrants = OwnerGrants BY <2>1 DEF Atomic!OwnerGrants, OwnerGrants
  <2> QED BY <2>3, <2>4, <2>5, <2>6, <2>7 DEF Atomic!Grants, Grants
<1>3. \A grade, base : Atomic!Inherits(grade, base) <=> Inherits(grade, base)
  BY DEF Atomic!Inherits, Inherits, Atomic!Rank, Rank
<1>4. \A grade, action, phase, relation :
        Atomic!Allowed(grade, action, phase, relation) <=> Allowed(grade, action, phase, relation)
  BY <1>1, <1>2, <1>3 DEF Atomic!Allowed, Allowed
<1> QED
  BY <1>1, <1>4
  DEF Atomic!SystemRoles, SystemRoles, Atomic!InvitationRoles, InvitationRoles,
      Atomic!MemberRelation, MemberRelation, Atomic!RoleAction, RoleAction,
      Atomic!MayGovernInstance, MayGovernInstance, Atomic!MayCreateWorkspace, MayCreateWorkspace

LEMMA AtomicReads ==
  /\ \A w : Atomic!Exists(w) <=> Exists(w)
  /\ \A w : Atomic!Writable(w) <=> Writable(w)
  /\ \A m : Atomic!Current(m) <=> Current(m)
  /\ \A w, u : Atomic!CurrentOf(w, u) = CurrentOf(w, u)
  /\ \A w : Atomic!OwnersOf(w) = OwnersOf(w)
  /\ \A w, u : Atomic!PendingOf(w, u) = PendingOf(w, u)
  /\ \A w, u : Atomic!FreshMembers(w, u) = FreshMembers(w, u)
  /\ \A w, u : Atomic!FreshInvites(w, u) = FreshInvites(w, u)
  /\ \A a : Atomic!Governs(a) <=> Governs(a)
  /\ \A a, w, action, relation :
       Atomic!Authorized(a, w, action, relation) <=> Authorized(a, w, action, relation)
<1>1. Atomic!Gens = Gens /\ Atomic!Serials = Serials
  BY DEF Atomic!Gens, Gens, Atomic!Serials, Serials
<1>2. \A w : (Atomic!Exists(w) <=> Exists(w)) /\ Atomic!Lifecycle(w) = Lifecycle(w)
  BY DEF Atomic!Exists, Exists, Atomic!Lifecycle, Lifecycle
<1>3. \A m : Atomic!Current(m) <=> Current(m) BY DEF Atomic!Current, Current
<1>4. \A w, u : Atomic!CurrentOf(w, u) = CurrentOf(w, u)
  BY <1>1, <1>3 DEF Atomic!CurrentOf, CurrentOf
<1>5. \A w : Atomic!OwnersOf(w) = OwnersOf(w)
  BY <1>1, <1>3 DEF Atomic!OwnersOf, OwnersOf
<1>6. \A w, u : Atomic!PendingOf(w, u) = PendingOf(w, u)
  BY <1>1 DEF Atomic!PendingOf, PendingOf
<1>7. \A w, u : Atomic!FreshMembers(w, u) = FreshMembers(w, u)
  BY <1>1 DEF Atomic!FreshMembers, FreshMembers
<1>8. \A w, u : Atomic!FreshInvites(w, u) = FreshInvites(w, u)
  BY <1>1 DEF Atomic!FreshInvites, FreshInvites
<1>9. \A a : Atomic!Governs(a) <=> Governs(a) BY AtomicPolicy DEF Atomic!Governs, Governs
<1>10. \A a, w, action, relation :
         Atomic!Authorized(a, w, action, relation) <=> Authorized(a, w, action, relation)
  BY <1>1, <1>2, AtomicPolicy DEF Atomic!Authorized, Authorized
<1>11. \A w : Atomic!Writable(w) <=> Writable(w) BY DEF Atomic!Writable, Writable
<1> QED BY <1>2, <1>3, <1>4, <1>5, <1>6, <1>7, <1>8, <1>9, <1>10, <1>11

LEMMA AtomicRows ==
  /\ Atomic!NoRows = NoRows /\ Atomic!NoChange = NoChange
  /\ \A x, image : Atomic!Row(x, image) = Row(x, image)
  /\ \A u, s, m, i, t : Atomic!Rows(u, s, m, i, t) = Rows(u, s, m, i, t)
  /\ \A ids : Atomic!Revoked(ids) = Revoked(ids)
  /\ \A o, t : Atomic!HandOver(o, t) = HandOver(o, t)
BY DEF Atomic!NoRows, NoRows, Atomic!NoChange, NoChange, Atomic!Row, Row, Atomic!Rows, Rows,
       Atomic!Revoked, Revoked, Atomic!HandOver, HandOver

LEMMA AtomicWrite ==
  ASSUME NEW r, Write(r),
         (lapsed \ Carried)' = {i \in lapsed \ Carried : invite'[i].status = "pending"}
  PROVE  Atomic!Write(r)
BY DEF Write, Atomic!Write, Put, Atomic!Put

LEMMA AtomicMembers ==
  /\ \A a, m, r : Atomic!MaySetRole(a, m, r) <=> MaySetRole(a, m, r)
  /\ \A m, r : Atomic!SetRoleRows(m, r) = SetRoleRows(m, r)
  /\ \A a, m : Atomic!MaySuspend(a, m) <=> MaySuspend(a, m)
  /\ \A m : Atomic!SuspendRows(m) = SuspendRows(m)
  /\ \A a, m : Atomic!MayReactivate(a, m) <=> MayReactivate(a, m)
  /\ \A m : Atomic!ReactivateRows(m) = ReactivateRows(m)
  /\ \A a, m : Atomic!MayTerminate(a, m) <=> MayTerminate(a, m)
  /\ \A a, m : Atomic!MayLeave(a, m) <=> MayLeave(a, m)
  /\ \A m : Atomic!EndRows(m) = EndRows(m)
  /\ \A a, m : Atomic!MayTransfer(a, m) <=> MayTransfer(a, m)
  /\ \A m : Atomic!TransferRows(m) = TransferRows(m)
  /\ \A a, m, b : Atomic!MaySelect(a, m, b) <=> MaySelect(a, m, b)
  /\ \A m, b : Atomic!SelectRows(m, b) = SelectRows(m, b)
<1>1. \A a, m, r : Atomic!MaySetRole(a, m, r) <=> MaySetRole(a, m, r)
  BY AtomicReads, AtomicPolicy DEF Atomic!MaySetRole, MaySetRole
<1>2. \A a, m : Atomic!MaySuspend(a, m) <=> MaySuspend(a, m)
  BY AtomicReads, AtomicPolicy DEF Atomic!MaySuspend, MaySuspend
<1>3. \A a, m : Atomic!MayReactivate(a, m) <=> MayReactivate(a, m)
  BY AtomicReads, AtomicPolicy DEF Atomic!MayReactivate, MayReactivate
<1>4. \A a, m : Atomic!MayTerminate(a, m) <=> MayTerminate(a, m)
  BY AtomicReads, AtomicPolicy DEF Atomic!MayTerminate, MayTerminate
<1>5. \A a, m : Atomic!MayLeave(a, m) <=> MayLeave(a, m)
  BY AtomicReads, AtomicPolicy DEF Atomic!MayLeave, MayLeave
<1>6. \A a, m : Atomic!MayTransfer(a, m) <=> MayTransfer(a, m)
  BY AtomicReads, AtomicPolicy DEF Atomic!MayTransfer, MayTransfer
<1>7. \A a, m, b : Atomic!MaySelect(a, m, b) <=> MaySelect(a, m, b)
  BY AtomicReads DEF Atomic!MaySelect, MaySelect, Atomic!SelectAction, SelectAction
<1>8. /\ \A m, r : Atomic!SetRoleRows(m, r) = SetRoleRows(m, r)
      /\ \A m : Atomic!ReactivateRows(m) = ReactivateRows(m)
      /\ \A m, b : Atomic!SelectRows(m, b) = SelectRows(m, b)
  BY AtomicRows DEF Atomic!SetRoleRows, SetRoleRows, Atomic!ReactivateRows, ReactivateRows,
                    Atomic!SelectRows, SelectRows
<1>9. /\ \A m : Atomic!SuspendRows(m) = SuspendRows(m)
      /\ \A m : Atomic!EndRows(m) = EndRows(m)
  BY AtomicRows, AtomicReads DEF Atomic!SuspendRows, SuspendRows, Atomic!EndRows, EndRows
<1>10. \A m : Atomic!TransferRows(m) = TransferRows(m)
  BY AtomicRows, AtomicReads DEF Atomic!TransferRows, TransferRows
<1> QED BY <1>1, <1>2, <1>3, <1>4, <1>5, <1>6, <1>7, <1>8, <1>9, <1>10

LEMMA AtomicRoots ==
  /\ \A a, w, n, expected : Atomic!MayReassign(a, w, n, expected) <=> MayReassign(a, w, n, expected)
  /\ \A w, n : Atomic!ReassignRows(w, n) = ReassignRows(w, n)
  /\ \A a, w : Atomic!MaySetFrozen(a, w) <=> MaySetFrozen(a, w)
  /\ \A w, b : Atomic!SetFrozenRows(w, b) = SetFrozenRows(w, b)
  /\ \A w, s : Atomic!StateRows(w, s) = StateRows(w, s)
  /\ \A a, w : Atomic!MayArchive(a, w) <=> MayArchive(a, w)
  /\ \A a, w : Atomic!MayRestore(a, w) <=> MayRestore(a, w)
  /\ \A a, w : Atomic!MayDelete(a, w) <=> MayDelete(a, w)
  /\ \A w : Atomic!DeleteRows(w) = DeleteRows(w)
  /\ \A a, w, o : Atomic!MayCreate(a, w, o) <=> MayCreate(a, w, o)
  /\ \A w, o : Atomic!CreateRows(w, o) = CreateRows(w, o)
<1>1. \A a, w, n, expected : Atomic!MayReassign(a, w, n, expected) <=> MayReassign(a, w, n, expected)
  BY AtomicReads DEF Atomic!MayReassign, MayReassign
<1>2. ASSUME NEW w, NEW n PROVE Atomic!ReassignRows(w, n) = ReassignRows(w, n)
  <2>1. /\ Atomic!OwnersOf(w) = OwnersOf(w) /\ Atomic!CurrentOf(w, n) = CurrentOf(w, n)
        /\ Atomic!FreshMembers(w, n) = FreshMembers(w, n)
        /\ Atomic!PendingOf(w, n) = PendingOf(w, n)
    BY AtomicReads
  <2> DEFINE o == CHOOSE x \in OwnersOf(w) : TRUE
             t == CHOOSE m \in (IF CurrentOf(w, n) = {} THEN FreshMembers(w, n)
                                ELSE CurrentOf(w, n)) : TRUE
             oA == CHOOSE x \in Atomic!OwnersOf(w) : TRUE
             tA == CHOOSE m \in (IF Atomic!CurrentOf(w, n) = {} THEN Atomic!FreshMembers(w, n)
                                 ELSE Atomic!CurrentOf(w, n)) : TRUE
  <2>2. Atomic!ReassignRows(w, n) =
          IF oA[2] = n THEN Atomic!NoChange
          ELSE Atomic!Rows(Atomic!NoRows, Atomic!NoRows, Atomic!HandOver(oA, tA),
                 IF member[tA].status = "active" THEN Atomic!NoRows
                 ELSE Atomic!Revoked(Atomic!PendingOf(w, n)), Atomic!NoRows)
    BY DEF Atomic!ReassignRows
  <2>o. oA = o BY <2>1
  <2>t. tA = t BY <2>1
  <2>3. ReassignRows(w, n) =
          IF o[2] = n THEN NoChange
          ELSE Rows(NoRows, NoRows, HandOver(o, t),
                 IF member[t].status = "active" THEN NoRows
                 ELSE Revoked(PendingOf(w, n)), NoRows)
    BY DEF ReassignRows
  <2> HIDE DEF o, t, oA, tA
  <2> QED BY <2>1, <2>2, <2>3, <2>o, <2>t, AtomicRows
<1>3. \A a, w : Atomic!MaySetFrozen(a, w) <=> MaySetFrozen(a, w)
  BY AtomicReads DEF Atomic!MaySetFrozen, MaySetFrozen
<1>4. /\ \A w, b : Atomic!SetFrozenRows(w, b) = SetFrozenRows(w, b)
      /\ \A w, s : Atomic!StateRows(w, s) = StateRows(w, s)
      /\ \A w, o : Atomic!CreateRows(w, o) = CreateRows(w, o)
  BY AtomicRows DEF Atomic!SetFrozenRows, SetFrozenRows, Atomic!StateRows, StateRows,
                    Atomic!CreateRows, CreateRows
<1>5. /\ \A a, w : Atomic!MayArchive(a, w) <=> MayArchive(a, w)
      /\ \A a, w : Atomic!MayRestore(a, w) <=> MayRestore(a, w)
      /\ \A a, w : Atomic!MayDelete(a, w) <=> MayDelete(a, w)
  BY AtomicReads DEF Atomic!MayArchive, MayArchive, Atomic!MayRestore, MayRestore,
                     Atomic!MayDelete, MayDelete
<1>6. \A w : Atomic!DeleteRows(w) = DeleteRows(w)
  BY AtomicRows DEF Atomic!DeleteRows, DeleteRows, Atomic!Gens, Gens, Atomic!Serials, Serials
<1>7. \A a, w, o : Atomic!MayCreate(a, w, o) <=> MayCreate(a, w, o)
  BY AtomicPolicy DEF Atomic!MayCreate, MayCreate
<1> QED BY <1>1, <1>2, <1>3, <1>4, <1>5, <1>6, <1>7

LEMMA AtomicInvites ==
  /\ \A a, w, u, r : Atomic!MayInvite(a, w, u, r) <=> MayInvite(a, w, u, r)
  /\ \A a, w, u, r : Atomic!InviteRow(a, w, u, r) = InviteRow(a, w, u, r)
  /\ \A i : Atomic!AcceptRows(i) = AcceptRows(i)
  /\ \A a, i : Atomic!MayRevoke(a, i) <=> MayRevoke(a, i)
<1>1. \A a, w, u, r : Atomic!MayInvite(a, w, u, r) <=> MayInvite(a, w, u, r)
  BY AtomicReads, AtomicPolicy DEF Atomic!MayInvite, MayInvite
<1>2. \A a, w, u, r : Atomic!InviteRow(a, w, u, r) = InviteRow(a, w, u, r)
  BY AtomicReads, AtomicRows DEF Atomic!InviteRow, InviteRow
<1>3. \A i : Atomic!AcceptRows(i) = AcceptRows(i)
  BY AtomicReads, AtomicRows DEF Atomic!AcceptRows, AcceptRows
<1>4. \A a, i : Atomic!MayRevoke(a, i) <=> MayRevoke(a, i)
  BY AtomicReads DEF Atomic!MayRevoke, MayRevoke
<1> QED BY <1>1, <1>2, <1>3, <1>4

LEMMA AtomicAccounts ==
  /\ \A a, u, b : Atomic!MaySetActive(a, u, b) <=> MaySetActive(a, u, b)
  /\ \A u, b : Atomic!SetActiveRows(u, b) = SetActiveRows(u, b)
  /\ \A a, u, r : Atomic!MaySetSystemRole(a, u, r) <=> MaySetSystemRole(a, u, r)
  /\ \A u, r : Atomic!SetSystemRoleRows(u, r) = SetSystemRoleRows(u, r)
BY AtomicReads, AtomicRows
DEF Atomic!MaySetActive, MaySetActive, Atomic!SetActiveRows, SetActiveRows,
    Atomic!MaySetSystemRole, MaySetSystemRole, Atomic!SetSystemRoleRows, SetSystemRoleRows

-------------------------------------------------------------------------------
(* The inductive invariant.  A decision is kept by locks: what a transaction *)
(* has decided on stays true, as whoever could change it needs a lock that   *)
(* conflicts with one it holds, until it commits.                            *)

Locks == [table : {"user", "space"}, row : Users \cup Workspaces, mode : Modes]
Elements(s) == {s[i] : i \in DOMAIN s}
Transaction(p) ==
  [pc |-> tx[p].pc, cmd |-> tx[p].cmd, todo |-> tx[p].todo, held |-> tx[p].held,
   rows |-> tx[p].rows]
TxTypeOK ==
  /\ tx = [p \in Processes |-> Transaction(p)]
  /\ \A p \in Processes :
       /\ tx[p].pc \in {"idle", "lock", "flush"}
       /\ tx[p].pc # "idle" => tx[p].cmd \in Requests
       /\ tx[p].todo \in Seq(Locks)
       /\ tx[p].held \in SUBSET Locks

\* Two processes never hold conflicting locks on a row.
Exclusive == \A p, q \in Processes : p # q =>
  \A g \in tx[p].held, h \in tx[q].held : ~Blocks(g, h)

\* A transaction has or waits for the locks of its plan; once it has decided it
\* has them all.
PlanKept == \A p \in Processes :
  /\ tx[p].pc = "lock" => Elements(Plan(tx[p].cmd)) \subseteq tx[p].held \cup Elements(tx[p].todo)
  /\ tx[p].pc = "flush" => Elements(Plan(tx[p].cmd)) \subseteq tx[p].held

\* A deactivation has or waits for every Workspace of its target, also those its
\* target could have entered since they were listed.
Deactivates(c) == c.op = "set_active" /\ ~c.on
FenceStands == \A p \in Processes :
  tx[p].pc = "flush" /\ Deactivates(tx[p].cmd) =>
    \A w \in Workspaces : CurrentOf(w, tx[p].cmd.user) # {} =>
      OnSpace(w, "U") \in tx[p].held \cup Elements(tx[p].todo)

\* Only pending invitations lapse.
LapsedPending == \A i \in lapsed : Pending(i)

\* The rows are what the command writes in the state the tables are in.
DecidedMember(c, rows) ==
  \/ c.op = "set_role" /\ MaySetRole(c.by, c.row, c.role) /\ rows = SetRoleRows(c.row, c.role)
  \/ c.op = "suspend" /\ MaySuspend(c.by, c.row) /\ rows = SuspendRows(c.row)
  \/ c.op = "reactivate" /\ MayReactivate(c.by, c.row) /\ rows = ReactivateRows(c.row)
  \/ c.op = "terminate" /\ MayTerminate(c.by, c.row) /\ rows = EndRows(c.row)
  \/ c.op = "leave" /\ MayLeave(c.by, c.row) /\ rows = EndRows(c.row)
  \/ c.op = "transfer" /\ MayTransfer(c.by, c.row) /\ rows = TransferRows(c.row)
  \/ c.op = "select" /\ MaySelect(c.by, c.row, c.on) /\ rows = SelectRows(c.row, c.on)
DecidedWorkspace(c, rows) ==
  \/ /\ c.op = "reassign" /\ MayReassign(c.by, c.space, c.user, c.expected)
     /\ rows = ReassignRows(c.space, c.user)
  \/ /\ c.op = "freeze" /\ MaySetFrozen(c.by, c.space)
     /\ rows = SetFrozenRows(c.space, TRUE)
  \/ /\ c.op = "unfreeze" /\ MaySetFrozen(c.by, c.space)
     /\ rows = SetFrozenRows(c.space, FALSE)
  \/ /\ c.op = "archive" /\ MayArchive(c.by, c.space)
     /\ rows = StateRows(c.space, "archived")
  \/ /\ c.op = "restore" /\ MayRestore(c.by, c.space)
     /\ rows = StateRows(c.space, "active")
  \/ c.op = "delete" /\ MayDelete(c.by, c.space) /\ rows = DeleteRows(c.space)
DecidedCreation(c, rows) ==
  c.op = "create" /\ MayCreate(c.by, c.space, c.user) /\ rows = CreateRows(c.space, c.user)
DecidedInvitation(c, rows) ==
  \/ /\ c.op = "invite" /\ MayInvite(c.by, c.space, c.user, c.role)
     /\ rows = InviteRow(c.by, c.space, c.user, c.role)
  \/ c.op = "accept" /\ MayAcceptLate(c.by, c.row) /\ rows = AcceptRows(c.row)
  \/ c.op = "revoke" /\ MayRevoke(c.by, c.row) /\ rows = RevokedRow(c.row)
DecidedAccount(c, rows) ==
  \/ c.op = "set_active" /\ MaySetActive(c.by, c.user, c.on) /\ rows = SetActiveRows(c.user, c.on)
  \/ /\ c.op = "set_system_role" /\ MaySetSystemRole(c.by, c.user, c.role)
     /\ rows = SetSystemRoleRows(c.user, c.role)
Decided(c, rows) ==
  \/ rows = NoChange
  \/ DecidedMember(c, rows)
  \/ DecidedWorkspace(c, rows)
  \/ DecidedCreation(c, rows)
  \/ DecidedInvitation(c, rows)
  \/ DecidedAccount(c, rows)

\* A pending invitation that the rows close was retired meanwhile.
Outdated(rows) == \E i \in DOMAIN rows.invite \cap InviteIds :
  invite[i].status = "gone" /\ rows.invite[i].status # "gone"

DecisionsStand == \A p \in Processes : tx[p].pc = "flush" =>
  Outdated(tx[p].rows) \/ Decided(tx[p].cmd, tx[p].rows)

TxInv ==
  /\ TypeOK /\ TxTypeOK
  /\ Exclusive /\ PlanKept /\ FenceStands /\ LapsedPending /\ DecisionsStand

-------------------------------------------------------------------------------
(* Requests and the locks of their plans. *)

AllOps == MemberOps \cup RootOps \cup AccountOps \cup {"accept", "revoke"}

\* The Users whose rows a command has locked until it ends.
LockedUsers(c) ==
  {u \in Users :
     \/ u = c.by /\ c.op \in {"accept", "freeze", "unfreeze", "reassign", "create"} \cup AccountOps
     \/ u = c.user /\ c.op \in {"transfer", "invite", "reassign", "create"} \cup AccountOps}

\* Requests name Users, Workspaces and rows that belong together.
LEMMA RequestParts ==
  ASSUME NEW c \in Requests
  PROVE  /\ c.op \in AllOps /\ c.by \in Users
         /\ c.op \notin AccountOps => c.space \in Workspaces
         /\ c.op \in MemberOps => c.row \in MemberIds /\ c.row[1] = c.space
         /\ c.op \in {"accept", "revoke"} => c.row \in InviteIds /\ c.row[1] = c.space
         /\ c.op \in {"reassign", "create", "invite"} \cup AccountOps => c.user \in Users
         /\ c.op = "transfer" => c.user \in Users /\ c.user = c.row[2]
<1>1. /\ c.op \in AllOps /\ c.by \in Users
      /\ c.op \in MemberOps => c.row \in MemberIds /\ c.row[1] = c.space
      /\ c.op \in {"accept", "revoke"} => c.row \in InviteIds /\ c.row[1] = c.space
      /\ c.op \in RootOps => c.space \in Workspaces
      /\ c.op \in {"reassign", "create", "invite"} \cup AccountOps => c.user \in Users
      /\ c.op = "transfer" => c.user = c.row[2]
  BY RequestsAssumption DEF AllOps, MemberOps, RootOps, AccountOps
<1>2. c.op \in MemberOps => c.row[1] \in Workspaces /\ c.row[2] \in Users
  BY <1>1, MemberIdParts
<1>3. c.op \in {"accept", "revoke"} => c.row[1] \in Workspaces
  BY <1>1, InviteParts
<1>4. c.op \notin AccountOps => c.space \in Workspaces
  BY <1>1, <1>2, <1>3 DEF AllOps
<1> QED BY <1>1, <1>2, <1>4 DEF MemberOps

LEMMA PairElements == \A a, b : Elements(<<a>>) = {a} /\ Elements(<<a, b>>) = {a, b}
BY DEF Elements

LEMMA JoinElements ==
  ASSUME NEW S, NEW s \in Seq(S), NEW t \in Seq(S)
  PROVE  s \o t \in Seq(S) /\ Elements(s \o t) = Elements(s) \cup Elements(t)
<1>1. /\ s \o t \in Seq(S) /\ Len(s \o t) = Len(s) + Len(t)
      /\ Len(s) \in Nat /\ Len(t) \in Nat
      /\ \A i \in 1..(Len(s) + Len(t)) :
           (s \o t)[i] = IF i <= Len(s) THEN s[i] ELSE t[i - Len(s)]
  OBVIOUS
<1>2. /\ DOMAIN s = 1..Len(s) /\ DOMAIN t = 1..Len(t)
      /\ DOMAIN (s \o t) = 1..(Len(s) + Len(t))
  BY <1>1
<1>3. Elements(s \o t) \subseteq Elements(s) \cup Elements(t)
  <2> SUFFICES ASSUME NEW i \in 1..(Len(s) + Len(t))
               PROVE  (s \o t)[i] \in Elements(s) \cup Elements(t)
    BY <1>2 DEF Elements
  <2>1. CASE i <= Len(s)
    <3>1. i \in 1..Len(s) BY <2>1, <1>1
    <3> QED BY <3>1, <2>1, <1>1, <1>2 DEF Elements
  <2>2. CASE ~(i <= Len(s))
    <3>1. i - Len(s) \in 1..Len(t) BY <2>2, <1>1
    <3> QED BY <3>1, <2>2, <1>1, <1>2 DEF Elements
  <2> QED BY <2>1, <2>2
<1>4. ASSUME NEW i \in 1..Len(s) PROVE s[i] \in Elements(s \o t)
  <2>1. i \in 1..(Len(s) + Len(t)) /\ i <= Len(s) BY <1>1
  <2> QED BY <2>1, <1>1, <1>2 DEF Elements
<1>5. ASSUME NEW i \in 1..Len(t) PROVE t[i] \in Elements(s \o t)
  <2>1. /\ i + Len(s) \in 1..(Len(s) + Len(t)) /\ ~(i + Len(s) <= Len(s))
        /\ (i + Len(s)) - Len(s) = i
    BY <1>1
  <2> QED BY <2>1, <1>1, <1>2 DEF Elements
<1> QED BY <1>1, <1>2, <1>3, <1>4, <1>5 DEF Elements

LEMMA LockType ==
  /\ \A u \in Users, mode \in Modes : OnUser(u, mode) \in Locks
  /\ \A w \in Workspaces, mode \in Modes : OnSpace(w, mode) \in Locks
BY DEF OnUser, OnSpace, Locks

LEMMA OrderedLocks ==
  ASSUME NEW u \in Users, NEW v \in Users, NEW uMode \in Modes, NEW vMode \in Modes
  PROVE  /\ InOrder(u, uMode, v, vMode) \in Seq(Locks)
         /\ OnUser(v, vMode) \in Elements(InOrder(u, uMode, v, vMode))
         /\ u # v => OnUser(u, uMode) \in Elements(InOrder(u, uMode, v, vMode))
BY LockType, PairElements DEF InOrder

\* What the plan of a command locks.
LEMMA PlanLocks ==
  ASSUME NEW c \in Requests
  PROVE  /\ Plan(c) \in Seq(Locks)
         /\ c.op \notin AccountOps \cup {"create", "select"} =>
              OnSpace(c.space, "U") \in Elements(Plan(c))
         /\ c.op = "select" => OnSpace(c.space, "S") \in Elements(Plan(c))
         /\ \A u \in LockedUsers(c) : \E mode \in {"S", "NKU", "U"} :
              OnUser(u, mode) \in Elements(Plan(c))
         /\ c.op \in AccountOps => OnUser(c.user, "NKU") \in Elements(Plan(c))
         /\ c.op = "create" => OnUser(c.by, "U") \in Elements(Plan(c))
<1> {"KS", "S", "NKU", "U"} = Modes BY DEF Modes
<1>0. /\ c.op \in AllOps /\ c.by \in Users
      /\ c.op \notin AccountOps => c.space \in Workspaces
      /\ c.op \in {"reassign", "create", "invite", "transfer"} \cup AccountOps => c.user \in Users
  BY RequestParts
<1>1. CASE c.op \in {"set_role", "suspend", "reactivate", "terminate", "leave",
                     "archive", "restore", "delete", "revoke"}
  <2>1. Plan(c) = <<OnSpace(c.space, "U")>> BY <1>1 DEF Plan, RootOnly
  <2>2. LockedUsers(c) = {} BY <1>1 DEF LockedUsers, AccountOps
  <2>3. c.space \in Workspaces BY <1>0, <1>1 DEF AccountOps
  <2> QED BY <1>1, <2>1, <2>2, <2>3, LockType, PairElements DEF AccountOps
<1>2. CASE c.op = "select"
  <2>1. Plan(c) = <<OnSpace(c.space, "S")>> BY <1>2 DEF Plan, SharedRoot
  <2>2. LockedUsers(c) = {} BY <1>2 DEF LockedUsers, AccountOps
  <2>3. c.space \in Workspaces BY <1>0, <1>2 DEF AccountOps
  <2> QED BY <1>2, <2>1, <2>2, <2>3, LockType, PairElements DEF AccountOps
<1>3. CASE c.op \in {"transfer", "invite"}
  <2>1. Plan(c) = <<OnUser(c.user, "S"), OnSpace(c.space, "U")>> BY <1>3 DEF Plan, UserFirst
  <2>2. LockedUsers(c) \subseteq {c.user} BY <1>3 DEF LockedUsers, AccountOps
  <2>3. c.space \in Workspaces /\ c.user \in Users BY <1>0, <1>3 DEF AccountOps
  <2> QED BY <1>3, <2>1, <2>2, <2>3, LockType, PairElements DEF AccountOps
<1>4. CASE c.op \in {"accept", "freeze", "unfreeze"}
  <2>1. Plan(c) = <<OnUser(c.by, "S"), OnSpace(c.space, "U")>> BY <1>4 DEF Plan, UserFirst
  <2>2. LockedUsers(c) \subseteq {c.by} BY <1>4 DEF LockedUsers, AccountOps
  <2>3. c.space \in Workspaces BY <1>0, <1>4 DEF AccountOps
  <2> QED BY <1>0, <1>4, <2>1, <2>2, <2>3, LockType, PairElements DEF AccountOps
<1>5. CASE c.op = "reassign"
  <2> DEFINE users == InOrder(c.by, "S", c.user, "S")
             root == <<OnSpace(c.space, "U")>>
  <2>1. Plan(c) = users \o root BY <1>5 DEF Plan, RootOnly
  <2>2. LockedUsers(c) \subseteq {c.by, c.user} BY DEF LockedUsers
  <2>3. c.space \in Workspaces /\ c.user \in Users BY <1>0, <1>5 DEF AccountOps
  <2>4. /\ users \in Seq(Locks) /\ OnUser(c.user, "S") \in Elements(users)
        /\ OnUser(c.by, "S") \in Elements(users)
    BY <1>0, <2>3, OrderedLocks
  <2>5. root \in Seq(Locks) /\ Elements(root) = {OnSpace(c.space, "U")}
    BY <2>3, LockType, PairElements
  <2> HIDE DEF users, root
  <2>6. Plan(c) \in Seq(Locks) /\ Elements(Plan(c)) = Elements(users) \cup Elements(root)
    BY <2>1, <2>4, <2>5, JoinElements
  <2> QED BY <1>5, <2>2, <2>4, <2>5, <2>6 DEF AccountOps
<1>6. CASE c.op = "create"
  <2>1. Plan(c) = InOrder(c.by, "U", c.user, "U") BY <1>6 DEF Plan
  <2>2. LockedUsers(c) \subseteq {c.by, c.user} BY DEF LockedUsers
  <2>3. c.user \in Users BY <1>0, <1>6
  <2>4. /\ Plan(c) \in Seq(Locks) /\ OnUser(c.user, "U") \in Elements(Plan(c))
        /\ OnUser(c.by, "U") \in Elements(Plan(c))
    BY <1>0, <2>1, <2>3, OrderedLocks
  <2> QED BY <1>6, <2>2, <2>4 DEF AccountOps
<1>7. CASE c.op \in AccountOps
  <2>1. Plan(c) = InOrder(c.by, "S", c.user, "NKU") BY <1>7 DEF Plan, AccountOps
  <2>2. LockedUsers(c) \subseteq {c.by, c.user} BY DEF LockedUsers
  <2>3. c.user \in Users BY <1>0, <1>7
  <2>4. /\ Plan(c) \in Seq(Locks) /\ OnUser(c.user, "NKU") \in Elements(Plan(c))
        /\ c.by # c.user => OnUser(c.by, "S") \in Elements(Plan(c))
    BY <1>0, <2>1, <2>3, OrderedLocks
  <2> QED BY <1>7, <2>2, <2>4 DEF AccountOps
<1> QED BY <1>0, <1>1, <1>2, <1>3, <1>4, <1>5, <1>6, <1>7 DEF AllOps, MemberOps, RootOps

\* Locks that two transactions cannot both hold.
LEMMA Conflicting ==
  /\ \A u : \A mode \in {"S", "NKU", "U"} : Blocks(OnUser(u, mode), OnUser(u, "NKU"))
  /\ \A w : \A mode \in {"S", "U"} : Blocks(OnSpace(w, mode), OnSpace(w, "U"))
  /\ \A u : Blocks(OnUser(u, "U"), OnUser(u, "U"))
BY DEF Blocks, OnUser, OnSpace, Conflicts, Modes

LEMMA BlocksBothWays == \A g, h \in Locks : Blocks(g, h) <=> Blocks(h, g)
BY DEF Blocks, Conflicts, Locks, Modes

-------------------------------------------------------------------------------
(* Decisions outlive what others may do meanwhile.  Rows of w are settled     *)
(* when they stay or retention removes what has ended.                        *)

Settled(w) ==
  /\ space'[w] = space[w]
  /\ \A m \in MemberIds : m[1] = w =>
       \/ member'[m] = member[m]
       \/ /\ member[m].status = "ended"
          /\ member'[m] = [member[m] EXCEPT !.status = "gone"]
  /\ \A i \in InviteIds : i[1] = w =>
       \/ invite'[i] = invite[i]
       \/ /\ invite[i].status \in {"pending", "accepted", "revoked"}
          /\ invite'[i] = [invite[i] EXCEPT !.status = "gone"]

\* The memberships commands read keep what they read of them.
LEMMA SettledMembers ==
  ASSUME TypeOK, TypeOK', NEW w \in Workspaces, Settled(w), NEW m \in MemberIds, m[1] = w
  PROVE  /\ Current(m)' <=> Current(m)
         /\ Current(m) => member'[m] = member[m]
         /\ member'[m].role = member[m].role
         /\ member'[m].status = "active" <=> member[m].status = "active"
         /\ member'[m].status = "unused" <=> member[m].status = "unused"
         /\ member'[m].status = "suspended" <=> member[m].status = "suspended"
<1>1. member[m] \in MemberRows BY DEF TypeOK
<1>2. CASE member'[m] = member[m] BY <1>2 DEF Current
<1>3. CASE /\ member[m].status = "ended"
           /\ member'[m] = [member[m] EXCEPT !.status = "gone"]
  <2>1. member'[m].status = "gone" /\ member'[m].role = member[m].role
    BY <1>1, <1>3 DEF MemberRows
  <2> QED BY <1>3, <2>1 DEF Current
<1> QED BY <1>2, <1>3 DEF Settled

LEMMA SettledInvites ==
  ASSUME TypeOK, TypeOK', NEW w \in Workspaces, Settled(w), NEW i \in InviteIds, i[1] = w
  PROVE  /\ Pending(i)' => Pending(i)
         /\ invite'[i].status # "gone" => invite'[i] = invite[i]
         /\ invite'[i].status = "unused" <=> invite[i].status = "unused"
         /\ [invite'[i] EXCEPT !.status = "gone"] = [invite[i] EXCEPT !.status = "gone"]
<1>1. invite[i] \in InviteRows BY DEF TypeOK
<1>2. CASE invite'[i] = invite[i] BY <1>2 DEF Pending
<1>3. CASE /\ invite[i].status \in {"pending", "accepted", "revoked"}
           /\ invite'[i] = [invite[i] EXCEPT !.status = "gone"]
  <2>1. /\ invite'[i].status = "gone"
        /\ [invite'[i] EXCEPT !.status = "gone"] = [invite[i] EXCEPT !.status = "gone"]
    BY <1>1, <1>3 DEF InviteRows
  <2> QED BY <1>3, <2>1 DEF Pending
<1> QED BY <1>2, <1>3 DEF Settled

LEMMA SettledReads ==
  ASSUME TypeOK, TypeOK', NEW w \in Workspaces, Settled(w)
  PROVE  /\ Exists(w)' <=> Exists(w)
         /\ Writable(w)' <=> Writable(w)
         /\ Lifecycle(w)' = Lifecycle(w)
         /\ OwnersOf(w)' = OwnersOf(w)
         /\ \A u \in Users : CurrentOf(w, u)' = CurrentOf(w, u)
         /\ \A u \in Users : FreshMembers(w, u)' = FreshMembers(w, u)
         /\ \A u \in Users : FreshInvites(w, u)' = FreshInvites(w, u)
<1>1. (Exists(w)' <=> Exists(w)) /\ (Writable(w)' <=> Writable(w)) /\ Lifecycle(w)' = Lifecycle(w)
  BY DEF Settled, Exists, Writable, Lifecycle
<1>2. \A m \in {w} \X Users \X Gens : /\ Current(m)' <=> Current(m)
                                      /\ member'[m].role = member[m].role
  BY SettledMembers, InSpace
<1>3. OwnersOf(w)' = OwnersOf(w) BY <1>2 DEF OwnersOf
<1>4. ASSUME NEW u \in Users PROVE CurrentOf(w, u)' = CurrentOf(w, u)
  <2>1. \A m \in {w} \X {u} \X Gens : Current(m)' <=> Current(m) BY SettledMembers, InPair
  <2> QED BY <2>1 DEF CurrentOf
<1>5. ASSUME NEW u \in Users PROVE FreshMembers(w, u)' = FreshMembers(w, u)
  <2>1. \A g \in Gens : <<w, u, g>> \in MemberIds /\ <<w, u, g>>[1] = w BY DEF MemberIds
  <2>2. \A g \in Gens : member'[<<w, u, g>>].status = "unused"
                          <=> member[<<w, u, g>>].status = "unused"
    BY <2>1, SettledMembers
  <2> QED BY <2>2 DEF FreshMembers
<1>6. ASSUME NEW u \in Users PROVE FreshInvites(w, u)' = FreshInvites(w, u)
  <2>1. \A g \in Serials : <<w, u, g>> \in InviteIds /\ <<w, u, g>>[1] = w BY DEF InviteIds
  <2>2. \A g \in Serials : invite'[<<w, u, g>>].status = "unused"
                             <=> invite[<<w, u, g>>].status = "unused"
    BY <2>1, SettledInvites
  <2> QED BY <2>2 DEF FreshInvites
<1> QED BY <1>1, <1>3, <1>4, <1>5, <1>6

LEMMA SettledAuthority ==
  ASSUME TypeOK, TypeOK', NEW w \in Workspaces, Settled(w), NEW a \in Users,
         user[a].active => user'[a].active
  PROVE  \A action, relation :
           Authorized(a, w, action, relation) => Authorized(a, w, action, relation)'
<1>1. (Exists(w)' <=> Exists(w)) /\ Lifecycle(w)' = Lifecycle(w) BY SettledReads
<1>2. \A m \in {w} \X {a} \X Gens : /\ member'[m].status = "active" <=> member[m].status = "active"
                                    /\ member'[m].role = member[m].role
  BY SettledMembers, InPair
<1> QED BY <1>1, <1>2 DEF Authorized

LEMMA SettledGovernor ==
  \A a : user'[a] = user[a] => (Governs(a)' <=> Governs(a))
BY DEF Governs

\* Either a pending invitation of the recipient was removed, or they all stand.
LEMMA SettledPending ==
  ASSUME TypeOK, TypeOK', NEW w \in Workspaces, Settled(w), NEW u \in Users
  PROVE  \/ \E i \in PendingOf(w, u) : invite'[i].status = "gone"
         \/ /\ PendingOf(w, u)' = PendingOf(w, u)
            /\ \A i \in PendingOf(w, u) : invite'[i] = invite[i]
<1> SUFFICES ASSUME \A i \in PendingOf(w, u) : invite'[i].status # "gone"
             PROVE  /\ PendingOf(w, u)' = PendingOf(w, u)
                    /\ \A i \in PendingOf(w, u) : invite'[i] = invite[i]
  OBVIOUS
<1>1. \A i \in {w} \X {u} \X Serials : i \in InviteIds /\ i[1] = w BY InPairInvites
<1>2. \A i \in PendingOf(w, u) : invite'[i] = invite[i] BY <1>1, SettledInvites DEF PendingOf
<1>3. \A i \in {w} \X {u} \X Serials :
        invite'[i].status = "pending" <=> invite[i].status = "pending"
  BY <1>1, <1>2, SettledInvites DEF PendingOf, Pending
<1> QED BY <1>2, <1>3 DEF PendingOf

LEMMA RevokedStays ==
  ASSUME NEW ids, \A i \in ids : invite'[i] = invite[i]
  PROVE  Revoked(ids)' = Revoked(ids)
BY DEF Revoked

\* What a command has read stays as it is, or retention has removed some of it.
Undisturbed(c) ==
  /\ c.op \notin AccountOps => Settled(c.space) /\ (user[c.by].active => user'[c.by].active)
  /\ \A u \in LockedUsers(c) : user'[u] = user[u]

LEMMA RevokedOutdated ==
  ASSUME NEW rows, NEW ids, rows.invite = Revoked(ids), NEW i \in ids, i \in InviteIds,
         invite'[i].status = "gone", invite[i] \in InviteRows
  PROVE  Outdated(rows)'
<1>1. DOMAIN rows.invite = ids /\ rows.invite[i] = [invite[i] EXCEPT !.status = "revoked"]
  BY RowsParts
<1>2. rows.invite[i].status = "revoked" BY <1>1 DEF InviteRows
<1> QED BY <1>1, <1>2 DEF Outdated

LEMMA MemberStays ==
  ASSUME TypeOK, TypeOK', NEW c \in Requests, NEW r, r # NoChange, DecidedMember(c, r),
         Undisturbed(c)
  PROVE  DecidedMember(c, r)' \/ Outdated(r)'
<1>0. /\ c.op \in MemberOps /\ c.by \in Users /\ c.row \in MemberIds
      /\ c.row[1] \in Workspaces /\ c.row[2] \in Users /\ c.space = c.row[1]
  BY RequestParts, MemberIdParts DEF DecidedMember, MemberOps, AccountOps
<1>a. Settled(c.row[1]) /\ (user[c.by].active => user'[c.by].active)
  BY <1>0 DEF Undisturbed, MemberOps, AccountOps
<1>b. /\ Current(c.row)' <=> Current(c.row)
      /\ Current(c.row) => member'[c.row] = member[c.row]
      /\ member'[c.row].role = member[c.row].role
      /\ member'[c.row].status = "active" <=> member[c.row].status = "active"
  BY <1>0, <1>a, SettledMembers
<1>c. \A action, relation :
        Authorized(c.by, c.row[1], action, relation) => Authorized(c.by, c.row[1], action, relation)'
  BY <1>0, <1>a, SettledAuthority
<1>d. \/ \E i \in PendingOf(c.row[1], c.row[2]) : invite'[i].status = "gone"
      \/ /\ PendingOf(c.row[1], c.row[2])' = PendingOf(c.row[1], c.row[2])
         /\ Revoked(PendingOf(c.row[1], c.row[2]))' = Revoked(PendingOf(c.row[1], c.row[2]))
  <2>1. CASE \E i \in PendingOf(c.row[1], c.row[2]) : invite'[i].status = "gone" BY <2>1
  <2>2. CASE /\ PendingOf(c.row[1], c.row[2])' = PendingOf(c.row[1], c.row[2])
             /\ \A i \in PendingOf(c.row[1], c.row[2]) : invite'[i] = invite[i]
    BY <2>2 DEF Revoked
  <2> QED BY <1>0, <1>a, <2>1, <2>2, SettledPending
<1>e. \A i \in PendingOf(c.row[1], c.row[2]) : i \in InviteIds /\ invite[i] \in InviteRows
  BY <1>0, PendingType DEF TypeOK
<1>1. CASE c.op = "set_role" /\ MaySetRole(c.by, c.row, c.role) /\ r = SetRoleRows(c.row, c.role)
  <2>1. MaySetRole(c.by, c.row, c.role)' BY <1>1, <1>b, <1>c DEF MaySetRole
  <2>2. SetRoleRows(c.row, c.role)' = SetRoleRows(c.row, c.role)
    BY <1>1, <1>b DEF MaySetRole, SetRoleRows
  <2> QED BY <1>1, <2>1, <2>2 DEF DecidedMember
<1>2. CASE c.op = "suspend" /\ MaySuspend(c.by, c.row) /\ r = SuspendRows(c.row)
  <2>1. MaySuspend(c.by, c.row)' BY <1>2, <1>b, <1>c DEF MaySuspend
  <2>2. /\ member[c.row].status # "suspended" /\ member'[c.row] = member[c.row]
        /\ r.invite = Revoked(PendingOf(c.row[1], c.row[2]))
    BY <1>2, <1>b, RowsParts DEF SuspendRows, MaySuspend
  <2>3. CASE \E i \in PendingOf(c.row[1], c.row[2]) : invite'[i].status = "gone"
    BY <1>e, <2>2, <2>3, RevokedOutdated
  <2>4. CASE Revoked(PendingOf(c.row[1], c.row[2]))' = Revoked(PendingOf(c.row[1], c.row[2]))
    <3>1. SuspendRows(c.row)' = SuspendRows(c.row) BY <2>2, <2>4 DEF SuspendRows
    <3> QED BY <1>2, <2>1, <3>1 DEF DecidedMember
  <2> QED BY <1>d, <2>3, <2>4
<1>3. CASE c.op = "reactivate" /\ MayReactivate(c.by, c.row) /\ r = ReactivateRows(c.row)
  <2>1. MayReactivate(c.by, c.row)' BY <1>3, <1>b, <1>c DEF MayReactivate
  <2>2. ReactivateRows(c.row)' = ReactivateRows(c.row)
    BY <1>3, <1>b DEF MayReactivate, ReactivateRows
  <2> QED BY <1>3, <2>1, <2>2 DEF DecidedMember
<1>4. ASSUME member'[c.row] = member[c.row], r = EndRows(c.row)
      PROVE  Outdated(r)' \/ EndRows(c.row)' = EndRows(c.row)
  <2>1. r.invite = Revoked(PendingOf(c.row[1], c.row[2])) BY <1>4 DEF EndRows, Rows
  <2>2. CASE \E i \in PendingOf(c.row[1], c.row[2]) : invite'[i].status = "gone"
    BY <1>e, <2>1, <2>2, RevokedOutdated
  <2>3. CASE Revoked(PendingOf(c.row[1], c.row[2]))' = Revoked(PendingOf(c.row[1], c.row[2]))
    BY <1>4, <2>3 DEF EndRows
  <2> QED BY <1>d, <2>2, <2>3
<1>5. CASE c.op = "terminate" /\ MayTerminate(c.by, c.row) /\ r = EndRows(c.row)
  <2>1. MayTerminate(c.by, c.row)' BY <1>5, <1>b, <1>c DEF MayTerminate
  <2>2. member'[c.row] = member[c.row] BY <1>5, <1>b DEF MayTerminate
  <2> QED BY <1>4, <1>5, <2>1, <2>2 DEF DecidedMember
<1>6. CASE c.op = "leave" /\ MayLeave(c.by, c.row) /\ r = EndRows(c.row)
  <2>1. MayLeave(c.by, c.row)' BY <1>6, <1>b, <1>c DEF MayLeave
  <2>2. member'[c.row] = member[c.row] BY <1>6, <1>b DEF MayLeave, Current
  <2> QED BY <1>4, <1>6, <2>1, <2>2 DEF DecidedMember
<1>7. CASE c.op = "transfer" /\ MayTransfer(c.by, c.row) /\ r = TransferRows(c.row)
  <2>1. user'[c.row[2]] = user[c.row[2]]
    BY <1>0, <1>7, RequestParts DEF Undisturbed, LockedUsers
  <2>2. OwnersOf(c.row[1])' = OwnersOf(c.row[1]) BY <1>0, <1>a, SettledReads
  <2>3. MayTransfer(c.by, c.row)' BY <1>7, <1>b, <1>c, <2>1, <2>2 DEF MayTransfer
  <2>4. PICK o \in OwnersOf(c.row[1]) : o = CHOOSE x \in OwnersOf(c.row[1]) : TRUE
    BY <1>7, ChosenElement DEF MayTransfer
  <2>5. TransferRows(c.row) = Rows(NoRows, NoRows, HandOver(o, c.row), NoRows, NoRows)
    BY <2>4 DEF TransferRows
  <2>6. TransferRows(c.row)' = Rows(NoRows, NoRows, HandOver(o, c.row)', NoRows, NoRows)
    BY <2>2, <2>4 DEF TransferRows, Rows, NoRows
  <2>7. member'[o] = member[o]
    <3>1. o \in MemberIds /\ o[1] = c.row[1] /\ Current(o) BY <1>0, InSpace DEF OwnersOf
    <3> QED BY <1>0, <1>a, <3>1, SettledMembers
  <2>8. HandOver(o, c.row)' = HandOver(o, c.row) BY <2>7 DEF HandOver
  <2> QED BY <1>7, <2>3, <2>5, <2>6, <2>8 DEF DecidedMember
<1>8. CASE c.op = "select" /\ MaySelect(c.by, c.row, c.on) /\ r = SelectRows(c.row, c.on)
  <2>1. MaySelect(c.by, c.row, c.on)' BY <1>8, <1>b, <1>c DEF MaySelect
  <2>2. SelectRows(c.row, c.on)' = SelectRows(c.row, c.on) BY DEF SelectRows, Rows, NoRows, Row
  <2> QED BY <1>8, <2>1, <2>2 DEF DecidedMember
<1> QED BY <1>1, <1>2, <1>3, <1>5, <1>6, <1>7, <1>8 DEF DecidedMember

LEMMA ReassignStays ==
  ASSUME TypeOK, TypeOK', NEW w \in Workspaces, NEW n \in Users, NEW a \in Users,
         NEW expected, Settled(w), user'[a] = user[a], user'[n] = user[n],
         MayReassign(a, w, n, expected), ReassignRows(w, n) # NoChange
  PROVE  \/ MayReassign(a, w, n, expected)' /\ ReassignRows(w, n)' = ReassignRows(w, n)
         \/ \E i \in PendingOf(w, n) : invite'[i].status = "gone"
                                       /\ ReassignRows(w, n).invite = Revoked(PendingOf(w, n))
<1>1. /\ OwnersOf(w)' = OwnersOf(w) /\ CurrentOf(w, n)' = CurrentOf(w, n)
      /\ FreshMembers(w, n)' = FreshMembers(w, n) /\ (Exists(w)' <=> Exists(w))
  BY SettledReads
<1>2. \A m \in MemberIds : m[1] = w /\ Current(m) => member'[m] = member[m] BY SettledMembers
<1>3. \A o \in OwnersOf(w) : o \in MemberIds /\ o[1] = w /\ Current(o) BY InSpace DEF OwnersOf
<1>4. Governs(a)' <=> Governs(a) BY SettledGovernor
<1>5. MayReassign(a, w, n, expected)'
  BY <1>1, <1>2, <1>3, <1>4 DEF MayReassign, Settled
<1> DEFINE targets == IF CurrentOf(w, n) = {} THEN FreshMembers(w, n) ELSE CurrentOf(w, n)
<1>6. PICK o \in OwnersOf(w) : o = CHOOSE x \in OwnersOf(w) : TRUE
  BY ChosenElement DEF MayReassign
<1>7. PICK t \in targets : t = CHOOSE x \in targets : TRUE
  BY ChosenElement DEF MayReassign
<1>8. o[2] # n /\ ReassignRows(w, n) =
        Rows(NoRows, NoRows, HandOver(o, t),
             IF member[t].status = "active" THEN NoRows ELSE Revoked(PendingOf(w, n)), NoRows)
  BY <1>6, <1>7 DEF ReassignRows
<1>9. targets' = targets BY <1>1
<1>10. ReassignRows(w, n)' =
        Rows(NoRows, NoRows, HandOver(o, t)',
             IF member'[t].status = "active" THEN NoRows ELSE Revoked(PendingOf(w, n))', NoRows)
  <2>1. o = CHOOSE x \in OwnersOf(w)' : TRUE BY <1>1, <1>6
  <2>2. t = CHOOSE x \in targets' : TRUE BY <1>7, <1>9
  <2> QED BY <1>8, <2>1, <2>2 DEF ReassignRows, Rows, NoRows
<1>11. HandOver(o, t)' = HandOver(o, t)
  <2>1. member'[o] = member[o] BY <1>2, <1>3
  <2> QED BY <2>1 DEF HandOver
<1>12. member'[t].status = "active" <=> member[t].status = "active"
  <2>1. t \in {w} \X {n} \X Gens BY DEF FreshMembers, CurrentOf
  <2>2. t \in MemberIds /\ t[1] = w BY <2>1, InPair
  <2> QED BY <2>2, SettledMembers
<1>13. CASE \E i \in PendingOf(w, n) : invite'[i].status = "gone"
  <2>1. CASE member[t].status = "active"
    BY <1>5, <1>8, <1>10, <1>11, <1>12, <2>1
  <2>2. CASE member[t].status # "active"
    <3>1. ReassignRows(w, n).invite = Revoked(PendingOf(w, n)) BY <1>8, <2>2 DEF Rows
    <3> QED BY <1>13, <3>1
  <2> QED BY <2>1, <2>2
<1>14. CASE /\ PendingOf(w, n)' = PendingOf(w, n)
            /\ \A i \in PendingOf(w, n) : invite'[i] = invite[i]
  <2>1. Revoked(PendingOf(w, n))' = Revoked(PendingOf(w, n)) BY <1>14 DEF Revoked
  <2> QED BY <1>5, <1>8, <1>10, <1>11, <1>12, <2>1
<1> QED BY <1>13, <1>14, SettledPending

LEMMA DeleteStays ==
  ASSUME TypeOK, TypeOK', NEW w \in Workspaces, Settled(w)
  PROVE  DeleteRows(w)' = DeleteRows(w)
<1> DEFINE own == {w} \X Users \X Gens
           addressed == {w} \X Users \X Serials
           members == [m \in {x \in own : member[x].status # "unused"} |->
                         [member[m] EXCEPT !.status = "gone"]]
           invites == [i \in {x \in addressed : invite[x].status # "unused"} |->
                         [invite[i] EXCEPT !.status = "gone"]]
<1>1. \A m \in own : /\ member'[m].status = "unused" <=> member[m].status = "unused"
                     /\ [member'[m] EXCEPT !.status = "gone"] = [member[m] EXCEPT !.status = "gone"]
  <2> SUFFICES ASSUME NEW m \in own
               PROVE  /\ member'[m].status = "unused" <=> member[m].status = "unused"
                      /\ [member'[m] EXCEPT !.status = "gone"] = [member[m] EXCEPT !.status = "gone"]
    OBVIOUS
  <2>1. m \in MemberIds /\ m[1] = w BY InSpace
  <2>2. /\ member'[m].status = "unused" <=> member[m].status = "unused"
        /\ member'[m].role = member[m].role
    BY <2>1, SettledMembers
  <2>3. member[m] \in MemberRows /\ member'[m] \in MemberRows BY <2>1 DEF TypeOK
  <2> QED BY <2>2, <2>3 DEF MemberRows
<1>2. \A i \in addressed : /\ invite'[i].status = "unused" <=> invite[i].status = "unused"
                       /\ [invite'[i] EXCEPT !.status = "gone"] = [invite[i] EXCEPT !.status = "gone"]
  <2> SUFFICES ASSUME NEW i \in addressed
               PROVE  /\ invite'[i].status = "unused" <=> invite[i].status = "unused"
                      /\ [invite'[i] EXCEPT !.status = "gone"] = [invite[i] EXCEPT !.status = "gone"]
    OBVIOUS
  <2>1. i \in InviteIds /\ i[1] = w BY InvitesInSpace
  <2> QED BY <2>1, SettledInvites
<1>3. members' = members BY <1>1
<1>4. invites' = invites BY <1>2
<1>5. DeleteRows(w) = Rows(NoRows, Row(w, [space[w] EXCEPT !.state = "deleted"]), members,
                           invites, [m \in own |-> FALSE])
  BY DEF DeleteRows
<1>6. DeleteRows(w)' = Rows(NoRows, Row(w, [space'[w] EXCEPT !.state = "deleted"]), members',
                            invites', [m \in own |-> FALSE])
  BY DEF DeleteRows, Rows, NoRows, Row
<1> HIDE DEF members, invites
<1> QED BY <1>3, <1>4, <1>5, <1>6 DEF Settled

LEMMA WorkspaceStays ==
  ASSUME TypeOK, TypeOK', NEW c \in Requests, NEW r, r # NoChange, DecidedWorkspace(c, r),
         Undisturbed(c)
  PROVE  DecidedWorkspace(c, r)' \/ Outdated(r)'
<1>0. /\ c.op \in RootOps /\ c.by \in Users /\ c.space \in Workspaces
      /\ c.op = "reassign" => c.user \in Users
  BY RequestParts DEF DecidedWorkspace, RootOps, AccountOps
<1>a. Settled(c.space) /\ (user[c.by].active => user'[c.by].active)
  BY <1>0 DEF Undisturbed, RootOps, AccountOps
<1>b. \A action, relation :
        Authorized(c.by, c.space, action, relation) => Authorized(c.by, c.space, action, relation)'
  BY <1>0, <1>a, SettledAuthority
<1>c. space'[c.space] = space[c.space] /\ (Exists(c.space)' <=> Exists(c.space))
  BY <1>0, <1>a, SettledReads DEF Settled
<1>d. /\ \A b : SetFrozenRows(c.space, b)' = SetFrozenRows(c.space, b)
      /\ \A s : StateRows(c.space, s)' = StateRows(c.space, s)
  BY <1>c DEF SetFrozenRows, StateRows, Rows, NoRows, Row
<1>1. CASE c.op = "reassign" /\ MayReassign(c.by, c.space, c.user, c.expected)
           /\ r = ReassignRows(c.space, c.user)
  <2>1. user'[c.by] = user[c.by] /\ user'[c.user] = user[c.user]
    BY <1>0, <1>1 DEF Undisturbed, LockedUsers
  <2>2. \A i \in PendingOf(c.space, c.user) : i \in InviteIds /\ invite[i] \in InviteRows
    BY <1>0, <1>1, PendingType DEF TypeOK
  <2>3. \/ MayReassign(c.by, c.space, c.user, c.expected)'
           /\ ReassignRows(c.space, c.user)' = ReassignRows(c.space, c.user)
        \/ \E i \in PendingOf(c.space, c.user) :
             invite'[i].status = "gone" /\ r.invite = Revoked(PendingOf(c.space, c.user))
    BY <1>0, <1>1, <1>a, <2>1, ReassignStays
  <2>4. CASE MayReassign(c.by, c.space, c.user, c.expected)'
             /\ ReassignRows(c.space, c.user)' = ReassignRows(c.space, c.user)
    BY <1>1, <2>4 DEF DecidedWorkspace
  <2>5. CASE \E i \in PendingOf(c.space, c.user) :
               invite'[i].status = "gone" /\ r.invite = Revoked(PendingOf(c.space, c.user))
    BY <2>2, <2>5, RevokedOutdated
  <2> QED BY <2>3, <2>4, <2>5
<1>2. CASE c.op \in {"freeze", "unfreeze"} /\ MaySetFrozen(c.by, c.space)
  <2>1. user'[c.by] = user[c.by] BY <1>0, <1>2 DEF Undisturbed, LockedUsers
  <2>2. MaySetFrozen(c.by, c.space)' BY <1>2, <1>c, <2>1, SettledGovernor DEF MaySetFrozen
  <2> QED BY <1>2, <1>d, <2>2 DEF DecidedWorkspace
<1>3. CASE c.op = "archive" /\ MayArchive(c.by, c.space)
  <2>1. MayArchive(c.by, c.space)' BY <1>3, <1>b DEF MayArchive
  <2> QED BY <1>3, <1>d, <2>1 DEF DecidedWorkspace
<1>4. CASE c.op = "restore" /\ MayRestore(c.by, c.space)
  <2>1. MayRestore(c.by, c.space)' BY <1>4, <1>b, <1>c DEF MayRestore
  <2> QED BY <1>4, <1>d, <2>1 DEF DecidedWorkspace
<1>5. CASE c.op = "delete" /\ MayDelete(c.by, c.space)
  <2>1. MayDelete(c.by, c.space)' BY <1>5, <1>b, <1>c DEF MayDelete
  <2>2. DeleteRows(c.space)' = DeleteRows(c.space) BY <1>0, <1>a, DeleteStays
  <2> QED BY <1>5, <2>1, <2>2 DEF DecidedWorkspace
<1> QED BY <1>1, <1>2, <1>3, <1>4, <1>5 DEF DecidedWorkspace

LEMMA CreationStays ==
  ASSUME NEW c \in Requests, NEW r, DecidedCreation(c, r), Undisturbed(c)
  PROVE  DecidedCreation(c, r)'
<1>0. c.op = "create" /\ c.by \in Users /\ c.user \in Users
  BY RequestParts DEF DecidedCreation
<1>1. space'[c.space] = space[c.space] BY <1>0 DEF Undisturbed, Settled, AccountOps
<1>2. user'[c.by] = user[c.by] /\ user'[c.user] = user[c.user]
  BY <1>0 DEF Undisturbed, LockedUsers
<1>3. MayCreate(c.by, c.space, c.user)' BY <1>1, <1>2 DEF DecidedCreation, MayCreate
<1>4. CreateRows(c.space, c.user)' = CreateRows(c.space, c.user)
  BY DEF CreateRows, Rows, NoRows, Row
<1> QED BY <1>3, <1>4 DEF DecidedCreation

LEMMA AccountStays ==
  ASSUME NEW c \in Requests, NEW r, DecidedAccount(c, r), Undisturbed(c)
  PROVE  DecidedAccount(c, r)'
<1>0. c.op \in AccountOps /\ c.by \in Users /\ c.user \in Users
  BY RequestParts DEF DecidedAccount, AccountOps
<1>1. user'[c.by] = user[c.by] /\ user'[c.user] = user[c.user]
  BY <1>0 DEF Undisturbed, LockedUsers
<1>2. Governs(c.by)' <=> Governs(c.by) BY <1>1, SettledGovernor
<1>3. /\ \A b : SetActiveRows(c.user, b)' = SetActiveRows(c.user, b)
      /\ \A s : SetSystemRoleRows(c.user, s)' = SetSystemRoleRows(c.user, s)
  BY <1>1 DEF SetActiveRows, SetSystemRoleRows, Rows, NoRows, Row
<1> QED BY <1>2, <1>3 DEF DecidedAccount, MaySetActive, MaySetSystemRole

LEMMA InviteStays ==
  ASSUME TypeOK, TypeOK', NEW w \in Workspaces, NEW u \in Users, NEW a, NEW grade,
         Settled(w), FreshInvites(w, u) # {}, NEW r, r = InviteRow(a, w, u, grade)
  PROVE  r = InviteRow(a, w, u, grade)' \/ Outdated(r)'
<1>1. PICK new \in FreshInvites(w, u) : new = CHOOSE i \in FreshInvites(w, u) : TRUE
  BY ChosenElement
<1>2. new = CHOOSE i \in FreshInvites(w, u)' : TRUE BY <1>1, SettledReads
<1> DEFINE images == [i \in PendingOf(w, u) \cup {new} |->
                        IF i = new THEN [role |-> grade, by |-> a, status |-> "pending"]
                        ELSE [invite[i] EXCEPT !.status = "revoked"]]
<1>3. InviteRow(a, w, u, grade) = Rows(NoRows, NoRows, NoRows, images, NoRows)
  BY <1>1 DEF InviteRow
<1>4. InviteRow(a, w, u, grade)' = Rows(NoRows, NoRows, NoRows, images', NoRows)
  BY <1>2 DEF InviteRow, Rows, NoRows
<1>5. CASE \E i \in PendingOf(w, u) : invite'[i].status = "gone"
  <2>1. PICK i \in PendingOf(w, u) : invite'[i].status = "gone" BY <1>5
  <2>2. i \in InviteIds /\ invite[i] \in InviteRows BY PendingType DEF TypeOK
  <2>3. i # new
    <3>1. new \in {w} \X {u} \X Serials BY DEF FreshInvites
    <3>2. new[3] \in Serials /\ new = <<w, u, new[3]>> BY <3>1
    <3>3. invite[new].status = "unused" BY <3>2, BoundsAssumption DEF FreshInvites, Serials
    <3> QED BY <2>1, <3>3 DEF PendingOf
  <2>4. i \in DOMAIN images /\ images[i].status = "revoked" BY <2>2, <2>3 DEF InviteRows
  <2>5. r.invite = images BY <1>3 DEF Rows
  <2> QED BY <2>1, <2>2, <2>4, <2>5 DEF Outdated
<1>6. CASE /\ PendingOf(w, u)' = PendingOf(w, u)
           /\ \A i \in PendingOf(w, u) : invite'[i] = invite[i]
  <2>1. images' = images BY <1>6
  <2> QED BY <1>3, <1>4, <2>1
<1> QED BY <1>5, <1>6, SettledPending

LEMMA AcceptStays ==
  ASSUME TypeOK, TypeOK', NEW i \in InviteIds, Settled(i[1]), FreshMembers(i[1], i[2]) # {},
         Pending(i), NEW r, r = AcceptRows(i)
  PROVE  \/ Pending(i)' /\ r = AcceptRows(i)'
         \/ Outdated(r)'
<1> DEFINE w == i[1]
           u == i[2]
           images == [x \in PendingOf(w, u) |->
                        [invite[x] EXCEPT !.status = IF x = i THEN "accepted" ELSE "revoked"]]
<1>0. w \in Workspaces /\ u \in Users BY InviteParts
<1>1. PICK new \in FreshMembers(w, u) : new = CHOOSE m \in FreshMembers(w, u) : TRUE
  BY ChosenElement
<1>2. new = CHOOSE m \in FreshMembers(w, u)' : TRUE BY <1>0, <1>1, SettledReads
<1>3. AcceptRows(i) = Rows(NoRows, NoRows, Row(new, [role |-> invite[i].role, status |-> "active"]),
                           images, NoRows)
  BY <1>1 DEF AcceptRows
<1>4. AcceptRows(i)' = Rows(NoRows, NoRows, Row(new, [role |-> invite'[i].role, status |-> "active"]),
                            images', NoRows)
  BY <1>2 DEF AcceptRows, Rows, NoRows, Row
<1>5. CASE \E x \in PendingOf(w, u) : invite'[x].status = "gone"
  <2>1. PICK x \in PendingOf(w, u) : invite'[x].status = "gone" BY <1>5
  <2>2. x \in InviteIds /\ invite[x] \in InviteRows BY <1>0, PendingType DEF TypeOK
  <2>3. x \in DOMAIN images /\ images[x].status # "gone" BY <2>2 DEF InviteRows
  <2>4. r.invite = images BY <1>3 DEF Rows
  <2> QED BY <2>1, <2>2, <2>3, <2>4 DEF Outdated
<1>6. CASE /\ PendingOf(w, u)' = PendingOf(w, u)
           /\ \A x \in PendingOf(w, u) : invite'[x] = invite[x]
  <2>1. images' = images BY <1>6
  <2>2. i \in PendingOf(w, u) BY <1>0, InPairInvites DEF PendingOf, Pending
  <2>3. invite'[i] = invite[i] BY <1>6, <2>2
  <2> HIDE DEF images
  <2> QED BY <1>3, <1>4, <2>1, <2>3 DEF Pending
<1> QED BY <1>0, <1>5, <1>6, SettledPending

LEMMA InvitationStays ==
  ASSUME TypeOK, TypeOK', NEW c \in Requests, NEW r, DecidedInvitation(c, r), Undisturbed(c)
  PROVE  DecidedInvitation(c, r)' \/ Outdated(r)'
<1>0. /\ c.by \in Users /\ c.space \in Workspaces
      /\ c.op = "invite" => c.user \in Users
      /\ c.op \in {"accept", "revoke"} => c.row \in InviteIds /\ c.row[1] = c.space
  BY RequestParts DEF DecidedInvitation, AccountOps
<1>a. Settled(c.space) /\ (user[c.by].active => user'[c.by].active)
  BY DEF DecidedInvitation, Undisturbed, AccountOps
<1>b. \A action, relation :
        Authorized(c.by, c.space, action, relation) => Authorized(c.by, c.space, action, relation)'
  BY <1>0, <1>a, SettledAuthority
<1>c. /\ \A u \in Users : CurrentOf(c.space, u)' = CurrentOf(c.space, u)
      /\ \A u \in Users : FreshMembers(c.space, u)' = FreshMembers(c.space, u)
      /\ \A u \in Users : FreshInvites(c.space, u)' = FreshInvites(c.space, u)
      /\ Writable(c.space)' <=> Writable(c.space)
  BY <1>0, <1>a, SettledReads
<1>1. CASE c.op = "invite" /\ MayInvite(c.by, c.space, c.user, c.role)
           /\ r = InviteRow(c.by, c.space, c.user, c.role)
  <2>1. user'[c.user] = user[c.user] BY <1>0, <1>1 DEF Undisturbed, LockedUsers
  <2>2. MayInvite(c.by, c.space, c.user, c.role)'
    BY <1>0, <1>1, <1>b, <1>c, <2>1 DEF MayInvite
  <2>3. r = InviteRow(c.by, c.space, c.user, c.role)' \/ Outdated(r)'
    BY <1>0, <1>1, <1>a, InviteStays DEF MayInvite
  <2> QED BY <1>1, <2>2, <2>3 DEF DecidedInvitation
<1>2. CASE c.op = "accept" /\ MayAcceptLate(c.by, c.row) /\ r = AcceptRows(c.row)
  <2>1. user'[c.by] = user[c.by] BY <1>0, <1>2 DEF Undisturbed, LockedUsers
  <2>2. /\ c.row[2] = c.by /\ Pending(c.row) /\ FreshMembers(c.row[1], c.row[2]) # {}
    BY <1>2 DEF MayAcceptLate, Pending
  <2>3. \/ Pending(c.row)' /\ r = AcceptRows(c.row)'
        \/ Outdated(r)'
    BY <1>0, <1>2, <1>a, <2>2, AcceptStays
  <2>4. Pending(c.row)' => MayAcceptLate(c.by, c.row)'
    BY <1>0, <1>2, <1>c, <2>1 DEF MayAcceptLate, Pending
  <2> QED BY <1>2, <2>3, <2>4 DEF DecidedInvitation
<1>3. CASE c.op = "revoke" /\ MayRevoke(c.by, c.row) /\ r = RevokedRow(c.row)
  <2>1. invite[c.row] \in InviteRows BY <1>0, <1>3 DEF TypeOK
  <2>2. r.invite = Revoked({c.row}) BY <1>3 DEF RevokedRow, Rows
  <2>3. CASE invite'[c.row].status = "gone"
    BY <1>0, <1>3, <2>1, <2>2, <2>3, RevokedOutdated
  <2>4. CASE invite'[c.row].status # "gone"
    <3>1. invite'[c.row] = invite[c.row] BY <1>0, <1>3, <1>a, <2>4, SettledInvites
    <3>2. MayRevoke(c.by, c.row)' BY <1>0, <1>3, <1>b, <3>1 DEF MayRevoke
    <3>3. RevokedRow(c.row)' = RevokedRow(c.row)
      BY <3>1 DEF RevokedRow, Revoked, Rows, NoRows
    <3> QED BY <1>3, <3>2, <3>3 DEF DecidedInvitation
  <2> QED BY <2>3, <2>4
<1> QED BY <1>1, <1>2, <1>3 DEF DecidedInvitation

\* A decision stands while nothing the command has read is disturbed, or else
\* the transaction is going to fail.
LEMMA DecidedStays ==
  ASSUME TypeOK, TypeOK', NEW c \in Requests, NEW r, Decided(c, r), Undisturbed(c)
  PROVE  Decided(c, r)' \/ Outdated(r)'
<1>1. CASE r = NoChange
  <2>1. NoChange' = NoChange BY DEF NoChange, Rows, NoRows
  <2> QED BY <1>1, <2>1 DEF Decided
<1>2. CASE r # NoChange
  BY <1>2, MemberStays, WorkspaceStays, CreationStays, InvitationStays, AccountStays DEF Decided
<1> QED BY <1>1, <1>2

-------------------------------------------------------------------------------
(* What a commit may change: rows of the command's own Workspace, or the one  *)
(* account of an account command.                                             *)

\* Whoever becomes a current member is a User the command has locked.
Admits(c, r) == \A m \in DOMAIN r.member :
  r.member[m].status \in {"active", "suspended"} => Current(m) \/ m[2] \in LockedUsers(c)

Confined(c, r) ==
  /\ RowsOK(r) /\ Within(r, c.space) /\ r.user = NoRows /\ Admits(c, r)
  /\ IF c.op = "create" THEN space[c.space].state = "absent" ELSE Exists(c.space)
  /\ c.op = "select" => DOMAIN r.space = {} /\ DOMAIN r.member = {} /\ DOMAIN r.invite = {}

LEMMA AuthorizedExists ==
  \A a, w, action, relation : Authorized(a, w, action, relation) => Exists(w)
BY DEF Authorized

LEMMA HandOverRows ==
  ASSUME TypeOK, NEW o \in MemberIds, NEW t \in MemberIds, NEW w \in Workspaces,
         o[1] = w, t[1] = w, NEW closed, \A i \in DOMAIN closed : i[1] = w,
         NEW r, r = Rows(NoRows, NoRows, HandOver(o, t), closed, NoRows)
  PROVE  Within(r, w)
<1>1. /\ DOMAIN r.space = {} /\ DOMAIN r.member = {o, t} /\ DOMAIN r.invite = DOMAIN closed
      /\ DOMAIN r.seat = {}
  BY DEF Rows, NoRows, HandOver
<1> QED BY <1>1 DEF Within

LEMMA MemberConfined ==
  ASSUME TypeOK, NEW c \in Requests, NEW r, r # NoChange, DecidedMember(c, r)
  PROVE  Confined(c, r)
<1>0. /\ c.op \in MemberOps /\ c.row \in MemberIds /\ c.space = c.row[1]
      /\ c.row[1] \in Workspaces /\ c.row[2] \in Users /\ c.op # "create"
  BY RequestParts, MemberIdParts DEF DecidedMember, MemberOps
<1>a. /\ c.op = "set_role" => c.role \in Roles
      /\ c.op = "select" => c.on \in BOOLEAN
  BY RequestsAssumption, AskAssumption
<1>b. /\ \A grade : Within(SetRoleRows(c.row, grade), c.row[1])
      /\ Within(SuspendRows(c.row), c.row[1])
      /\ Within(ReactivateRows(c.row), c.row[1])
      /\ Within(EndRows(c.row), c.row[1])
      /\ \A b : Within(SelectRows(c.row, b), c.row[1])
  BY <1>0, WithinRows
<1>c. /\ \A grade \in Roles : RowsOK(SetRoleRows(c.row, grade))
      /\ RowsOK(SuspendRows(c.row))
      /\ RowsOK(ReactivateRows(c.row))
      /\ RowsOK(EndRows(c.row))
      /\ OwnersOf(c.row[1]) # {} => RowsOK(TransferRows(c.row))
      /\ \A b \in BOOLEAN : RowsOK(SelectRows(c.row, b))
  BY <1>0, MemberCommandRows
<1>1. CASE c.op = "set_role" /\ MaySetRole(c.by, c.row, c.role) /\ r = SetRoleRows(c.row, c.role)
  <2>1. r.user = NoRows /\ DOMAIN r.member = {c.row}
    BY <1>1 DEF SetRoleRows, Rows, Row
  <2>2. Current(c.row) /\ Exists(c.space)
    BY <1>0, <1>1, AuthorizedExists DEF MaySetRole
  <2> QED BY <1>0, <1>1, <1>a, <1>b, <1>c, <2>1, <2>2 DEF Confined, Admits
<1>2. CASE c.op = "suspend" /\ MaySuspend(c.by, c.row) /\ r = SuspendRows(c.row)
  <2>1. r.user = NoRows /\ DOMAIN r.member = {c.row}
    BY <1>2 DEF SuspendRows, Rows, Row
  <2>2. Current(c.row) /\ Exists(c.space)
    BY <1>0, <1>2, AuthorizedExists DEF MaySuspend
  <2> QED BY <1>0, <1>2, <1>b, <1>c, <2>1, <2>2 DEF Confined, Admits
<1>3. CASE c.op = "reactivate" /\ MayReactivate(c.by, c.row) /\ r = ReactivateRows(c.row)
  <2>1. r.user = NoRows /\ DOMAIN r.member = {c.row}
    BY <1>3 DEF ReactivateRows, Rows, Row
  <2>2. Current(c.row) /\ Exists(c.space)
    BY <1>0, <1>3, AuthorizedExists DEF MayReactivate
  <2> QED BY <1>0, <1>3, <1>b, <1>c, <2>1, <2>2 DEF Confined, Admits
<1>4. CASE c.op \in {"terminate", "leave"} /\ r = EndRows(c.row)
           /\ (MayTerminate(c.by, c.row) \/ MayLeave(c.by, c.row))
  <2>1. r.user = NoRows /\ DOMAIN r.member = {c.row}
    BY <1>4 DEF EndRows, Rows, Row
  <2>2. Current(c.row) /\ Exists(c.space)
    BY <1>0, <1>4, AuthorizedExists DEF MayTerminate, MayLeave, Current
  <2> QED BY <1>0, <1>4, <1>b, <1>c, <2>1, <2>2 DEF Confined, Admits
<1>5. CASE c.op = "transfer" /\ MayTransfer(c.by, c.row) /\ r = TransferRows(c.row)
  <2>1. Current(c.row) /\ Exists(c.space) /\ OwnersOf(c.row[1]) # {}
    BY <1>0, <1>5, AuthorizedExists DEF MayTransfer, Current
  <2>2. PICK o \in OwnersOf(c.row[1]) : o = CHOOSE x \in OwnersOf(c.row[1]) : TRUE
    BY <2>1, ChosenElement
  <2>3. o \in MemberIds /\ o[1] = c.row[1] /\ Current(o) BY <1>0, InSpace DEF OwnersOf
  <2>4. r = Rows(NoRows, NoRows, HandOver(o, c.row), NoRows, NoRows)
    BY <1>5, <2>2 DEF TransferRows
  <2>5. Within(r, c.space)
    <3>1. \A i \in DOMAIN NoRows : i[1] = c.row[1] BY DEF NoRows
    <3> QED BY <1>0, <2>3, <2>4, <3>1, HandOverRows
  <2>6. r.user = NoRows /\ DOMAIN r.member = {o, c.row} BY <2>4 DEF Rows, HandOver
  <2> QED BY <1>0, <1>5, <1>c, <2>1, <2>3, <2>5, <2>6 DEF Confined, Admits
<1>6. CASE c.op = "select" /\ MaySelect(c.by, c.row, c.on) /\ r = SelectRows(c.row, c.on)
  <2>1. r.user = NoRows /\ DOMAIN r.member = {} /\ DOMAIN r.space = {} /\ DOMAIN r.invite = {}
    BY <1>6 DEF SelectRows, Rows, NoRows
  <2>2. Exists(c.space) BY <1>0, <1>6, AuthorizedExists DEF MaySelect
  <2> QED BY <1>0, <1>6, <1>a, <1>b, <1>c, <2>1, <2>2 DEF Confined, Admits
<1> QED BY <1>1, <1>2, <1>3, <1>4, <1>5, <1>6 DEF DecidedMember

LEMMA WorkspaceConfined ==
  ASSUME TypeOK, NEW c \in Requests, NEW r, r # NoChange, DecidedWorkspace(c, r)
  PROVE  Confined(c, r)
<1>0. /\ c.op \in RootOps /\ c.space \in Workspaces /\ c.op \notin {"create", "select"}
      /\ c.op = "reassign" => c.user \in Users
  BY RequestParts DEF DecidedWorkspace, RootOps, AccountOps
<1>a. /\ \A b : Within(SetFrozenRows(c.space, b), c.space)
      /\ \A s : Within(StateRows(c.space, s), c.space)
      /\ Within(DeleteRows(c.space), c.space)
  BY <1>0, WithinRows
<1>b. /\ \A b \in BOOLEAN : RowsOK(SetFrozenRows(c.space, b))
      /\ \A s \in SpaceStates : RowsOK(StateRows(c.space, s))
      /\ RowsOK(DeleteRows(c.space))
  BY <1>0, SpaceCommandRows
<1>1. CASE c.op = "reassign" /\ MayReassign(c.by, c.space, c.user, c.expected)
           /\ r = ReassignRows(c.space, c.user)
  <2> DEFINE w == c.space
             n == c.user
             targets == IF CurrentOf(w, n) = {} THEN FreshMembers(w, n) ELSE CurrentOf(w, n)
  <2>0. Exists(w) /\ OwnersOf(w) # {} /\ targets # {} /\ n \in Users
        /\ (CurrentOf(w, n) = {} => FreshMembers(w, n) # {})
    BY <1>0, <1>1 DEF MayReassign
  <2>1. PICK o \in OwnersOf(w) : o = CHOOSE x \in OwnersOf(w) : TRUE BY <2>0, ChosenElement
  <2>2. PICK t \in targets : t = CHOOSE x \in targets : TRUE BY <2>0, ChosenElement
  <2>3. o \in MemberIds /\ o[1] = w /\ Current(o) BY <1>0, InSpace DEF OwnersOf
  <2>4. t \in MemberIds /\ t[1] = w /\ t[2] = n
    BY <1>0, <2>0, InPair DEF FreshMembers, CurrentOf
  <2> DEFINE closed == IF member[t].status = "active" THEN NoRows ELSE Revoked(PendingOf(w, n))
  <2>5. r = Rows(NoRows, NoRows, HandOver(o, t), closed, NoRows)
    BY <1>1, <2>1, <2>2 DEF ReassignRows
  <2>6. \A i \in DOMAIN closed : i[1] = w
    BY <1>0, <2>0, InPairInvites, RowsParts DEF PendingOf
  <2> HIDE DEF closed
  <2>7. Within(r, w) BY <1>0, <2>3, <2>4, <2>5, <2>6, HandOverRows
  <2>8. r.user = NoRows /\ DOMAIN r.member = {o, t} BY <2>5 DEF Rows, HandOver
  <2>9. n \in LockedUsers(c) BY <1>1, <2>0 DEF LockedUsers
  <2>10. RowsOK(r) BY <1>0, <1>1, <2>0, ReassignRowTypes
  <2> QED BY <1>0, <2>0, <2>3, <2>4, <2>7, <2>8, <2>9, <2>10 DEF Confined, Admits
<1>2. CASE c.op \in {"freeze", "unfreeze"} /\ MaySetFrozen(c.by, c.space)
           /\ \E b \in BOOLEAN : r = SetFrozenRows(c.space, b)
  <2>1. r.user = NoRows /\ DOMAIN r.member = {} BY <1>2 DEF SetFrozenRows, Rows, NoRows
  <2> QED BY <1>0, <1>2, <1>a, <1>b, <2>1 DEF Confined, Admits, MaySetFrozen
<1>3. CASE c.op \in {"archive", "restore"} /\ (MayArchive(c.by, c.space) \/ MayRestore(c.by, c.space))
           /\ \E s \in {"archived", "active"} : r = StateRows(c.space, s)
  <2>1. r.user = NoRows /\ DOMAIN r.member = {} BY <1>3 DEF StateRows, Rows, NoRows
  <2>2. Exists(c.space) BY <1>3, AuthorizedExists DEF MayArchive, MayRestore
  <2>3. RowsOK(r) /\ Within(r, c.space) BY <1>3, <1>a, <1>b DEF SpaceStates
  <2> QED BY <1>0, <2>1, <2>2, <2>3 DEF Confined, Admits
<1>4. CASE c.op = "delete" /\ MayDelete(c.by, c.space) /\ r = DeleteRows(c.space)
  <2>1. r.user = NoRows
        /\ \A m \in DOMAIN r.member : m \in MemberIds /\ r.member[m] = [member[m] EXCEPT !.status = "gone"]
    BY <1>0, <1>4, InSpace DEF DeleteRows, Rows
  <2>2. ASSUME NEW m \in DOMAIN r.member PROVE r.member[m].status = "gone"
    <3>1. member[m] \in MemberRows BY <2>1 DEF TypeOK
    <3> QED BY <2>1, <3>1 DEF MemberRows
  <2>3. Exists(c.space) BY <1>4, AuthorizedExists DEF MayDelete
  <2> QED BY <1>0, <1>4, <1>a, <1>b, <2>1, <2>2, <2>3 DEF Confined, Admits
<1> QED BY <1>1, <1>2, <1>3, <1>4 DEF DecidedWorkspace

LEMMA CreationConfined ==
  ASSUME TypeOK, NEW c \in Requests, NEW r, DecidedCreation(c, r)
  PROVE  Confined(c, r)
<1>0. c.op = "create" /\ c.space \in Workspaces /\ c.user \in Users
  BY RequestParts DEF DecidedCreation, AccountOps
<1>1. Within(r, c.space) /\ RowsOK(r)
  BY <1>0, WithinRows, SpaceCommandRows DEF DecidedCreation
<1>2. r.user = NoRows /\ DOMAIN r.member = {<<c.space, c.user, 1>>}
  BY DEF DecidedCreation, CreateRows, Rows, Row
<1>3. c.user \in LockedUsers(c) BY <1>0 DEF LockedUsers
<1> QED BY <1>0, <1>1, <1>2, <1>3 DEF Confined, Admits, DecidedCreation, MayCreate

LEMMA InvitationConfined ==
  ASSUME TypeOK, NEW c \in Requests, NEW r, DecidedInvitation(c, r)
  PROVE  Confined(c, r)
<1>0. /\ c.by \in Users /\ c.space \in Workspaces /\ c.op \notin {"create", "select"}
      /\ c.op = "invite" => c.user \in Users
      /\ c.op \in {"accept", "revoke"} => c.row \in InviteIds /\ c.row[1] = c.space
  BY RequestParts DEF DecidedInvitation, AccountOps
<1>1. CASE c.op = "invite" /\ MayInvite(c.by, c.space, c.user, c.role)
           /\ r = InviteRow(c.by, c.space, c.user, c.role)
  <2>1. RowsOK(r) /\ Exists(c.space)
    BY <1>0, <1>1, InviteRowTypes, AuthorizedExists DEF MayInvite
  <2>2. PICK new \in FreshInvites(c.space, c.user) :
          new = CHOOSE i \in FreshInvites(c.space, c.user) : TRUE
    BY <1>1, ChosenElement DEF MayInvite
  <2>3. /\ r.user = NoRows /\ DOMAIN r.space = {} /\ DOMAIN r.member = {} /\ DOMAIN r.seat = {}
        /\ DOMAIN r.invite = PendingOf(c.space, c.user) \cup {new}
    BY <1>1, <2>2 DEF InviteRow, Rows, NoRows
  <2>4. \A i \in DOMAIN r.invite : i[1] = c.space
    BY <1>0, <1>1, <2>3, InPairInvites DEF PendingOf, FreshInvites
  <2> QED BY <1>0, <2>1, <2>3, <2>4 DEF Confined, Admits, Within
<1>2. CASE c.op = "accept" /\ MayAcceptLate(c.by, c.row) /\ r = AcceptRows(c.row)
  <2>0. /\ c.row[2] = c.by /\ FreshMembers(c.row[1], c.row[2]) # {} /\ Exists(c.space)
    BY <1>0, <1>2 DEF MayAcceptLate, Writable, Exists
  <2>1. PICK new \in FreshMembers(c.row[1], c.row[2]) :
          new = CHOOSE m \in FreshMembers(c.row[1], c.row[2]) : TRUE
    BY <2>0, ChosenElement
  <2>2. /\ r.user = NoRows /\ DOMAIN r.space = {} /\ DOMAIN r.member = {new} /\ DOMAIN r.seat = {}
        /\ DOMAIN r.invite = PendingOf(c.row[1], c.row[2])
    BY <1>2, <2>1 DEF AcceptRows, Rows, NoRows, Row
  <2>3. new[1] = c.space /\ new[2] = c.by
    BY <1>0, <1>2, <2>0, InPair DEF FreshMembers
  <2>4. \A i \in DOMAIN r.invite : i[1] = c.space
    BY <1>0, <1>2, <2>0, <2>2, InPairInvites DEF PendingOf
  <2>5. RowsOK(r) BY <1>0, <1>2, <2>0, AcceptRowTypes
  <2>6. c.by \in LockedUsers(c) BY <1>0, <1>2 DEF LockedUsers
  <2> QED BY <1>0, <2>0, <2>2, <2>3, <2>4, <2>5, <2>6 DEF Confined, Admits, Within
<1>3. CASE c.op = "revoke" /\ MayRevoke(c.by, c.row) /\ r = RevokedRow(c.row)
  <2>1. /\ r.user = NoRows /\ DOMAIN r.space = {} /\ DOMAIN r.member = {} /\ DOMAIN r.seat = {}
        /\ DOMAIN r.invite = {c.row}
    BY <1>3 DEF RevokedRow, Rows, NoRows, Revoked
  <2>2. RowsOK(r)
    <3>1. {c.row} \in SUBSET InviteIds BY <1>0, <1>3
    <3> QED BY <1>3, <3>1, RevokedImages, NoRowsImages, MembershipRows DEF RevokedRow
  <2>3. Exists(c.space) BY <1>0, <1>3, AuthorizedExists DEF MayRevoke
  <2> QED BY <1>0, <1>3, <2>1, <2>2, <2>3 DEF Confined, Admits, Within
<1> QED BY <1>1, <1>2, <1>3 DEF DecidedInvitation

LEMMA AccountRowsOK ==
  ASSUME TypeOK, NEW c \in Requests, NEW r, DecidedAccount(c, r)
  PROVE  /\ RowsOK(r) /\ DOMAIN r.user = {c.user} /\ c.user \in Users
         /\ r.space = NoRows /\ r.member = NoRows /\ r.invite = NoRows /\ r.seat = NoRows
         /\ ~Deactivates(c) => (user[c.user].active => r.user[c.user].active)
<1>0. /\ c.op \in AccountOps /\ c.user \in Users
      /\ c.op = "set_active" => c.on \in BOOLEAN
      /\ c.op = "set_system_role" => c.role \in SystemRoles
  BY RequestParts, RequestsAssumption DEF DecidedAccount, AccountOps
<1>1. user[c.user] \in UserRows BY <1>0 DEF TypeOK
<1>2. CASE c.op = "set_active" /\ r = SetActiveRows(c.user, c.on)
  <2>1. RowsOK(r) BY <1>0, <1>2, AccountCommandRows
  <2>2. /\ DOMAIN r.user = {c.user} /\ r.user[c.user] = [user[c.user] EXCEPT !.active = c.on]
        /\ r.space = NoRows /\ r.member = NoRows /\ r.invite = NoRows /\ r.seat = NoRows
    BY <1>2 DEF SetActiveRows, Rows, Row
  <2>3. r.user[c.user].active = c.on BY <1>1, <2>2 DEF UserRows
  <2> QED BY <1>0, <1>2, <2>1, <2>2, <2>3 DEF Deactivates
<1>3. CASE c.op = "set_system_role" /\ r = SetSystemRoleRows(c.user, c.role)
  <2>1. RowsOK(r) BY <1>0, <1>3, AccountCommandRows
  <2>2. /\ DOMAIN r.user = {c.user} /\ r.user[c.user] = [user[c.user] EXCEPT !.role = c.role]
        /\ r.space = NoRows /\ r.member = NoRows /\ r.invite = NoRows /\ r.seat = NoRows
    BY <1>3 DEF SetSystemRoleRows, Rows, Row
  <2>3. r.user[c.user].active = user[c.user].active BY <1>1, <2>2 DEF UserRows
  <2> QED BY <1>0, <2>1, <2>2, <2>3
<1> QED BY <1>2, <1>3 DEF DecidedAccount

\* A commit changes users and memberships only so far.
Bounded(c) ==
  /\ c.op \notin AccountOps => user' = user /\ \A w \in Workspaces : w # c.space => Settled(w)
  /\ c.op \in AccountOps \cup {"select"} => \A w \in Workspaces : Settled(w)
  /\ c.op \in AccountOps => \A u \in Users : u # c.user => user'[u] = user[u]
  /\ ~Deactivates(c) => \A u \in Users : user[u].active => user'[u].active
  /\ \A w \in Workspaces, u \in Users :
       CurrentOf(w, u) = {} /\ CurrentOf(w, u)' # {} => u \in LockedUsers(c)

LEMMA NothingWritten ==
  ASSUME TypeOK, Write(NoChange)
  PROVE  UNCHANGED <<user, space, member, invite, seat>>
BY PutNothing DEF Write, NoChange, Rows, TypeOK

LEMMA UnchangedIsSettled ==
  ASSUME space' = space, member' = member, invite' = invite
  PROVE  /\ \A w : Settled(w)
         /\ \A w, u : CurrentOf(w, u)' = CurrentOf(w, u)
BY DEF Settled, CurrentOf, Current

LEMMA ConfinedIsBounded ==
  ASSUME TypeOK, NEW c \in Requests, NEW r, c.op \notin AccountOps, Confined(c, r), Write(r)
  PROVE  TypeOK' /\ Bounded(c)
<1>1. TypeOK' BY WriteType DEF Confined
<1>2. OnlyIn(c.space) BY WithinOnly DEF Confined
<1>3. user' = user BY PutNothing DEF Confined, Write, TypeOK
<1>4. \A w \in Workspaces : w # c.space => Settled(w) BY <1>2 DEF OnlyIn, Settled
<1>5. c.op = "select" => \A w \in Workspaces : Settled(w)
  <2> SUFFICES ASSUME c.op = "select", NEW w \in Workspaces PROVE Settled(w) OBVIOUS
  <2>1. DOMAIN r.space = {} /\ DOMAIN r.member = {} /\ DOMAIN r.invite = {} BY DEF Confined
  <2>2. /\ \A v \in Workspaces : space'[v] = space[v]
        /\ \A m \in MemberIds : member'[m] = member[m]
        /\ \A i \in InviteIds : invite'[i] = invite[i]
    BY <2>1, Written
  <2> QED BY <2>2 DEF Settled
<1>6. ASSUME NEW w \in Workspaces, NEW u \in Users,
             CurrentOf(w, u) = {}, CurrentOf(w, u)' # {}
      PROVE  u \in LockedUsers(c)
  <2>1. PICK m \in {w} \X {u} \X Gens : Current(m)' BY <1>6 DEF CurrentOf
  <2>2. m \in MemberIds /\ m[2] = u BY <2>1, InPair
  <2>3. ~Current(m) BY <1>6, <2>1 DEF CurrentOf
  <2>4. m \in DOMAIN r.member /\ member'[m] = r.member[m]
    BY <2>1, <2>2, <2>3, Written DEF Current
  <2> QED BY <2>1, <2>2, <2>3, <2>4 DEF Confined, Admits, Current
<1> QED BY <1>1, <1>3, <1>4, <1>5, <1>6 DEF Bounded

LEMMA CommitEffects ==
  ASSUME TypeOK, NEW c \in Requests, NEW r, Decided(c, r), Write(r)
  PROVE  TypeOK' /\ Bounded(c)
<1>0. CASE r = NoChange
  <2>1. UNCHANGED <<user, space, member, invite, seat>> BY <1>0, NothingWritten
  <2>2. lapsed' \subseteq lapsed BY DEF Write
  <2>3. TypeOK' BY <2>1, <2>2 DEF TypeOK
  <2>4. Bounded(c) BY <2>1, UnchangedIsSettled DEF Bounded
  <2> QED BY <2>3, <2>4
<1>1. CASE r # NoChange /\ ~DecidedAccount(c, r)
  <2>1. c.op \notin AccountOps
    BY <1>1 DEF Decided, DecidedMember, DecidedWorkspace, DecidedCreation, DecidedInvitation,
                AccountOps
  <2>2. Confined(c, r)
    BY <1>1, MemberConfined, WorkspaceConfined, CreationConfined, InvitationConfined DEF Decided
  <2> QED BY <2>1, <2>2, ConfinedIsBounded
<1>2. CASE DecidedAccount(c, r)
  <2>0. c.op \in AccountOps BY <1>2 DEF DecidedAccount, AccountOps
  <2>1. /\ RowsOK(r) /\ DOMAIN r.user = {c.user} /\ c.user \in Users
        /\ r.space = NoRows /\ r.member = NoRows /\ r.invite = NoRows /\ r.seat = NoRows
        /\ ~Deactivates(c) => (user[c.user].active => r.user[c.user].active)
    BY <1>2, AccountRowsOK
  <2>2. TypeOK' BY <2>1, WriteType
  <2>3. UNCHANGED <<space, member, invite>> BY <2>1, PutNothing DEF Write, TypeOK
  <2>4. \A u \in Users : user'[u] = IF u = c.user THEN r.user[u] ELSE user[u]
    BY <2>1 DEF Write, Put, TypeOK
  <2> QED BY <2>0, <2>1, <2>2, <2>3, <2>4, UnchangedIsSettled DEF Bounded
<1> QED BY <1>0, <1>1, <1>2

-------------------------------------------------------------------------------
(* The lock argument. *)

\* A command that is not admitted as a governor, addressed or created has its
\* authority from a membership of the Workspace it has locked.
LEMMA ActorIsMember ==
  ASSUME NEW c \in Requests, NEW r, Decided(c, r), r # NoChange, c.op \notin AccountOps,
         c.by \notin LockedUsers(c)
  PROVE  CurrentOf(c.space, c.by) # {}
<1>0. c.by \in Users BY RequestParts
<1>1. c.op \notin {"accept", "freeze", "unfreeze", "reassign", "create"} BY <1>0 DEF LockedUsers
<1>2. \E action, relation : Authorized(c.by, c.space, action, relation)
  <2>1. CASE DecidedMember(c, r)
    <3>1. c.row[1] = c.space BY <2>1, RequestParts DEF DecidedMember, MemberOps
    <3> QED BY <2>1, <3>1
        DEF DecidedMember, MaySetRole, MaySuspend, MayReactivate, MayTerminate, MayLeave,
            MayTransfer, MaySelect
  <2>2. CASE DecidedWorkspace(c, r)
    BY <1>1, <2>2 DEF DecidedWorkspace, MayArchive, MayRestore, MayDelete
  <2>3. CASE DecidedInvitation(c, r)
    <3>1. c.op = "revoke" => c.row[1] = c.space BY RequestParts
    <3> QED BY <1>1, <2>3, <3>1 DEF DecidedInvitation, MayInvite, MayRevoke
  <2> QED BY <1>1, <2>1, <2>2, <2>3 DEF Decided, DecidedCreation, DecidedAccount, AccountOps
<1>3. PICK m \in {c.space} \X {c.by} \X Gens : member[m].status = "active"
  BY <1>2 DEF Authorized
<1> QED BY <1>3 DEF CurrentOf, Current

\* Two commands that hold their locks leave each other's reads alone.
LEMMA LocksKeepReads ==
  ASSUME TypeOK, NEW c \in Requests, NEW r, Decided(c, r), r # NoChange,
         NEW d \in Requests, NEW s, Decided(d, s), s # NoChange, Bounded(d),
         NEW G, Elements(Plan(c)) \subseteq G, NEW H, Elements(Plan(d)) \subseteq H,
         \A g \in G, h \in H : ~Blocks(g, h),
         Deactivates(d) => \A w \in Workspaces :
           CurrentOf(w, d.user) # {} => OnSpace(w, "U") \in H
  PROVE  Undisturbed(c)
<1>0. /\ c.by \in Users
      /\ c.op \notin AccountOps => c.space \in Workspaces
      /\ d.op \in AccountOps => d.user \in Users
  BY RequestParts
<1>a. c.op \notin AccountOps \cup {"create"} =>
        \E mode \in {"S", "U"} : OnSpace(c.space, mode) \in G
  BY PlanLocks
<1>b. /\ \A u \in LockedUsers(c) : \E mode \in {"S", "NKU", "U"} : OnUser(u, mode) \in G
      /\ LockedUsers(c) \subseteq Users
  BY PlanLocks DEF LockedUsers
<1>1. CASE d.op \in AccountOps
  <2>1. OnUser(d.user, "NKU") \in H BY <1>1, PlanLocks
  <2>2. d.user \notin LockedUsers(c) BY <1>b, <2>1, Conflicting
  <2>3. \A u \in LockedUsers(c) : user'[u] = user[u] BY <1>1, <1>b, <2>2 DEF Bounded
  <2>4. ASSUME c.op \notin AccountOps, user[c.by].active PROVE user'[c.by].active
    <3>1. CASE ~Deactivates(d) BY <1>0, <2>4, <3>1 DEF Bounded
    <3>2. CASE c.by # d.user BY <1>0, <1>1, <2>4, <3>2 DEF Bounded
    <3>3. CASE Deactivates(d) /\ c.by = d.user
      <4>1. CurrentOf(c.space, c.by) # {} BY <2>2, <2>4, <3>3, ActorIsMember
      <4>2. OnSpace(c.space, "U") \in H BY <1>0, <2>4, <3>3, <4>1
      <4>3. c.op # "create" BY <1>0, <2>2, <3>3 DEF LockedUsers
      <4> QED BY <1>a, <2>4, <4>2, <4>3, Conflicting
    <3> QED BY <3>1, <3>2, <3>3
  <2> QED BY <1>0, <1>1, <2>3, <2>4 DEF Undisturbed, Bounded
<1>2. CASE d.op \notin AccountOps
  <2>1. user' = user BY <1>2 DEF Bounded
  <2>2. ASSUME c.op \notin AccountOps PROVE Settled(c.space)
    <3>1. CASE c.space # d.space \/ d.op = "select" BY <1>0, <1>2, <2>2, <3>1 DEF Bounded
    <3>2. CASE c.space = d.space /\ d.op # "select"
      <4>1. Confined(c, r) /\ Confined(d, s)
        <5>1. ~DecidedAccount(c, r) /\ ~DecidedAccount(d, s)
          BY <1>2, <2>2 DEF DecidedAccount, AccountOps
        <5> QED BY <5>1, MemberConfined, WorkspaceConfined, CreationConfined,
                   InvitationConfined DEF Decided
      <4>2. (c.op = "create") <=> (d.op = "create")
        BY <3>2, <4>1 DEF Confined, Exists
      <4>3. CASE c.op = "create"
        <5>1. c.by = d.by BY <3>2, <4>2, <4>3, RequestsAssumption
        <5>2. OnUser(c.by, "U") \in G /\ OnUser(c.by, "U") \in H
          BY <4>2, <4>3, <5>1, PlanLocks
        <5> QED BY <5>2, Conflicting
      <4>4. CASE c.op # "create"
        <5>1. OnSpace(c.space, "U") \in H BY <1>2, <3>2, <4>2, <4>4, PlanLocks
        <5> QED BY <1>a, <2>2, <4>4, <5>1, Conflicting
      <4> QED BY <4>3, <4>4
    <3> QED BY <3>1, <3>2
  <2> QED BY <2>1, <2>2 DEF Undisturbed
<1> QED BY <1>1, <1>2

-------------------------------------------------------------------------------
(* Steps that only move a transaction: the tables stay. *)

Shaped(t) ==
  /\ t = [pc |-> t.pc, cmd |-> t.cmd, todo |-> t.todo, held |-> t.held, rows |-> t.rows]
  /\ t.pc \in {"idle", "lock", "flush"}
  /\ t.pc # "idle" => t.cmd \in Requests
  /\ t.todo \in Seq(Locks)
  /\ t.held \in SUBSET Locks

LEMMA ShapedTransactions ==
  TxTypeOK <=> /\ tx = [k \in Processes |-> tx[k]]
               /\ \A k \in Processes : Shaped(tx[k])
<1>1. TxTypeOK => /\ tx = [p \in Processes |-> tx[p]]
                  /\ \A p \in Processes : Shaped(tx[p])
  <2> SUFFICES ASSUME TxTypeOK PROVE /\ tx = [p \in Processes |-> tx[p]]
                                     /\ \A p \in Processes : Shaped(tx[p])
    OBVIOUS
  <2>1. tx = [p \in Processes |-> Transaction(p)] BY DEF TxTypeOK
  <2>2. \A p \in Processes : tx[p] = Transaction(p) BY <2>1
  <2>3. tx = [p \in Processes |-> tx[p]] BY <2>1, <2>2
  <2> QED BY <2>2, <2>3 DEF TxTypeOK, Shaped, Transaction
<1>2. ASSUME tx = [p \in Processes |-> tx[p]], \A p \in Processes : Shaped(tx[p])
      PROVE  TxTypeOK
  <2>1. \A p \in Processes : tx[p] = Transaction(p) BY <1>2 DEF Shaped, Transaction
  <2>2. tx = [p \in Processes |-> Transaction(p)] BY <1>2, <2>1
  <2> QED BY <1>2, <2>2 DEF TxTypeOK, Shaped
<1> QED BY <1>1, <1>2

LEMMA Replaced ==
  ASSUME TxTypeOK, NEW p \in Processes, NEW t, Shaped(t), tx' = [tx EXCEPT ![p] = t]
  PROVE  /\ TxTypeOK'
         /\ tx'[p] = t
         /\ \A q \in Processes : q # p => tx'[q] = tx[q]
<1>1. /\ tx = [q \in Processes |-> tx[q]]
      /\ \A q \in Processes : Shaped(tx[q])
  BY ShapedTransactions
<1>2. /\ tx' = [q \in Processes |-> IF q = p THEN t ELSE tx[q]]
  BY <1>1
<1>3. /\ tx'[p] = t
      /\ \A q \in Processes : q # p => tx'[q] = tx[q]
  BY <1>2
<1>4. tx' = [q \in Processes |-> tx'[q]] BY <1>2
<1>5. \A q \in Processes : Shaped(tx'[q]) BY <1>1, <1>3
<1>6. (/\ tx = [k \in Processes |-> tx[k]]
       /\ \A k \in Processes : Shaped(tx[k]))'
  BY <1>4, <1>5 DEF Shaped
<1>7. TxTypeOK' BY <1>6, ShapedTransactions, PTL
<1> QED BY <1>3, <1>7

\* What a transaction has to fulfil beside its shape.
Lawful(t) ==
  /\ t.pc = "lock" => Elements(Plan(t.cmd)) \subseteq t.held \cup Elements(t.todo)
  /\ t.pc = "flush" =>
       /\ Elements(Plan(t.cmd)) \subseteq t.held
       /\ Deactivates(t.cmd) => \A w \in Workspaces : CurrentOf(w, t.cmd.user) # {} =>
            OnSpace(w, "U") \in t.held \cup Elements(t.todo)
       /\ Outdated(t.rows) \/ Decided(t.cmd, t.rows)

LEMMA LawfulTransactions ==
  TxInv <=> /\ TypeOK /\ TxTypeOK /\ Exclusive /\ LapsedPending
            /\ \A k \in Processes : Lawful(tx[k])
BY DEF TxInv, PlanKept, FenceStands, DecisionsStand, Lawful

LEMMA TablesStay ==
  ASSUME TypeOK, UNCHANGED tables
  PROVE  /\ TypeOK'
         /\ \A c \in Requests : Undisturbed(c)
         /\ \A w, u : CurrentOf(w, u)' = CurrentOf(w, u)
         /\ \A r : Outdated(r)' <=> Outdated(r)
<1>1. /\ user' = user /\ space' = space /\ member' = member /\ invite' = invite
      /\ lapsed' = lapsed /\ seat' = seat
  BY DEF tables
<1>2. TypeOK' BY <1>1 DEF TypeOK
<1>3. \A c \in Requests : Undisturbed(c) BY <1>1, UnchangedIsSettled DEF Undisturbed
<1> QED BY <1>1, <1>2, <1>3, UnchangedIsSettled DEF Outdated

LEMMA LawfulSettled ==
  ASSUME TypeOK, TypeOK', NEW t, Shaped(t), Lawful(t),
         \A c \in Requests : Undisturbed(c),
         \A w \in Workspaces, u \in Users : CurrentOf(w, u)' = CurrentOf(w, u),
         Outdated(t.rows) => Outdated(t.rows)'
  PROVE  Lawful(t)'
<1>1. t.pc = "flush" /\ Decided(t.cmd, t.rows) => Decided(t.cmd, t.rows)' \/ Outdated(t.rows)'
  BY DecidedStays DEF Shaped
<1>2. t.pc = "flush" /\ Deactivates(t.cmd) => t.cmd.user \in Users
  BY RequestParts DEF Shaped, Deactivates, AccountOps
<1> QED BY <1>1, <1>2 DEF Lawful

LEMMA LawfulStays ==
  ASSUME TypeOK, UNCHANGED tables, NEW t, Shaped(t), Lawful(t)
  PROVE  Lawful(t)'
BY TablesStay, LawfulSettled

\* One transaction moves and the others and the tables stay.
LEMMA TransactionMoves ==
  ASSUME TxInv, UNCHANGED tables, NEW p \in Processes, NEW t, Shaped(t), Lawful(t),
         tx' = [tx EXCEPT ![p] = t],
         \A h \in t.held : h \in tx[p].held
           \/ \A q \in Processes : q # p => \A g \in tx[q].held : ~Blocks(g, h)
  PROVE  TxInv'
<1>0. /\ TypeOK /\ TxTypeOK /\ Exclusive /\ LapsedPending
      /\ \A q \in Processes : Lawful(tx[q]) /\ Shaped(tx[q])
  BY LawfulTransactions, ShapedTransactions
<1>1. /\ TxTypeOK' /\ tx'[p] = t
      /\ \A q \in Processes : q # p => tx'[q] = tx[q]
  BY <1>0, Replaced
<1>2. TypeOK' BY <1>0, TablesStay
<1>3. LapsedPending' BY <1>0 DEF LapsedPending, Pending, tables
<1>4. Exclusive'
  <2> SUFFICES ASSUME NEW a \in Processes, NEW b \in Processes, a # b,
                      NEW g \in tx'[a].held, NEW h \in tx'[b].held
               PROVE  ~Blocks(g, h)
    BY DEF Exclusive
  <2>0. g \in Locks /\ h \in Locks BY <1>1, <1>0 DEF Shaped
  <2>1. CASE a # p /\ b # p BY <1>0, <1>1, <2>1 DEF Exclusive
  <2>2. CASE b = p
    <3>1. a # p /\ g \in tx[a].held /\ h \in t.held BY <1>1, <2>2
    <3> QED BY <1>0, <2>2, <3>1 DEF Exclusive
  <2>3. CASE a = p
    <3>1. b # p /\ h \in tx[b].held /\ g \in t.held BY <1>1, <2>3
    <3>2. ~Blocks(h, g) BY <1>0, <2>3, <3>1 DEF Exclusive
    <3> QED BY <2>0, <3>2, BlocksBothWays
  <2> QED BY <2>1, <2>2, <2>3
<1>5. ASSUME NEW q \in Processes PROVE Lawful(tx[q])'
  <2>1. PICK k : k = tx'[q] OBVIOUS
  <2>2. Shaped(k) /\ Lawful(k) BY <1>0, <1>1, <2>1
  <2>3. Lawful(k)' BY <1>0, <2>2, LawfulStays
  <2> QED BY <2>1, <2>3 DEF Lawful
<1> QED
  BY <1>1, <1>2, <1>3, <1>4, <1>5 DEF TxInv, PlanKept, FenceStands, DecisionsStand, Lawful

-------------------------------------------------------------------------------
(* The Workspaces a deactivation locks, in order, are all of its target's.    *)

Below(S, w) == Cardinality({v \in S : v < w})

LEMMA RanksDiffer ==
  ASSUME NEW S \in SUBSET Nat, IsFiniteSet(S)
  PROVE  /\ Cardinality(S) \in Nat
         /\ \A w \in S : Below(S, w) \in 0..(Cardinality(S) - 1)
         /\ \A v, w \in S : Below(S, v) = Below(S, w) => v = w
<1>1. \A w \in S : /\ IsFiniteSet({v \in S : v < w})
                   /\ Below(S, w) \in Nat /\ Below(S, w) <= Cardinality(S)
                   /\ Below(S, w) # Cardinality(S)
  <2> SUFFICES ASSUME NEW w \in S
               PROVE  /\ IsFiniteSet({v \in S : v < w})
                      /\ Below(S, w) \in Nat /\ Below(S, w) <= Cardinality(S)
                      /\ Below(S, w) # Cardinality(S)
    OBVIOUS
  <2> DEFINE T == {v \in S : v < w}
  <2>1. T \in SUBSET S /\ w \notin T OBVIOUS
  <2>2. /\ IsFiniteSet(T) /\ Cardinality(T) <= Cardinality(S)
        /\ Cardinality(S) = Cardinality(T) => S = T
    BY <2>1, FS_Subset
  <2>3. Cardinality(T) \in Nat BY <2>2, FS_CardinalityType
  <2> QED BY <2>1, <2>2, <2>3 DEF Below
<1>2. Cardinality(S) \in Nat BY FS_CardinalityType
<1>3. ASSUME NEW v \in S, NEW w \in S, v < w PROVE Below(S, v) # Below(S, w)
  <2> DEFINE T == {x \in S : x < v}
             U == {x \in S : x < w}
  <2>0. v \in Nat /\ w \in Nat /\ \A x \in S : x \in Nat OBVIOUS
  <2>1. T \in SUBSET U /\ v \in U /\ v \notin T
    <3>1. \A x \in S : x < v => x < w BY <1>3, <2>0
    <3>2. T \subseteq U BY <3>1
    <3>3. v \in U BY <1>3
    <3>4. ~(v < v) BY <2>0
    <3> QED BY <3>2, <3>3, <3>4
  <2>2. IsFiniteSet(U) BY <1>1
  <2> HIDE DEF T, U
  <2>3. Cardinality(U) = Cardinality(T) => U = T BY <2>1, <2>2, FS_Subset
  <2> QED BY <2>1, <2>3 DEF Below, T, U
<1>4. \A v, w \in S : Below(S, v) = Below(S, w) => v = w
  <2> SUFFICES ASSUME NEW v \in S, NEW w \in S, Below(S, v) = Below(S, w) PROVE v = w
    OBVIOUS
  <2>1. v < w \/ w < v \/ v = w OBVIOUS
  <2> QED BY <1>3, <2>1
<1>5. ASSUME NEW w \in S PROVE Below(S, w) \in 0..(Cardinality(S) - 1)
  <2> DEFINE b == Below(S, w)
             n == Cardinality(S)
  <2>1. b \in Nat /\ b <= n /\ b # n /\ n \in Nat BY <1>1, <1>2
  <2> HIDE DEF b, n
  <2>2. b \in 0..(n - 1) BY <2>1
  <2> QED BY <2>2 DEF b, n
<1> QED BY <1>2, <1>4, <1>5

LEMMA RanksExhaust ==
  ASSUME NEW S \in SUBSET Nat, IsFiniteSet(S), NEW k \in 0..(Cardinality(S) - 1)
  PROVE  \E w \in S : Below(S, w) = k
<1> SUFFICES ASSUME \A w \in S : Below(S, w) # k PROVE FALSE OBVIOUS
<1> DEFINE n == Cardinality(S)
           T == (0..(n - 1)) \ {k}
           f == [w \in S |-> Below(S, w)]
<1>1. n \in Nat BY RanksDiffer
<1>2. IsFiniteSet(0..(n - 1)) /\ Cardinality(0..(n - 1)) = n
  <2>1. 0 \in Int /\ n - 1 \in Int /\ 0 <= n - 1 BY <1>1
  <2>2. /\ IsFiniteSet(0..(n - 1))
        /\ Cardinality(0..(n - 1)) = IF 0 > n - 1 THEN 0 ELSE (n - 1) - 0 + 1
    BY <2>1, FS_Interval
  <2> QED BY <1>1, <2>1, <2>2
<1>3. IsFiniteSet(T) /\ Cardinality(T) = n - 1 BY <1>2, FS_RemoveElement
<1>4. f \in [S -> T] BY RanksDiffer
<1>5. Cardinality(T) < Cardinality(S) BY <1>1, <1>3
<1> HIDE DEF T, f
<1>6. \E x, y \in S : x # y /\ f[x] = f[y] BY <1>3, <1>4, <1>5, FS_PigeonHole
<1> QED BY <1>6, RanksDiffer DEF f

LEMMA FenceCovers ==
  ASSUME NEW u \in Users
  PROVE  /\ FencedSpaces(u) \in Seq(Locks)
         /\ \A w \in Workspaces : CurrentOf(w, u) # {} =>
              OnSpace(w, "U") \in Elements(FencedSpaces(u))
<1> DEFINE S == {w \in Workspaces : CurrentOf(w, u) # {}}
           n == Cardinality(S)
           at(i) == CHOOSE w \in S : Below(S, w) = i - 1
<1>1. S \in SUBSET Nat /\ IsFiniteSet(S) /\ S \subseteq Workspaces
  BY WorkspacesAssumption, FS_Subset
<1>2. FencedSpaces(u) = [i \in 1..n |-> OnSpace(at(i), "U")]
  BY DEF FencedSpaces, Below
<1> HIDE DEF S
<1>3. /\ n \in Nat
      /\ \A w \in S : Below(S, w) \in 0..(n - 1)
      /\ \A v, w \in S : Below(S, v) = Below(S, w) => v = w
  BY <1>1, RanksDiffer
<1>4. ASSUME NEW i \in 1..n PROVE at(i) \in S
  <2>1. i - 1 \in 0..(n - 1) BY <1>3
  <2>2. \E w \in S : Below(S, w) = i - 1 BY <1>1, <2>1, RanksExhaust
  <2> QED BY <2>2
<1>5. \A i \in 1..n : OnSpace(at(i), "U") \in Locks
  BY <1>1, <1>4, LockType DEF Modes
<1>6. FencedSpaces(u) \in Seq(Locks)
  BY <1>2, <1>3, <1>5, SeqDef
<1>7. ASSUME NEW w \in S PROVE OnSpace(w, "U") \in Elements(FencedSpaces(u))
  <2>1. Below(S, w) + 1 \in 1..n /\ (Below(S, w) + 1) - 1 = Below(S, w) BY <1>3
  <2>2. at(Below(S, w) + 1) = w
    <3>1. \E x \in S : Below(S, x) = (Below(S, w) + 1) - 1 BY <2>1
    <3>2. /\ at(Below(S, w) + 1) \in S
          /\ Below(S, at(Below(S, w) + 1)) = (Below(S, w) + 1) - 1
      BY <3>1
    <3> QED BY <1>3, <2>1, <3>2
  <2>3. FencedSpaces(u)[Below(S, w) + 1] = OnSpace(w, "U")
    BY <1>2, <2>1, <2>2
  <2>4. Below(S, w) + 1 \in DOMAIN FencedSpaces(u) BY <1>2, <2>1
  <2> QED BY <2>3, <2>4 DEF Elements
<1> QED BY <1>6, <1>7 DEF S

-------------------------------------------------------------------------------
(* Each step of a process keeps the invariant and is a step of the commands. *)

CommandCommits == \E p \in Processes : tx[p].pc = "flush" /\ tx'[p] = Idle /\ Commanded(p)
AbstractStep ==
  \/ CommandCommits
  \/ Atomic!PurgeHistory
  \/ \E i \in InviteIds : Atomic!Lapse(i)
  \/ UNCHANGED <<user, space, member, invite, lapsed \ Carried, seat>>

Carries(t, i) ==
  /\ t.pc = "flush" /\ t.cmd.op \in {"accept", "revoke"}
  /\ t.cmd.row = i /\ i \in DOMAIN t.rows.invite

LEMMA CarriedRows == Carried = {i \in InviteIds : \E k \in Processes : Carries(tx[k], i)}
BY DEF Carried, Carries

LEMMA IdleLawful == Shaped(Idle) /\ Lawful(Idle) /\ (\A i : ~Carries(Idle, i))
BY DEF Shaped, Lawful, Idle, Carries, Locks

\* A move that carries no lapsed invitation more or less is no step of the commands.
LEMMA MoveIsStutter ==
  ASSUME TypeOK, TxTypeOK, UNCHANGED tables, NEW p \in Processes, NEW t, Shaped(t),
         tx' = [tx EXCEPT ![p] = t],
         \A i \in lapsed : Carries(t, i) <=> Carries(tx[p], i)
  PROVE  AbstractStep
<1>1. /\ tx'[p] = t
      /\ \A q \in Processes : q # p => tx'[q] = tx[q]
  BY Replaced
<1>2. /\ user' = user /\ space' = space /\ member' = member /\ invite' = invite
      /\ lapsed' = lapsed /\ seat' = seat
  BY DEF tables
<1>3. \A i \in lapsed : (\E k \in Processes : Carries(tx'[k], i))
                          <=> (\E k \in Processes : Carries(tx[k], i))
  BY <1>1
<1>4. Carried' = {i \in InviteIds : \E k \in Processes : Carries(tx'[k], i)}
  BY DEF Carried, Carries
<1>5. (lapsed \ Carried)' = lapsed \ Carried BY <1>2, <1>3, <1>4, CarriedRows
<1> QED BY <1>2, <1>5 DEF AbstractStep

\* Updates of a transaction, field by field.
LEMMA UpdateOne ==
  ASSUME NEW a, NEW b, NEW c, NEW d, NEW e, NEW x, NEW t,
         t = [pc |-> a, cmd |-> b, todo |-> c, held |-> d, rows |-> e]
  PROVE  /\ [t EXCEPT !.pc = x] = [pc |-> x, cmd |-> b, todo |-> c, held |-> d, rows |-> e]
         /\ [t EXCEPT !.cmd = x] = [pc |-> a, cmd |-> x, todo |-> c, held |-> d, rows |-> e]
         /\ [t EXCEPT !.todo = x] = [pc |-> a, cmd |-> b, todo |-> x, held |-> d, rows |-> e]
         /\ [t EXCEPT !.held = x] = [pc |-> a, cmd |-> b, todo |-> c, held |-> x, rows |-> e]
         /\ [t EXCEPT !.rows = x] = [pc |-> a, cmd |-> b, todo |-> c, held |-> d, rows |-> x]
<1>1. [t EXCEPT !.pc = x] = [pc |-> x, cmd |-> b, todo |-> c, held |-> d, rows |-> e] OBVIOUS
<1>2. [t EXCEPT !.cmd = x] = [pc |-> a, cmd |-> x, todo |-> c, held |-> d, rows |-> e] OBVIOUS
<1>3. [t EXCEPT !.todo = x] = [pc |-> a, cmd |-> b, todo |-> x, held |-> d, rows |-> e] OBVIOUS
<1>4. [t EXCEPT !.held = x] = [pc |-> a, cmd |-> b, todo |-> c, held |-> x, rows |-> e] OBVIOUS
<1>5. [t EXCEPT !.rows = x] = [pc |-> a, cmd |-> b, todo |-> c, held |-> d, rows |-> x] OBVIOUS
<1> QED BY <1>1, <1>2, <1>3, <1>4, <1>5

LEMMA UpdateLocks ==
  ASSUME NEW t, Shaped(t), NEW todo, NEW held
  PROVE  [t EXCEPT !.todo = todo, !.held = held] =
           [pc |-> t.pc, cmd |-> t.cmd, todo |-> todo, held |-> held, rows |-> t.rows]
<1>1. PICK a, b, c, d, e : t = [pc |-> a, cmd |-> b, todo |-> c, held |-> d, rows |-> e]
  BY DEF Shaped
<1>2. t.pc = a /\ t.cmd = b /\ t.todo = c /\ t.held = d /\ t.rows = e BY <1>1
<1>3. [t EXCEPT !.todo = todo, !.held = held] =
        [[t EXCEPT !.todo = todo] EXCEPT !.held = held]
  OBVIOUS
<1>4. PICK u : u = [t EXCEPT !.todo = todo] OBVIOUS
<1>5. u = [pc |-> a, cmd |-> b, todo |-> todo, held |-> d, rows |-> e]
  BY <1>1, <1>4, UpdateOne
<1>6. PICK v : v = [u EXCEPT !.held = held] OBVIOUS
<1>7. v = [pc |-> a, cmd |-> b, todo |-> todo, held |-> held, rows |-> e]
  BY <1>5, <1>6, UpdateOne
<1> QED BY <1>2, <1>3, <1>4, <1>6, <1>7

LEMMA UpdateDecision ==
  ASSUME NEW t, Shaped(t), NEW pc, NEW todo, NEW rows
  PROVE  [t EXCEPT !.pc = pc, !.todo = todo, !.rows = rows] =
           [pc |-> pc, cmd |-> t.cmd, todo |-> todo, held |-> t.held, rows |-> rows]
<1>1. PICK a, b, c, d, e : t = [pc |-> a, cmd |-> b, todo |-> c, held |-> d, rows |-> e]
  BY DEF Shaped
<1>2. t.pc = a /\ t.cmd = b /\ t.todo = c /\ t.held = d /\ t.rows = e BY <1>1
<1>3. [t EXCEPT !.pc = pc, !.todo = todo, !.rows = rows] =
        [[[t EXCEPT !.pc = pc] EXCEPT !.todo = todo] EXCEPT !.rows = rows]
  OBVIOUS
<1>4. PICK u : u = [t EXCEPT !.pc = pc] OBVIOUS
<1>5. u = [pc |-> pc, cmd |-> b, todo |-> c, held |-> d, rows |-> e]
  BY <1>1, <1>4, UpdateOne
<1>6. PICK v : v = [u EXCEPT !.todo = todo] OBVIOUS
<1>7. v = [pc |-> pc, cmd |-> b, todo |-> todo, held |-> d, rows |-> e]
  BY <1>5, <1>6, UpdateOne
<1>8. PICK w : w = [v EXCEPT !.rows = rows] OBVIOUS
<1>9. w = [pc |-> pc, cmd |-> b, todo |-> todo, held |-> d, rows |-> rows]
  BY <1>7, <1>8, UpdateOne
<1> QED BY <1>2, <1>3, <1>4, <1>6, <1>8, <1>9

LEMMA UpdateIdle ==
  ASSUME NEW cmd, NEW todo
  PROVE  [Idle EXCEPT !.pc = "lock", !.cmd = cmd, !.todo = todo] =
           [pc |-> "lock", cmd |-> cmd, todo |-> todo, held |-> {}, rows |-> NoChange]
<1>1. PICK idle, lock, none, empty, nothing, rows :
        /\ idle = "idle" /\ lock = "lock" /\ none = NoCommand /\ empty = <<>> /\ nothing = {}
        /\ rows = NoChange
  OBVIOUS
<1>2. PICK t : t = Idle OBVIOUS
<1>3. t = [pc |-> idle, cmd |-> none, todo |-> empty, held |-> nothing, rows |-> rows]
  BY <1>1, <1>2 DEF Idle
<1>4. [t EXCEPT !.pc = lock, !.cmd = cmd, !.todo = todo] =
        [[[t EXCEPT !.pc = lock] EXCEPT !.cmd = cmd] EXCEPT !.todo = todo]
  OBVIOUS
<1>5. PICK u : u = [t EXCEPT !.pc = lock] OBVIOUS
<1>6. u = [pc |-> lock, cmd |-> none, todo |-> empty, held |-> nothing, rows |-> rows]
  BY <1>3, <1>5, UpdateOne
<1>7. PICK v : v = [u EXCEPT !.cmd = cmd] OBVIOUS
<1>8. v = [pc |-> lock, cmd |-> cmd, todo |-> empty, held |-> nothing, rows |-> rows]
  BY <1>6, <1>7, UpdateOne
<1>9. PICK w : w = [v EXCEPT !.todo = todo] OBVIOUS
<1>10. w = [pc |-> lock, cmd |-> cmd, todo |-> todo, held |-> nothing, rows |-> rows]
  BY <1>8, <1>9, UpdateOne
<1>11. [pc |-> lock, cmd |-> cmd, todo |-> todo, held |-> nothing, rows |-> rows] =
         [pc |-> "lock", cmd |-> cmd, todo |-> todo, held |-> {}, rows |-> NoChange]
  BY <1>1
<1>12. [Idle EXCEPT !.pc = "lock", !.cmd = cmd, !.todo = todo] = w
  BY <1>1, <1>2, <1>4, <1>5, <1>7, <1>9
<1> QED BY <1>10, <1>11, <1>12

LEMMA BeginStep ==
  ASSUME TxInv, NEW p \in Processes, NEW c \in Requests, Begin(p, c)
  PROVE  TxInv' /\ AbstractStep
<1> DEFINE t == [pc |-> "lock", cmd |-> c, todo |-> Plan(c), held |-> {}, rows |-> NoChange]
<1>0. TypeOK /\ TxTypeOK BY DEF TxInv
<1>1. tx' = [tx EXCEPT ![p] = t] /\ UNCHANGED tables /\ tx[p].pc = "idle"
  <2>1. [Idle EXCEPT !.pc = "lock", !.cmd = c, !.todo = Plan(c)] = t BY UpdateIdle
  <2> QED BY <2>1 DEF Begin
<1>2. Shaped(t) BY PlanLocks DEF Shaped
<1>3. Lawful(t) BY DEF Lawful
<1>4. \A i : ~Carries(t, i) /\ ~Carries(tx[p], i) BY <1>1 DEF Carries
<1>5. t.held = {} OBVIOUS
<1> HIDE DEF t
<1> QED BY <1>0, <1>1, <1>2, <1>3, <1>4, <1>5, TransactionMoves, MoveIsStutter

LEMMA HeadAndTail ==
  ASSUME NEW S, NEW s \in Seq(S), s # <<>>
  PROVE  /\ Head(s) \in S /\ Tail(s) \in Seq(S)
         /\ Elements(s) = {Head(s)} \cup Elements(Tail(s))
<1>1. /\ Head(s) \in S /\ Tail(s) \in Seq(S) /\ Len(s) \in Nat \ {0}
      /\ Len(Tail(s)) = Len(s) - 1 /\ Head(s) = s[1]
      /\ \A i \in 1..(Len(s) - 1) : Tail(s)[i] = s[i + 1]
  OBVIOUS
<1>2. DOMAIN s = 1..Len(s) /\ DOMAIN Tail(s) = 1..(Len(s) - 1) BY <1>1
<1>3. ASSUME NEW i \in 1..Len(s) PROVE s[i] \in {Head(s)} \cup Elements(Tail(s))
  <2>1. CASE i = 1 BY <1>1, <2>1
  <2>2. CASE i # 1
    <3>1. i - 1 \in 1..(Len(s) - 1) /\ (i - 1) + 1 = i BY <1>1, <2>2
    <3>2. Tail(s)[i - 1] = s[i] BY <1>1, <3>1
    <3>3. i - 1 \in DOMAIN Tail(s) BY <1>2, <3>1
    <3> QED BY <3>2, <3>3 DEF Elements
  <2> QED BY <2>1, <2>2
<1>4. ASSUME NEW i \in 1..(Len(s) - 1) PROVE Tail(s)[i] \in Elements(s)
  <2>1. i + 1 \in 1..Len(s) BY <1>1
  <2> QED BY <1>1, <1>2, <2>1 DEF Elements
<1>5. Head(s) \in Elements(s)
  <2>1. 1 \in 1..Len(s) BY <1>1
  <2> QED BY <1>1, <1>2, <2>1 DEF Elements
<1> QED BY <1>1, <1>2, <1>3, <1>4, <1>5 DEF Elements

LEMMA AcquireStep ==
  ASSUME TxInv, NEW p \in Processes, Acquire(p)
  PROVE  TxInv' /\ AbstractStep
<1>0. /\ TypeOK /\ TxTypeOK
      /\ Shaped(tx[p]) /\ Lawful(tx[p]) /\ tx = [k \in Processes |-> tx[k]]
  BY LawfulTransactions, ShapedTransactions
<1> DEFINE lock == Head(tx[p].todo)
           t == [pc |-> tx[p].pc, cmd |-> tx[p].cmd, todo |-> Tail(tx[p].todo),
                 held |-> tx[p].held \cup {lock}, rows |-> tx[p].rows]
<1>1. /\ lock \in Locks /\ Tail(tx[p].todo) \in Seq(Locks)
      /\ Elements(tx[p].todo) = {lock} \cup Elements(Tail(tx[p].todo))
  BY <1>0, HeadAndTail DEF Acquire, Waiting, Shaped
<1>2. tx' = [tx EXCEPT ![p] = t] /\ UNCHANGED tables
  <2>1. tx' = [tx EXCEPT ![p] = [tx[p] EXCEPT !.todo = Tail(@), !.held = @ \cup {lock}]]
    BY <1>0 DEF Acquire
  <2>2. [tx[p] EXCEPT !.todo = Tail(@), !.held = @ \cup {lock}] = t BY <1>0, UpdateLocks
  <2> QED BY <2>1, <2>2 DEF Acquire
<1>3. Shaped(t) BY <1>0, <1>1 DEF Shaped
<1>4. /\ t.pc = tx[p].pc /\ t.cmd = tx[p].cmd /\ t.rows = tx[p].rows
      /\ t.held = tx[p].held \cup {lock}
      /\ tx[p].held \cup Elements(tx[p].todo) = t.held \cup Elements(t.todo)
  BY <1>1
<1>5. \A q \in Processes : q # p => \A g \in tx[q].held : ~Blocks(g, lock)
  BY DEF Acquire, BlockedBy
<1> HIDE DEF t, lock
<1>6. Lawful(t) BY <1>0, <1>4 DEF Lawful
<1>7. \A i : Carries(t, i) <=> Carries(tx[p], i) BY <1>4 DEF Carries
<1> QED BY <1>0, <1>2, <1>3, <1>4, <1>5, <1>6, <1>7, TransactionMoves, MoveIsStutter

LEMMA ForeignLocks ==
  ASSUME TypeOK, NEW c \in Requests PROVE ForeignUsers(c) \in Seq(Locks)
<1> DEFINE actor == <<OnUser(c.by, "KS")>>
           inviter == IF c.op = "accept" THEN <<OnUser(invite[c.row].by, "KS")>> ELSE <<>>
<1>1. actor \in Seq(Locks) BY RequestParts, LockType DEF Modes
<1>2. inviter \in Seq(Locks)
  <2>1. CASE c.op = "accept"
    <3>1. invite[c.row] \in InviteRows BY <2>1, RequestParts DEF TypeOK
    <3>2. invite[c.row].by \in Users BY <3>1 DEF InviteRows
    <3>3. OnUser(invite[c.row].by, "KS") \in Locks BY <3>2, LockType DEF Modes
    <3> QED BY <2>1, <3>3
  <2>2. CASE c.op # "accept" BY <2>2
  <2> QED BY <2>1, <2>2
<1> HIDE DEF actor, inviter
<1>3. actor \o inviter \in Seq(Locks) BY <1>1, <1>2
<1> QED BY <1>3 DEF ForeignUsers, actor, inviter

LEMMA EmptyElements == Elements(<<>>) = {}
BY DEF Elements

\* A transaction decides: it has the locks of its plan, and the rows are right.
LEMMA DecisionStep ==
  ASSUME TxInv, UNCHANGED tables, NEW p \in Processes, tx[p].pc = "lock", ~Waiting(p),
         NEW todo, todo \in Seq(Locks), NEW rows, Decided(tx[p].cmd, rows),
         tx' = [tx EXCEPT ![p] = [@ EXCEPT !.pc = "flush", !.todo = todo, !.rows = rows]],
         Deactivates(tx[p].cmd) => \A w \in Workspaces :
           CurrentOf(w, tx[p].cmd.user) # {} => OnSpace(w, "U") \in Elements(todo),
         tx[p].cmd.op \in {"accept", "revoke"} /\ tx[p].cmd.row \in DOMAIN rows.invite =>
           tx[p].cmd.row \notin lapsed
  PROVE  TxInv' /\ AbstractStep
<1>0. /\ TypeOK /\ TxTypeOK
      /\ Shaped(tx[p]) /\ Lawful(tx[p]) /\ tx = [k \in Processes |-> tx[k]]
  BY LawfulTransactions, ShapedTransactions
<1> DEFINE t == [pc |-> "flush", cmd |-> tx[p].cmd, todo |-> todo, held |-> tx[p].held,
                 rows |-> rows]
<1>1. tx' = [tx EXCEPT ![p] = t]
  <2>1. [tx[p] EXCEPT !.pc = "flush", !.todo = todo, !.rows = rows] = t
    BY <1>0, UpdateDecision
  <2> QED BY <1>0, <2>1
<1>2. Shaped(t) BY <1>0 DEF Shaped
<1>3. Elements(Plan(tx[p].cmd)) \subseteq tx[p].held
  BY <1>0, EmptyElements DEF Lawful, Waiting
<1>4. Lawful(t) BY <1>3 DEF Lawful
<1>5. t.held = tx[p].held OBVIOUS
<1>6. \A i \in lapsed : ~Carries(t, i) /\ ~Carries(tx[p], i) BY DEF Carries
<1> HIDE DEF t
<1> QED BY <1>0, <1>1, <1>2, <1>4, <1>5, <1>6, TransactionMoves, MoveIsStutter

\* A transaction that ends without a commit gives the invitation it carried
\* back to its expiry.
LEMMA ResetStep ==
  ASSUME TxInv, UNCHANGED tables, NEW p \in Processes, tx' = [tx EXCEPT ![p] = Idle]
  PROVE  TxInv' /\ AbstractStep
<1>0. TypeOK /\ TxTypeOK /\ LapsedPending BY DEF TxInv
<1>1. TxInv'
  <2>1. Idle.held = {} BY DEF Idle
  <2> QED BY <2>1, IdleLawful, TransactionMoves
<1>2. CASE \A i \in lapsed : ~Carries(tx[p], i)
  BY <1>0, <1>1, <1>2, IdleLawful, MoveIsStutter
<1>3. CASE \E i \in lapsed : Carries(tx[p], i)
  <2>1. PICK i \in lapsed : Carries(tx[p], i) BY <1>3
  <2>2. i \in InviteIds /\ Pending(i) BY <1>0 DEF TypeOK, LapsedPending
  <2>3. /\ tx'[p] = Idle
        /\ \A q \in Processes : q # p => tx'[q] = tx[q]
    BY <1>0, IdleLawful, Replaced
  <2>4. \A j : Carries(tx[p], j) => j = i BY <2>1 DEF Carries
  <2>5. /\ user' = user /\ space' = space /\ member' = member /\ invite' = invite
        /\ lapsed' = lapsed /\ seat' = seat
    BY DEF tables
  <2>6. Carried' = {j \in InviteIds : \E k \in Processes : Carries(tx'[k], j)}
    BY DEF Carried, Carries
  <2>7. /\ Carried' \subseteq Carried /\ Carried \subseteq Carried' \cup {i} /\ i \in Carried
    <3>1. \A j : ~Carries(tx'[p], j) BY <2>3, IdleLawful
    <3>2. Carried' \subseteq Carried BY <2>3, <2>6, <3>1, CarriedRows
    <3>3. Carried \subseteq Carried' \cup {i} BY <2>3, <2>4, <2>6, CarriedRows
    <3> QED BY <2>1, <2>2, <3>2, <3>3, CarriedRows
  <2>8. CASE i \in Carried'
    <3>1. (lapsed \ Carried)' = lapsed \ Carried BY <2>5, <2>7, <2>8
    <3> QED BY <1>1, <2>5, <3>1 DEF AbstractStep
  <2>9. CASE i \notin Carried'
    <3>1. (lapsed \ Carried)' = (lapsed \ Carried) \cup {i} BY <2>1, <2>5, <2>7, <2>9
    <3>2. Atomic!Lapse(i) BY <2>2, <2>5, <2>7, <3>1 DEF Atomic!Lapse, Pending
    <3> QED BY <1>1, <2>2, <3>2 DEF AbstractStep
  <2> QED BY <2>8, <2>9
<1> QED BY <1>1, <1>2, <1>3

\* What a decision does: the transaction ends, or goes on with rows that are right.
Refused(p) == tx' = [tx EXCEPT ![p] = Idle]
Admitted(p, todo, rows) ==
  /\ tx' = [tx EXCEPT ![p] = [@ EXCEPT !.pc = "flush", !.todo = todo, !.rows = rows]]
  /\ Decided(tx[p].cmd, rows)
  /\ tx[p].cmd.op \in {"accept", "revoke"} /\ tx[p].cmd.row \in DOMAIN rows.invite =>
       tx[p].cmd.row \notin lapsed
Answered(p) ==
  Refused(p) \/ \E rows : Admitted(p, ForeignUsers(tx[p].cmd), rows)

LEMMA MemberAnswer == ASSUME NEW p, DecideMember(p) PROVE Answered(p)
<1> DEFINE c == tx[p].cmd
<1>0. CASE Refused(p) BY <1>0 DEF Answered
<1> SUFFICES ASSUME ~Refused(p) PROVE \E rows : Admitted(p, ForeignUsers(c), rows)
  BY <1>0 DEF Answered
<1>1. CASE Answer(p, "set_role", MaySetRole(c.by, c.row, c.role), SetRoleRows(c.row, c.role))
  <2>1. Admitted(p, ForeignUsers(c), SetRoleRows(c.row, c.role))
    BY <1>1 DEF Answer, Refused, Admitted, Decided, DecidedMember
  <2> QED BY <2>1
<1>2. CASE Answer(p, "suspend", MaySuspend(c.by, c.row), SuspendRows(c.row))
  <2>1. Admitted(p, ForeignUsers(c), SuspendRows(c.row))
    BY <1>2 DEF Answer, Refused, Admitted, Decided, DecidedMember
  <2> QED BY <2>1
<1>3. CASE Answer(p, "reactivate", MayReactivate(c.by, c.row), ReactivateRows(c.row))
  <2>1. Admitted(p, ForeignUsers(c), ReactivateRows(c.row))
    BY <1>3 DEF Answer, Refused, Admitted, Decided, DecidedMember
  <2> QED BY <2>1
<1>4. CASE Answer(p, "terminate", MayTerminate(c.by, c.row), EndRows(c.row))
  <2>1. Admitted(p, ForeignUsers(c), EndRows(c.row))
    BY <1>4 DEF Answer, Refused, Admitted, Decided, DecidedMember
  <2> QED BY <2>1
<1>5. CASE Answer(p, "leave", MayLeave(c.by, c.row), EndRows(c.row))
  <2>1. Admitted(p, ForeignUsers(c), EndRows(c.row))
    BY <1>5 DEF Answer, Refused, Admitted, Decided, DecidedMember
  <2> QED BY <2>1
<1>6. CASE Answer(p, "transfer", MayTransfer(c.by, c.row), TransferRows(c.row))
  <2>1. Admitted(p, ForeignUsers(c), TransferRows(c.row))
    BY <1>6 DEF Answer, Refused, Admitted, Decided, DecidedMember
  <2> QED BY <2>1
<1>7. CASE Answer(p, "select", MaySelect(c.by, c.row, c.on), SelectRows(c.row, c.on))
  <2>1. Admitted(p, ForeignUsers(c), SelectRows(c.row, c.on))
    BY <1>7 DEF Answer, Refused, Admitted, Decided, DecidedMember
  <2> QED BY <2>1
<1> QED BY <1>1, <1>2, <1>3, <1>4, <1>5, <1>6, <1>7 DEF DecideMember

LEMMA WorkspaceAnswer == ASSUME NEW p, DecideWorkspace(p) PROVE Answered(p)
<1> DEFINE c == tx[p].cmd
<1>0. CASE Refused(p) BY <1>0 DEF Answered
<1> SUFFICES ASSUME ~Refused(p) PROVE \E rows : Admitted(p, ForeignUsers(c), rows)
  BY <1>0 DEF Answered
<1>1. CASE Answer(p, "reassign", MayReassign(c.by, c.space, c.user, c.expected),
                  ReassignRows(c.space, c.user))
  <2>1. Admitted(p, ForeignUsers(c), ReassignRows(c.space, c.user))
    BY <1>1 DEF Answer, Refused, Admitted, Decided, DecidedWorkspace
  <2> QED BY <2>1
<1>2. CASE Answer(p, "freeze", MaySetFrozen(c.by, c.space), SetFrozenRows(c.space, TRUE))
  <2>1. Admitted(p, ForeignUsers(c), SetFrozenRows(c.space, TRUE))
    BY <1>2 DEF Answer, Refused, Admitted, Decided, DecidedWorkspace
  <2> QED BY <2>1
<1>3. CASE Answer(p, "unfreeze", MaySetFrozen(c.by, c.space), SetFrozenRows(c.space, FALSE))
  <2>1. Admitted(p, ForeignUsers(c), SetFrozenRows(c.space, FALSE))
    BY <1>3 DEF Answer, Refused, Admitted, Decided, DecidedWorkspace
  <2> QED BY <2>1
<1>4. CASE Answer(p, "archive", MayArchive(c.by, c.space), StateRows(c.space, "archived"))
  <2>1. Admitted(p, ForeignUsers(c), StateRows(c.space, "archived"))
    BY <1>4 DEF Answer, Refused, Admitted, Decided, DecidedWorkspace
  <2> QED BY <2>1
<1>5. CASE Answer(p, "restore", MayRestore(c.by, c.space), StateRows(c.space, "active"))
  <2>1. Admitted(p, ForeignUsers(c), StateRows(c.space, "active"))
    BY <1>5 DEF Answer, Refused, Admitted, Decided, DecidedWorkspace
  <2> QED BY <2>1
<1>6. CASE Answer(p, "delete", MayDelete(c.by, c.space), DeleteRows(c.space))
  <2>1. Admitted(p, ForeignUsers(c), DeleteRows(c.space))
    BY <1>6 DEF Answer, Refused, Admitted, Decided, DecidedWorkspace
  <2> QED BY <2>1
<1>7. CASE Answer(p, "create", MayCreate(c.by, c.space, c.user), CreateRows(c.space, c.user))
  <2>1. Admitted(p, ForeignUsers(c), CreateRows(c.space, c.user))
    BY <1>7 DEF Answer, Refused, Admitted, Decided, DecidedCreation
  <2> QED BY <2>1
<1> QED BY <1>1, <1>2, <1>3, <1>4, <1>5, <1>6, <1>7 DEF DecideWorkspace

\* An acceptance checks the expiry; a revocation leaves a lapsed invitation alone.
LEMMA InvitationAnswer == ASSUME NEW p, DecideInvitation(p) PROVE Answered(p)
<1> DEFINE c == tx[p].cmd
<1>0. CASE Refused(p) BY <1>0 DEF Answered
<1> SUFFICES ASSUME ~Refused(p) PROVE \E rows : Admitted(p, ForeignUsers(c), rows)
  BY <1>0 DEF Answered
<1>1. CASE Answer(p, "invite", MayInvite(c.by, c.space, c.user, c.role),
                  InviteRow(c.by, c.space, c.user, c.role))
  <2>1. Admitted(p, ForeignUsers(c), InviteRow(c.by, c.space, c.user, c.role))
    BY <1>1 DEF Answer, Refused, Admitted, Decided, DecidedInvitation
  <2> QED BY <2>1
<1>2. CASE Answer(p, "accept", MayAccept(c.by, c.row), AcceptRows(c.row))
  <2>1. MayAccept(c.by, c.row) BY <1>2 DEF Answer, Refused
  <2>2. MayAcceptLate(c.by, c.row) /\ c.row \notin lapsed BY <2>1 DEF MayAccept, MayAcceptLate
  <2>3. Admitted(p, ForeignUsers(c), AcceptRows(c.row))
    BY <1>2, <2>1, <2>2 DEF Answer, Admitted, Decided, DecidedInvitation
  <2> QED BY <2>3
<1>3. CASE Answer(p, "revoke", MayRevoke(c.by, c.row), RevokeRows(c.row))
  <2>1. MayRevoke(c.by, c.row) BY <1>3 DEF Answer, Refused
  <2>2. CASE c.row \in lapsed
    <3>1. RevokeRows(c.row) = NoChange /\ DOMAIN NoChange.invite = {}
      BY <2>2 DEF RevokeRows, NoChange, Rows, NoRows
    <3>2. Admitted(p, ForeignUsers(c), RevokeRows(c.row))
      BY <1>3, <2>1, <3>1 DEF Answer, Admitted, Decided
    <3> QED BY <3>2
  <2>3. CASE c.row \notin lapsed
    <3>1. RevokeRows(c.row) = RevokedRow(c.row) BY <2>3 DEF RevokeRows, RevokedRow
    <3>2. Admitted(p, ForeignUsers(c), RevokeRows(c.row))
      BY <1>3, <2>1, <2>3, <3>1 DEF Answer, Admitted, Decided, DecidedInvitation
    <3> QED BY <3>2
  <2> QED BY <2>2, <2>3
<1> QED BY <1>1, <1>2, <1>3 DEF DecideInvitation

LEMMA AccountAnswer == ASSUME NEW p, DecideAccount(p) PROVE Answered(p) /\ ~Deactivates(tx[p].cmd)
<1> DEFINE c == tx[p].cmd
<1>1. CASE c.op = "set_active" /\ c.on
           /\ Answer(p, "set_active", MaySetActive(c.by, c.user, TRUE), SetActiveRows(c.user, TRUE))
  <2>1. ~Deactivates(c) BY <1>1 DEF Deactivates
  <2>2. CASE Refused(p) BY <2>1, <2>2 DEF Answered
  <2>3. CASE ~Refused(p)
    <3>1. MaySetActive(c.by, c.user, TRUE) BY <1>1, <2>3 DEF Answer, Refused
    <3>2. MaySetActive(c.by, c.user, c.on) BY <1>1, <3>1 DEF MaySetActive
    <3>3. SetActiveRows(c.user, TRUE) = SetActiveRows(c.user, c.on)
      BY <1>1 DEF SetActiveRows
    <3>4. Admitted(p, ForeignUsers(c), SetActiveRows(c.user, TRUE))
      BY <1>1, <3>1, <3>2, <3>3 DEF Answer, Admitted, Decided, DecidedAccount
    <3> QED BY <2>1, <3>4 DEF Answered
  <2> QED BY <2>2, <2>3
<1>2. CASE Answer(p, "set_system_role", MaySetSystemRole(c.by, c.user, c.role),
                  SetSystemRoleRows(c.user, c.role))
  <2>1. ~Deactivates(c) BY <1>2 DEF Deactivates, Answer
  <2>2. CASE Refused(p) BY <2>1, <2>2 DEF Answered
  <2>3. CASE ~Refused(p)
    <3>1. Admitted(p, ForeignUsers(c), SetSystemRoleRows(c.user, c.role))
      BY <1>2, <2>3 DEF Answer, Refused, Admitted, Decided, DecidedAccount
    <3> QED BY <2>1, <3>1 DEF Answered
  <2> QED BY <2>2, <2>3
<1> QED BY <1>1, <1>2 DEF DecideAccount

LEMMA DecideStep ==
  ASSUME TxInv, NEW p \in Processes, Decide(p)
  PROVE  TxInv' /\ AbstractStep
<1> DEFINE c == tx[p].cmd
<1>0. /\ TypeOK /\ TxTypeOK
      /\ tx[p].pc = "lock" /\ ~Waiting(p) /\ c \in Requests
      /\ UNCHANGED tables
  <2>1. TypeOK /\ TxTypeOK BY DEF TxInv
  <2>2. tx[p].pc = "lock" /\ ~Waiting(p) /\ UNCHANGED tables
    BY DEF Decide, DecideMember, DecideWorkspace, DecideInvitation, DecideAccount, Fence, Answer
  <2> QED BY <2>1, <2>2 DEF TxTypeOK
<1>1. ForeignUsers(c) \in Seq(Locks) BY <1>0, ForeignLocks
<1>2. CASE Refused(p) BY <1>0, <1>2, ResetStep DEF Refused
<1>3. CASE ~Refused(p) /\ Answered(p) /\ ~Deactivates(c)
  <2>1. PICK rows : Admitted(p, ForeignUsers(c), rows) BY <1>3 DEF Answered
  <2> QED BY <1>0, <1>1, <1>3, <2>1, DecisionStep DEF Admitted
<1>4. CASE ~Refused(p) /\ Fence(p)
  <2>1. c.op = "set_active" /\ ~c.on /\ c.on \in BOOLEAN /\ c.user \in Users
    BY <1>0, <1>4, RequestParts, RequestsAssumption DEF Fence, AccountOps
  <2>2. /\ MaySetActive(c.by, c.user, FALSE)
        /\ tx' = [tx EXCEPT ![p] = [@ EXCEPT !.pc = "flush", !.rows = SetActiveRows(c.user, FALSE),
                                             !.todo = FencedSpaces(c.user) \o ForeignUsers(c)]]
    BY <1>4 DEF Fence, Refused
  <2>3. c.on = FALSE BY <2>1
  <2>4. Decided(c, SetActiveRows(c.user, FALSE))
    BY <2>1, <2>2, <2>3 DEF Decided, DecidedAccount
  <2>5. /\ FencedSpaces(c.user) \in Seq(Locks)
        /\ \A w \in Workspaces : CurrentOf(w, c.user) # {} =>
             OnSpace(w, "U") \in Elements(FencedSpaces(c.user))
    BY <2>1, FenceCovers
  <2> DEFINE todo == FencedSpaces(c.user) \o ForeignUsers(c)
             rows == SetActiveRows(c.user, FALSE)
  <2>6. /\ todo \in Seq(Locks)
        /\ \A w \in Workspaces : CurrentOf(w, c.user) # {} => OnSpace(w, "U") \in Elements(todo)
    BY <1>1, <2>5, JoinElements
  <2>7. tx' = [tx EXCEPT ![p] = [@ EXCEPT !.pc = "flush", !.todo = todo, !.rows = rows]]
    BY <2>2
  <2> HIDE DEF todo, rows
  <2>8. Decided(c, rows) BY <2>4 DEF rows
  <2> QED BY <1>0, <2>1, <2>6, <2>7, <2>8, DecisionStep
<1>5. (Answered(p) /\ ~Deactivates(c)) \/ Fence(p)
  <2>1. CASE DecideMember(p)
    BY <2>1, MemberAnswer DEF DecideMember, Answer, Deactivates
  <2>2. CASE DecideWorkspace(p)
    BY <2>2, WorkspaceAnswer DEF DecideWorkspace, Answer, Deactivates
  <2>3. CASE DecideInvitation(p)
    BY <2>3, InvitationAnswer DEF DecideInvitation, Answer, Deactivates
  <2>4. CASE DecideAccount(p) BY <2>4, AccountAnswer
  <2> QED BY <2>1, <2>2, <2>3, <2>4 DEF Decide
<1> QED BY <1>2, <1>3, <1>4, <1>5

-------------------------------------------------------------------------------
(* A commit publishes the rows and is the command its client asked for.       *)

LEMMA CommitParts ==
  ASSUME TxInv, NEW p \in Processes, Commit(p)
  PROVE  /\ tx[p].cmd \in Requests /\ Decided(tx[p].cmd, tx[p].rows) /\ Write(tx[p].rows)
         /\ tx[p].pc = "flush" /\ Elements(Plan(tx[p].cmd)) \subseteq tx[p].held
         /\ Deactivates(tx[p].cmd) => \A w \in Workspaces :
              CurrentOf(w, tx[p].cmd.user) # {} => OnSpace(w, "U") \in tx[p].held
         /\ tx' = [tx EXCEPT ![p] = Idle]
<1>1. tx[p].pc = "flush" /\ tx[p].todo = <<>> /\ ~Stale(p) BY DEF Commit, Waiting
<1>2. ~Outdated(tx[p].rows) BY <1>1 DEF Stale, Outdated
<1>3. Lawful(tx[p]) /\ TxTypeOK BY LawfulTransactions
<1>4. Elements(tx[p].todo) = {} BY <1>1, EmptyElements
<1> QED BY <1>1, <1>2, <1>3, <1>4 DEF Commit, Lawful, TxTypeOK

\* The invitation that an acceptance or a revocation carried is closed.
LEMMA CarriedIsClosed ==
  ASSUME TypeOK, NEW c \in Requests, NEW r, Decided(c, r), Write(r),
         c.op \in {"accept", "revoke"}, c.row \in DOMAIN r.invite
  PROVE  invite'[c.row].status # "pending"
<1>0. c.row \in InviteIds BY RequestParts
<1>1. invite[c.row] \in InviteRows /\ invite'[c.row] = r.invite[c.row]
  BY <1>0 DEF TypeOK, Write, Put
<1>2. r # NoChange BY DEF NoChange, Rows, NoRows
<1>3. DecidedInvitation(c, r)
  BY <1>2 DEF Decided, DecidedMember, DecidedWorkspace, DecidedCreation, DecidedAccount
<1>4. CASE c.op = "accept"
  <2>1. r = AcceptRows(c.row) BY <1>3, <1>4 DEF DecidedInvitation
  <2>2. r.invite = [x \in PendingOf(c.row[1], c.row[2]) |->
                      [invite[x] EXCEPT !.status = IF x = c.row THEN "accepted" ELSE "revoked"]]
    BY <2>1 DEF AcceptRows, Rows
  <2>3. r.invite[c.row] = [invite[c.row] EXCEPT !.status = "accepted"] BY <2>2
  <2> QED BY <1>1, <2>3 DEF InviteRows
<1>5. CASE c.op = "revoke"
  <2>1. r = RevokedRow(c.row) BY <1>3, <1>5 DEF DecidedInvitation
  <2>2. r.invite[c.row] = [invite[c.row] EXCEPT !.status = "revoked"]
    BY <2>1 DEF RevokedRow, Rows, Revoked
  <2> QED BY <1>1, <2>2 DEF InviteRows
<1> QED BY <1>4, <1>5

\* So the abstract expiries are written as the commands write them.
LEMMA CommitExpiries ==
  ASSUME TxInv, NEW p \in Processes, Commit(p)
  PROVE  (lapsed \ Carried)' = {i \in lapsed \ Carried : invite'[i].status = "pending"}
<1>0. TypeOK /\ TxTypeOK BY DEF TxInv
<1>1. /\ tx[p].cmd \in Requests /\ Decided(tx[p].cmd, tx[p].rows) /\ Write(tx[p].rows)
      /\ tx' = [tx EXCEPT ![p] = Idle]
  BY CommitParts
<1>2. /\ tx'[p] = Idle
      /\ \A q \in Processes : q # p => tx'[q] = tx[q]
  BY <1>0, <1>1, IdleLawful, Replaced
<1>3. lapsed' = {i \in lapsed : invite'[i].status = "pending"} BY <1>1 DEF Write
<1>4. Carried' = {i \in InviteIds : \E k \in Processes : Carries(tx'[k], i)}
  BY DEF Carried, Carries
<1>5. \A i : Carries(tx[p], i) => invite'[i].status # "pending"
  BY <1>0, <1>1, CarriedIsClosed DEF Carries
<1>6. Carried' \subseteq Carried BY <1>2, <1>4, CarriedRows, IdleLawful
<1>7. \A i \in Carried : i \in Carried' \/ invite'[i].status # "pending"
  BY <1>2, <1>4, <1>5, CarriedRows
<1> QED BY <1>3, <1>6, <1>7

LEMMA MemberCommanded ==
  ASSUME NEW p \in Processes, DecidedMember(tx[p].cmd, tx[p].rows), Atomic!Write(tx[p].rows)
  PROVE  Commanded(p)
<1> DEFINE c == tx[p].cmd
           r == tx[p].rows
<1>1. CASE c.op = "set_role" /\ MaySetRole(c.by, c.row, c.role) /\ r = SetRoleRows(c.row, c.role)
  <2>1. Atomic!SetRole(c.by, c.row, c.role) BY <1>1, AtomicMembers DEF Atomic!SetRole
  <2> QED BY <1>1, <2>1 DEF Commanded
<1>2. CASE c.op = "suspend" /\ MaySuspend(c.by, c.row) /\ r = SuspendRows(c.row)
  <2>1. Atomic!Suspend(c.by, c.row) BY <1>2, AtomicMembers DEF Atomic!Suspend
  <2> QED BY <1>2, <2>1 DEF Commanded
<1>3. CASE c.op = "reactivate" /\ MayReactivate(c.by, c.row) /\ r = ReactivateRows(c.row)
  <2>1. Atomic!Reactivate(c.by, c.row) BY <1>3, AtomicMembers DEF Atomic!Reactivate
  <2> QED BY <1>3, <2>1 DEF Commanded
<1>4. CASE c.op = "terminate" /\ MayTerminate(c.by, c.row) /\ r = EndRows(c.row)
  <2>1. Atomic!Terminate(c.by, c.row) BY <1>4, AtomicMembers DEF Atomic!Terminate
  <2> QED BY <1>4, <2>1 DEF Commanded
<1>5. CASE c.op = "leave" /\ MayLeave(c.by, c.row) /\ r = EndRows(c.row)
  <2>1. Atomic!Leave(c.by, c.row) BY <1>5, AtomicMembers DEF Atomic!Leave
  <2> QED BY <1>5, <2>1 DEF Commanded
<1>6. CASE c.op = "transfer" /\ MayTransfer(c.by, c.row) /\ r = TransferRows(c.row)
  <2>1. Atomic!Transfer(c.by, c.row) BY <1>6, AtomicMembers DEF Atomic!Transfer
  <2> QED BY <1>6, <2>1 DEF Commanded
<1>7. CASE c.op = "select" /\ MaySelect(c.by, c.row, c.on) /\ r = SelectRows(c.row, c.on)
  <2>1. Atomic!Select(c.by, c.row, c.on) BY <1>7, AtomicMembers DEF Atomic!Select
  <2> QED BY <1>7, <2>1 DEF Commanded
<1> QED BY <1>1, <1>2, <1>3, <1>4, <1>5, <1>6, <1>7 DEF DecidedMember

LEMMA WorkspaceCommanded ==
  ASSUME NEW p \in Processes, Atomic!Write(tx[p].rows),
         DecidedWorkspace(tx[p].cmd, tx[p].rows) \/ DecidedCreation(tx[p].cmd, tx[p].rows)
  PROVE  Commanded(p)
<1> DEFINE c == tx[p].cmd
           r == tx[p].rows
<1>1. CASE c.op = "reassign" /\ MayReassign(c.by, c.space, c.user, c.expected)
           /\ r = ReassignRows(c.space, c.user)
  <2>1. Atomic!Reassign(c.by, c.space, c.user, c.expected)
    BY <1>1, AtomicRoots DEF Atomic!Reassign
  <2> QED BY <1>1, <2>1 DEF Commanded
<1>2. CASE c.op = "freeze" /\ MaySetFrozen(c.by, c.space) /\ r = SetFrozenRows(c.space, TRUE)
  <2>1. Atomic!Freeze(c.by, c.space) BY <1>2, AtomicRoots DEF Atomic!Freeze
  <2> QED BY <1>2, <2>1 DEF Commanded
<1>3. CASE c.op = "unfreeze" /\ MaySetFrozen(c.by, c.space) /\ r = SetFrozenRows(c.space, FALSE)
  <2>1. Atomic!Unfreeze(c.by, c.space) BY <1>3, AtomicRoots DEF Atomic!Unfreeze
  <2> QED BY <1>3, <2>1 DEF Commanded
<1>4. CASE c.op = "archive" /\ MayArchive(c.by, c.space) /\ r = StateRows(c.space, "archived")
  <2>1. Atomic!Archive(c.by, c.space) BY <1>4, AtomicRoots DEF Atomic!Archive
  <2> QED BY <1>4, <2>1 DEF Commanded
<1>5. CASE c.op = "restore" /\ MayRestore(c.by, c.space) /\ r = StateRows(c.space, "active")
  <2>1. Atomic!Restore(c.by, c.space) BY <1>5, AtomicRoots DEF Atomic!Restore
  <2> QED BY <1>5, <2>1 DEF Commanded
<1>6. CASE c.op = "delete" /\ MayDelete(c.by, c.space) /\ r = DeleteRows(c.space)
  <2>1. Atomic!Delete(c.by, c.space) BY <1>6, AtomicRoots DEF Atomic!Delete
  <2> QED BY <1>6, <2>1 DEF Commanded
<1>7. CASE DecidedCreation(c, r)
  <2>1. Atomic!Create(c.by, c.space, c.user)
    BY <1>7, AtomicRoots DEF Atomic!Create, DecidedCreation
  <2> QED BY <1>7, <2>1 DEF Commanded, DecidedCreation
<1> QED BY <1>1, <1>2, <1>3, <1>4, <1>5, <1>6, <1>7 DEF DecidedWorkspace

LEMMA AcceptedInvites == \A i : DOMAIN AcceptRows(i).invite = PendingOf(i[1], i[2])
BY DEF AcceptRows, Rows

\* An invitation that lapsed after its check is carried: it lapses later.
LEMMA InvitationCommanded ==
  ASSUME NEW p \in Processes, tx[p].pc = "flush", tx[p].cmd \in Requests,
         DecidedInvitation(tx[p].cmd, tx[p].rows), Atomic!Write(tx[p].rows)
  PROVE  Commanded(p)
<1> DEFINE c == tx[p].cmd
           r == tx[p].rows
<1>0. c.op \in {"accept", "revoke"} => c.row \in InviteIds BY RequestParts
<1>a. ASSUME c.op \in {"accept", "revoke"}, c.row \in DOMAIN r.invite
      PROVE  c.row \notin lapsed \ Carried
  BY <1>0, <1>a DEF Carried
<1>1. CASE c.op = "invite" /\ MayInvite(c.by, c.space, c.user, c.role)
           /\ r = InviteRow(c.by, c.space, c.user, c.role)
  <2>1. Atomic!Invite(c.by, c.space, c.user, c.role)
    BY <1>1, AtomicInvites DEF Atomic!Invite
  <2> QED BY <1>1, <2>1 DEF Commanded
<1>2. CASE c.op = "accept" /\ MayAcceptLate(c.by, c.row) /\ r = AcceptRows(c.row)
  <2>1. c.row[1] \in Workspaces /\ c.row[2] \in Users BY <1>0, <1>2, InviteParts
  <2>2. c.row \in PendingOf(c.row[1], c.row[2])
    BY <1>0, <1>2, <2>1, InPairInvites DEF PendingOf, MayAcceptLate
  <2>3. DOMAIN r.invite = PendingOf(c.row[1], c.row[2]) BY <1>2, AcceptedInvites
  <2>4. Atomic!MayAccept(c.by, c.row)
    BY <1>2, <1>a, <2>2, <2>3, AtomicReads DEF Atomic!MayAccept, MayAcceptLate
  <2>5. Atomic!Accept(c.by, c.row) BY <1>2, <2>4, AtomicInvites DEF Atomic!Accept
  <2> QED BY <1>2, <2>5 DEF Commanded
<1>3. CASE c.op = "revoke" /\ MayRevoke(c.by, c.row) /\ r = RevokedRow(c.row)
  <2>1. DOMAIN r.invite = {c.row} BY <1>3 DEF RevokedRow, Rows, Revoked
  <2>2. Atomic!RevokeRows(c.row) = RevokedRow(c.row)
    BY <1>3, <1>a, <2>1, AtomicRows DEF Atomic!RevokeRows, RevokedRow
  <2>3. Atomic!Revoke(c.by, c.row) BY <1>3, <2>2, AtomicInvites DEF Atomic!Revoke
  <2> QED BY <1>3, <2>3 DEF Commanded
<1> QED BY <1>1, <1>2, <1>3 DEF DecidedInvitation

LEMMA AccountCommanded ==
  ASSUME NEW p \in Processes, DecidedAccount(tx[p].cmd, tx[p].rows), Atomic!Write(tx[p].rows)
  PROVE  Commanded(p)
<1> DEFINE c == tx[p].cmd
           r == tx[p].rows
<1>1. CASE /\ c.op = "set_active" /\ MaySetActive(c.by, c.user, c.on)
           /\ r = SetActiveRows(c.user, c.on)
  <2>1. Atomic!SetActive(c.by, c.user, c.on) BY <1>1, AtomicAccounts DEF Atomic!SetActive
  <2> QED BY <1>1, <2>1 DEF Commanded
<1>2. CASE /\ c.op = "set_system_role" /\ MaySetSystemRole(c.by, c.user, c.role)
           /\ r = SetSystemRoleRows(c.user, c.role)
  <2>1. Atomic!SetSystemRole(c.by, c.user, c.role)
    BY <1>2, AtomicAccounts DEF Atomic!SetSystemRole
  <2> QED BY <1>2, <2>1 DEF Commanded
<1> QED BY <1>1, <1>2 DEF DecidedAccount

LEMMA CommitIsCommand ==
  ASSUME TxInv, NEW p \in Processes, Commit(p), tx[p].rows # NoChange
  PROVE  AbstractStep
<1>0. TxTypeOK BY DEF TxInv
<1>1. /\ tx[p].cmd \in Requests /\ Decided(tx[p].cmd, tx[p].rows) /\ Write(tx[p].rows)
      /\ tx[p].pc = "flush" /\ tx' = [tx EXCEPT ![p] = Idle]
  BY CommitParts
<1>2. tx'[p] = Idle BY <1>0, <1>1, IdleLawful, Replaced
<1>3. Atomic!Write(tx[p].rows) BY <1>1, CommitExpiries, AtomicWrite
<1>4. Commanded(p)
  BY <1>1, <1>3, MemberCommanded, WorkspaceCommanded, InvitationCommanded, AccountCommanded
     DEF Decided
<1> QED BY <1>1, <1>2, <1>4 DEF AbstractStep, CommandCommits

LEMMA CommitKeeps ==
  ASSUME TxInv, NEW p \in Processes, Commit(p), tx[p].rows # NoChange
  PROVE  TxInv'
<1> DEFINE c == tx[p].cmd
           r == tx[p].rows
<1>0. /\ TypeOK /\ TxTypeOK /\ Exclusive
      /\ \A q \in Processes : Lawful(tx[q]) /\ Shaped(tx[q])
  BY LawfulTransactions, ShapedTransactions
<1>1. /\ c \in Requests /\ Decided(c, r) /\ Write(r)
      /\ Elements(Plan(c)) \subseteq tx[p].held
      /\ Deactivates(c) => \A w \in Workspaces :
           CurrentOf(w, c.user) # {} => OnSpace(w, "U") \in tx[p].held
      /\ tx' = [tx EXCEPT ![p] = Idle]
  BY CommitParts
<1>2. /\ TxTypeOK' /\ tx'[p] = Idle
      /\ \A q \in Processes : q # p => tx'[q] = tx[q]
  BY <1>0, <1>1, IdleLawful, Replaced
<1>3. TypeOK' /\ Bounded(c) BY <1>0, <1>1, CommitEffects
<1>4. LapsedPending' BY <1>1 DEF LapsedPending, Pending, Write
<1>5. Exclusive'
  <2>1. Idle.held = {} BY DEF Idle
  <2> QED BY <1>0, <1>2, <2>1 DEF Exclusive
<1>6. ASSUME NEW q \in Processes, q # p, tx[q].pc = "flush", Deactivates(tx[q].cmd),
             NEW u, u = tx[q].cmd.user, NEW w \in Workspaces, CurrentOf(w, u)' # {}
      PROVE  CurrentOf(w, u) # {}
  <2>1. tx[q].cmd \in Requests /\ tx[q].cmd.op \in AccountOps /\ u \in Users
    <3>1. tx[q].cmd \in Requests /\ tx[q].cmd.op \in AccountOps
      BY <1>0, <1>6 DEF Shaped, Deactivates, AccountOps
    <3> QED BY <1>6, <3>1, RequestParts
  <2>2. OnUser(u, "NKU") \in tx[q].held BY <1>0, <1>6, <2>1, PlanLocks DEF Lawful
  <2>3. u \notin LockedUsers(c)
    <3> SUFFICES ASSUME u \in LockedUsers(c) PROVE FALSE OBVIOUS
    <3>1. PICK mode \in {"S", "NKU", "U"} : OnUser(u, mode) \in tx[p].held
      BY <1>1, PlanLocks
    <3>2. Blocks(OnUser(u, mode), OnUser(u, "NKU")) BY Conflicting
    <3> QED BY <1>0, <1>6, <2>2, <3>1, <3>2 DEF Exclusive
  <2> QED BY <1>3, <1>6, <2>1, <2>3 DEF Bounded
<1>7. ASSUME NEW q \in Processes, q # p, Outdated(tx[q].rows)
      PROVE  \E i \in DOMAIN tx[q].rows.invite \cap InviteIds :
               invite'[i].status = "gone" /\ tx[q].rows.invite[i].status # "gone"
  <2>1. PICK i \in DOMAIN tx[q].rows.invite \cap InviteIds :
          invite[i].status = "gone" /\ tx[q].rows.invite[i].status # "gone"
    BY <1>7 DEF Outdated
  <2>2. invite'[i] = invite[i] \/ (i \in DOMAIN r.invite /\ invite'[i] = r.invite[i])
    BY <1>0, <1>1, <2>1, Written
  <2>3. i \in DOMAIN r.invite => r.invite[i].status = "gone"
    <3>1. ~Stale(p) BY DEF Commit
    <3> QED BY <2>1, <3>1 DEF Stale
  <2> QED BY <2>1, <2>2, <2>3
<1>8. ASSUME NEW q \in Processes, q # p, tx[q].pc = "flush", Decided(tx[q].cmd, tx[q].rows),
             NEW d, d = tx[q].cmd, NEW s, s = tx[q].rows
      PROVE  Decided(d, s)' \/ Outdated(s)'
  <2>0. d \in Requests BY <1>0, <1>8 DEF Shaped
  <2>1. CASE s = NoChange
    <3>1. NoChange' = NoChange BY DEF NoChange, Rows, NoRows
    <3> QED BY <2>1, <3>1 DEF Decided
  <2>2. CASE s # NoChange
    <3>1. Elements(Plan(d)) \subseteq tx[q].held BY <1>0, <1>8 DEF Lawful
    <3>2. \A g \in tx[q].held, h \in tx[p].held : ~Blocks(g, h)
      BY <1>0, <1>8 DEF Exclusive
    <3>3. Undisturbed(d)
      BY <1>0, <1>1, <1>3, <1>8, <2>0, <2>2, <3>1, <3>2, LocksKeepReads
    <3> QED BY <1>0, <1>3, <1>8, <2>0, <3>3, DecidedStays
  <2> QED BY <2>1, <2>2
<1>9. ASSUME NEW q \in Processes PROVE Lawful(tx[q])'
  <2>1. CASE q = p
    <3>1. tx'[q] = Idle BY <1>2, <2>1
    <3> QED BY <3>1 DEF Lawful, Idle
  <2>2. CASE q # p
    <3>1. PICK k : k = tx[q] OBVIOUS
    <3>2. tx'[q] = k BY <1>2, <2>2, <3>1
    <3>3. Shaped(k) /\ Lawful(k) BY <1>0, <3>1
    <3>4. k.pc = "flush" /\ Deactivates(k.cmd) => \A w \in Workspaces :
            CurrentOf(w, k.cmd.user)' # {} => CurrentOf(w, k.cmd.user) # {}
      <4>1. PICK u : u = k.cmd.user OBVIOUS
      <4> QED BY <1>6, <2>2, <3>1, <4>1
    <3>5. k.pc = "flush" => Outdated(k.rows)' \/ Decided(k.cmd, k.rows)'
      <4>1. CASE Outdated(k.rows) BY <1>7, <2>2, <3>1, <4>1 DEF Outdated
      <4>2. CASE k.pc = "flush" /\ Decided(k.cmd, k.rows) BY <1>8, <2>2, <3>1, <4>2
      <4> QED BY <3>3, <4>1, <4>2 DEF Lawful
    <3>6. Lawful(k)' BY <3>3, <3>4, <3>5 DEF Lawful
    <3> QED BY <3>2, <3>6 DEF Lawful
  <2> QED BY <2>1, <2>2
<1> QED
  BY <1>2, <1>3, <1>4, <1>5, <1>9 DEF TxInv, PlanKept, FenceStands, DecisionsStand, Lawful

LEMMA CommitStep ==
  ASSUME TxInv, NEW p \in Processes, Commit(p)
  PROVE  TxInv' /\ AbstractStep
<1>1. CASE tx[p].rows # NoChange BY <1>1, CommitKeeps, CommitIsCommand
<1>2. CASE tx[p].rows = NoChange
  <2>1. Write(NoChange) /\ tx' = [tx EXCEPT ![p] = Idle] BY <1>2, CommitParts
  <2>2. TypeOK /\ LapsedPending BY DEF TxInv
  <2>3. UNCHANGED <<user, space, member, invite, seat>> BY <2>1, <2>2, NothingWritten
  <2>4. lapsed' = lapsed BY <2>1, <2>2, <2>3 DEF Write, LapsedPending, Pending
  <2>5. UNCHANGED tables BY <2>3, <2>4 DEF tables
  <2> QED BY <2>1, <2>5, ResetStep
<1> QED BY <1>1, <1>2

-------------------------------------------------------------------------------
(* Steps of retention and of time, between those of the processes.            *)

LEMMA EnvironmentKeeps ==
  ASSUME TxInv, TypeOK', LapsedPending', tx' = tx,
         \A c \in Requests : Undisturbed(c),
         \A w \in Workspaces, u \in Users : CurrentOf(w, u)' = CurrentOf(w, u),
         \A i \in InviteIds : invite[i].status = "gone" => invite'[i].status = "gone"
  PROVE  TxInv'
<1>0. /\ TypeOK /\ TxTypeOK /\ Exclusive
      /\ \A q \in Processes : Lawful(tx[q]) /\ Shaped(tx[q])
  BY LawfulTransactions, ShapedTransactions
<1>1. TxTypeOK' /\ Exclusive' BY <1>0 DEF TxTypeOK, Transaction, Exclusive
<1>2. ASSUME NEW q \in Processes PROVE Lawful(tx[q])'
  <2>1. PICK k : k = tx[q] OBVIOUS
  <2>2. Outdated(k.rows) => Outdated(k.rows)' BY DEF Outdated
  <2>3. Lawful(k)' BY <1>0, <2>1, <2>2, LawfulSettled
  <2> QED BY <2>1, <2>3 DEF Lawful
<1> QED BY <1>1, <1>2 DEF TxInv, PlanKept, FenceStands, DecisionsStand, Lawful

LEMMA SettledLeavesAlone ==
  ASSUME TypeOK, TypeOK', user' = user, \A w \in Workspaces : Settled(w)
  PROVE  /\ \A c \in Requests : Undisturbed(c)
         /\ \A w \in Workspaces, u \in Users : CurrentOf(w, u)' = CurrentOf(w, u)
<1>1. \A c \in Requests : c.op \notin AccountOps => c.space \in Workspaces BY RequestParts
<1> QED BY <1>1, SettledReads DEF Undisturbed

LEMMA RetireStep ==
  ASSUME TxInv, Retire PROVE TxInv' /\ AbstractStep
<1>0. TypeOK BY DEF TxInv
<1>1. PICK oldInvites \in SUBSET TerminalInvites, oldMembers \in SUBSET EndedMembers :
        Write(Rows(NoRows, NoRows,
                   [m \in oldMembers |-> [member[m] EXCEPT !.status = "gone"]],
                   [i \in oldInvites |-> [invite[i] EXCEPT !.status = "gone"]],
                   NoRows))
  BY DEF Retire, PurgeHistory
<1> DEFINE r == Rows(NoRows, NoRows,
                     [m \in oldMembers |-> [member[m] EXCEPT !.status = "gone"]],
                     [i \in oldInvites |-> [invite[i] EXCEPT !.status = "gone"]],
                     NoRows)
<1>2. /\ \A v \in Workspaces : space'[v] = space[v]
      /\ \A x \in MemberIds : member'[x] =
           IF x \in oldMembers THEN [member[x] EXCEPT !.status = "gone"] ELSE member[x]
      /\ \A x \in InviteIds : invite'[x] =
           IF x \in oldInvites THEN [invite[x] EXCEPT !.status = "gone"] ELSE invite[x]
  BY <1>0, <1>1, Written DEF Rows, NoRows
<1>3. user' = user /\ tx' = tx
  BY <1>0, <1>1, PutNothing DEF Write, Rows, TypeOK, Retire
<1>4. TypeOK' BY <1>0, <1>1, PurgeRowTypes, WriteType
<1>5. \A w \in Workspaces : Settled(w)
  BY <1>2 DEF Settled, TerminalInvites, EndedMembers
<1>6. \A i \in InviteIds : invite[i].status = "gone" => invite'[i].status = "gone"
  BY <1>2 DEF TerminalInvites
<1>7. lapsed' = {i \in lapsed : invite'[i].status = "pending"} BY <1>1 DEF Write
<1>8. LapsedPending' BY <1>7 DEF LapsedPending, Pending
<1>9. TxInv'
  BY <1>0, <1>3, <1>4, <1>5, <1>6, <1>8, SettledLeavesAlone, EnvironmentKeeps
<1>10. Carried' = Carried BY <1>3 DEF Carried
<1>11. (lapsed \ Carried)' = {i \in lapsed \ Carried : invite'[i].status = "pending"}
  BY <1>7, <1>10
<1>12. oldInvites \subseteq Atomic!TerminalInvites
  <2> SUFFICES ASSUME NEW i \in oldInvites PROVE i \in Atomic!TerminalInvites OBVIOUS
  <2>1. /\ i \in InviteIds /\ invite[i] \in InviteRows
        /\ \/ invite[i].status \in {"accepted", "revoked"}
           \/ invite[i].status = "pending" /\ i \in lapsed
    BY <1>0 DEF TerminalInvites, TypeOK
  <2>2. invite'[i].status = "gone" BY <1>2, <2>1 DEF InviteRows
  <2>3. \A j \in Carried : invite'[j] = invite[j] BY DEF Retire
  <2>4. i \notin Carried BY <2>1, <2>2, <2>3
  <2> QED BY <2>1, <2>4
          DEF Atomic!TerminalInvites, Atomic!InviteIds, InviteIds, Atomic!Serials, Serials
<1>13. oldMembers \subseteq Atomic!EndedMembers
  BY DEF EndedMembers, Atomic!EndedMembers, Atomic!MemberIds, MemberIds, Atomic!Gens, Gens
<1>14. Atomic!Write(r) BY <1>1, <1>11, AtomicWrite
<1>15. Atomic!PurgeHistory
  <2>1. Atomic!Write(Atomic!Rows(Atomic!NoRows, Atomic!NoRows,
                                 [m \in oldMembers |-> [member[m] EXCEPT !.status = "gone"]],
                                 [i \in oldInvites |-> [invite[i] EXCEPT !.status = "gone"]],
                                 Atomic!NoRows))
    BY <1>14, AtomicRows
  <2> QED BY <1>12, <1>13, <2>1 DEF Atomic!PurgeHistory
<1> QED BY <1>9, <1>15 DEF AbstractStep

LEMMA ExpireStep ==
  ASSUME TxInv, Expire PROVE TxInv' /\ AbstractStep
<1>0. TypeOK /\ LapsedPending BY DEF TxInv
<1>1. PICK i \in InviteIds : Lapse(i) BY DEF Expire
<1>2. /\ user' = user /\ space' = space /\ member' = member /\ invite' = invite
      /\ seat' = seat /\ tx' = tx /\ lapsed' = lapsed \cup {i}
  BY <1>1 DEF Lapse, Expire
<1>3. TypeOK' BY <1>0, <1>2 DEF TypeOK
<1>4. LapsedPending' BY <1>0, <1>1, <1>2 DEF LapsedPending, Pending, Lapse
<1>5. \A w \in Workspaces : Settled(w) BY <1>2, UnchangedIsSettled
<1>6. TxInv'
  BY <1>0, <1>2, <1>3, <1>4, <1>5, SettledLeavesAlone, EnvironmentKeeps
<1>7. Carried' = Carried BY <1>2 DEF Carried
<1>8. CASE i \in Carried
  <2>1. (lapsed \ Carried)' = lapsed \ Carried BY <1>2, <1>7, <1>8
  <2> QED BY <1>2, <1>6, <2>1 DEF AbstractStep
<1>9. CASE i \notin Carried
  <2>1. (lapsed \ Carried)' = (lapsed \ Carried) \cup {i} BY <1>2, <1>7, <1>9
  <2>2. Atomic!Lapse(i) BY <1>1, <1>2, <2>1 DEF Lapse, Atomic!Lapse
  <2> QED BY <1>6, <2>2 DEF AbstractStep
<1> QED BY <1>8, <1>9

-------------------------------------------------------------------------------
(* The theorems. *)

LEMMA InitTx == TxInit => TxInv /\ Atomic!Init
<1> SUFFICES ASSUME TxInit PROVE TxInv /\ Atomic!Init OBVIOUS
<1>1. Init /\ tx = [p \in Processes |-> Idle] BY DEF TxInit
<1>2. TypeOK BY <1>1, InitType
<1>3. \A p \in Processes : tx[p] = Idle BY <1>1
<1>4. tx = [p \in Processes |-> tx[p]] BY <1>1
<1>5. TxTypeOK BY <1>3, <1>4, IdleLawful, ShapedTransactions
<1>6. Exclusive BY <1>3 DEF Exclusive, Idle
<1>7. LapsedPending BY <1>1 DEF LapsedPending, Init
<1>8. TxInv BY <1>2, <1>3, <1>5, <1>6, <1>7, IdleLawful, LawfulTransactions
<1>9. Atomic!Init
  <2>1. lapsed \ Carried = {} BY <1>1 DEF Init
  <2>2. Atomic!SystemRoles = SystemRoles /\ (\A w : Atomic!Founded(w) <=> Founded(w))
    BY AtomicPolicy DEF Atomic!Founded, Founded
  <2> QED BY <1>1, <2>1, <2>2 DEF Init, Atomic!Init, Atomic!MemberIds, MemberIds,
        Atomic!InviteIds, InviteIds, Atomic!Gens, Gens, Atomic!Serials, Serials
<1> QED BY <1>8, <1>9

LEMMA StepTx ==
  ASSUME TxInv, [TxNext]_txVars PROVE TxInv' /\ AbstractStep
<1>0. TypeOK /\ TxTypeOK BY DEF TxInv
<1>1. ASSUME NEW p \in Processes, Rollback(p) PROVE TxInv' /\ AbstractStep
  BY <1>1, ResetStep DEF Rollback
<1>2. ASSUME NEW p \in Processes, Step(p) PROVE TxInv' /\ AbstractStep
  BY <1>1, <1>2, AcquireStep, DecideStep, CommitStep DEF Step, FailStale, Victim
<1>3. CASE UNCHANGED txVars
  <2>1. UNCHANGED tables /\ tx' = tx BY <1>3 DEF txVars, tables
  <2>2. /\ TypeOK' /\ \A c \in Requests : Undisturbed(c)
        /\ \A w, u : CurrentOf(w, u)' = CurrentOf(w, u)
    BY <1>0, <2>1, TablesStay
  <2>3. LapsedPending' BY <2>1 DEF TxInv, LapsedPending, Pending, tables
  <2>4. TxInv' BY <2>1, <2>2, <2>3, EnvironmentKeeps DEF tables
  <2>5. Carried' = Carried BY <2>1 DEF Carried
  <2> QED BY <2>1, <2>4, <2>5 DEF AbstractStep, tables
<1> QED BY <1>1, <1>2, <1>3, BeginStep, RetireStep, ExpireStep DEF TxNext, Finished

\* What every transaction has decided stays true until it commits: rows that are
\* right for the tables as they are, under locks that nobody else can hold.
THEOREM DecisionsOutliveOthers == TxSpec => []TxInv
<1>1. TxInit => TxInv BY InitTx
<1>2. TxInv /\ [TxNext]_txVars => TxInv' BY StepTx
<1> QED BY <1>1, <1>2, PTL DEF TxSpec

\* Commands that interleave under the locks of the code are the atomic commands
\* of Governance, each at its commit, for its own client.
THEOREM TransactionsImplementGovernance == TxSpec => ImplementsGovernance
<1>1. TxInit => TxInv /\ Atomic!Init BY InitTx
<1>2. TxInv /\ [TxNext]_txVars => TxInv' BY StepTx
<1>3. TxInv /\ [TxNext]_txVars =>
        [\/ \E p \in Processes : tx[p].pc = "flush" /\ tx'[p] = Idle /\ Commanded(p)
         \/ Atomic!PurgeHistory
         \/ \E i \in InviteIds : Atomic!Lapse(i)]_<<user, space, member, invite, lapsed \ Carried, seat>>
  BY StepTx DEF AbstractStep, CommandCommits
<1> QED BY <1>1, <1>2, <1>3, PTL DEF TxSpec, ImplementsGovernance

-------------------------------------------------------------------------------
(* What holds of the atomic commands holds of the tables that the            *)
(* transactions share, also when an invitation expires before the acceptance *)
(* that has checked it commits.                                              *)

\* The arguments of a request are those the atomic commands range over.
LEMMA RequestTypes ==
  ASSUME NEW c \in Requests
  PROVE  /\ c.op = "set_role" => c.role \in AskRoles
         /\ c.op = "invite" => c.role \in AskRoles
         /\ c.op = "set_system_role" => c.role \in SystemRoles
         /\ c.op \in {"select", "set_active"} => c.on \in BOOLEAN
         /\ c.op = "reassign" => c.expected \in Users
BY RequestsAssumption

LateStep == \E a \in Users, i \in InviteIds :
  \/ MayAcceptLate(a, i) /\ Write(AcceptRows(i))
  \/ MayRevoke(a, i) /\ Write(RevokedRow(i))

LEMMA CommitIsStep ==
  ASSUME NEW c \in Requests, NEW r, Decided(c, r), r # NoChange, Write(r)
  PROVE  Next \/ LateStep
<1>0. /\ c.by \in Users
      /\ c.op \notin AccountOps => c.space \in Workspaces
      /\ c.op \in MemberOps => c.row \in MemberIds
      /\ c.op \in {"accept", "revoke"} => c.row \in InviteIds
      /\ c.op \in {"reassign", "create", "invite"} \cup AccountOps => c.user \in Users
  BY RequestParts
<1>1. CASE DecidedMember(c, r)
  <2>1. c.row \in MemberIds BY <1>0, <1>1 DEF DecidedMember, MemberOps
  <2>2. \/ SetRole(c.by, c.row, c.role) /\ c.role \in AskRoles
        \/ Suspend(c.by, c.row)
        \/ Reactivate(c.by, c.row)
        \/ Terminate(c.by, c.row)
        \/ Leave(c.by, c.row)
        \/ Transfer(c.by, c.row)
        \/ Select(c.by, c.row, c.on) /\ c.on \in BOOLEAN
    BY <1>1, RequestTypes
       DEF DecidedMember, SetRole, Suspend, Reactivate, Terminate, Leave, Transfer, Select
  <2>3. MemberCommand BY <1>0, <2>1, <2>2 DEF MemberCommand
  <2> QED BY <2>3 DEF Next
<1>2. CASE DecidedWorkspace(c, r)
  <2>1. c.space \in Workspaces BY <1>0, <1>2 DEF DecidedWorkspace, AccountOps
  <2>2. \/ /\ Reassign(c.by, c.space, c.user, c.expected)
           /\ c.user \in Users /\ c.expected \in Users
        \/ Freeze(c.by, c.space)
        \/ Unfreeze(c.by, c.space)
        \/ Archive(c.by, c.space)
        \/ Restore(c.by, c.space)
        \/ Delete(c.by, c.space)
    BY <1>0, <1>2, RequestTypes
       DEF DecidedWorkspace, Reassign, Freeze, Unfreeze, Archive, Restore, Delete
  <2>3. WorkspaceCommand BY <1>0, <2>1, <2>2 DEF WorkspaceCommand
  <2> QED BY <2>3 DEF Next
<1>3. CASE DecidedCreation(c, r)
  <2>1. c.space \in Workspaces /\ c.user \in Users
    BY <1>0, <1>3 DEF DecidedCreation, AccountOps
  <2>2. Create(c.by, c.space, c.user) BY <1>3 DEF DecidedCreation, Create
  <2>3. WorkspaceCommand BY <1>0, <2>1, <2>2 DEF WorkspaceCommand
  <2> QED BY <2>3 DEF Next
<1>4. CASE DecidedInvitation(c, r)
  <2>1. CASE c.op = "invite"
    <3>1. c.space \in Workspaces /\ c.user \in Users /\ c.role \in AskRoles
      BY <1>0, <2>1, RequestTypes DEF AccountOps
    <3>2. Invite(c.by, c.space, c.user, c.role) BY <1>4, <2>1 DEF DecidedInvitation, Invite
    <3>3. InvitationCommand BY <1>0, <3>1, <3>2 DEF InvitationCommand
    <3> QED BY <3>3 DEF Next
  <2>2. CASE c.op \in {"accept", "revoke"}
    BY <1>0, <1>4, <2>2 DEF DecidedInvitation, LateStep
  <2> QED BY <1>4, <2>1, <2>2 DEF DecidedInvitation
<1>5. CASE DecidedAccount(c, r)
  <2>1. c.user \in Users BY <1>0, <1>5 DEF DecidedAccount, AccountOps
  <2>2. \/ SetActive(c.by, c.user, c.on) /\ c.on \in BOOLEAN
        \/ SetSystemRole(c.by, c.user, c.role) /\ c.role \in SystemRoles
    BY <1>5, RequestTypes DEF DecidedAccount, SetActive, SetSystemRole
  <2>3. AccountCommand BY <1>0, <2>1, <2>2 DEF AccountCommand
  <2> QED BY <2>3 DEF Next
<1> QED BY <1>1, <1>2, <1>3, <1>4, <1>5 DEF Decided

\* A late acceptance or revocation is as harmless as a timely one.
LEMMA LateStepKeeps ==
  ASSUME MembershipInv, AdministrationInv, TypeOK', LateStep
  PROVE  MembershipInv' /\ AdministrationInv'
<1>0. TypeOK /\ OwnershipInv BY DEF MembershipInv, OwnershipInv
<1>1. PICK a \in Users, i \in InviteIds :
        \/ MayAcceptLate(a, i) /\ Write(AcceptRows(i))
        \/ MayRevoke(a, i) /\ Write(RevokedRow(i))
  BY DEF LateStep
<1>2. CASE MayAcceptLate(a, i) /\ Write(AcceptRows(i))
  <2>1. OwnershipInv' BY <1>0, <1>2, AcceptKeepsInv
  <2>2. Orderly BY <1>2, AcceptAdmits
  <2>3. user' = user BY <1>0, <1>2, PutNothing DEF Write, AcceptRows, Rows, TypeOK
  <2>4. AdministrationInv'
    BY <2>3 DEF AdministrationInv, AdministratorRemains, Governs
  <2> QED BY <2>1, <2>2, <2>4, OrderlyInv
<1>3. CASE MayRevoke(a, i) /\ Write(RevokedRow(i))
  <2>1. Closing BY <1>3, RevokeCloses
  <2>2. user' = user /\ space' = space /\ member' = member
    BY <1>0, <1>3, PutNothing DEF Write, RevokedRow, Rows, TypeOK
  <2>3. OwnershipInv' BY <1>0, <2>2, KeptStatic, KeptInv
  <2>4. AdministrationInv'
    BY <2>2 DEF AdministrationInv, AdministratorRemains, Governs
  <2> QED BY <2>1, <2>3, <2>4, ClosingIsOrderly, OrderlyInv
<1> QED BY <1>1, <1>2, <1>3

\* The tables of a step change by an atomic command, a late one, or not at all.
LEMMA TablesStep ==
  ASSUME TxInv, [TxNext]_txVars PROVE [Next]_vars \/ LateStep
<1>1. ASSUME UNCHANGED tables PROVE [Next]_vars BY <1>1 DEF tables, vars
<1>2. CASE UNCHANGED txVars BY <1>1, <1>2 DEF txVars, tables
<1>3. ASSUME NEW p \in Processes, Commit(p) PROVE [Next]_vars \/ LateStep
  <2>1. tx[p].cmd \in Requests /\ Decided(tx[p].cmd, tx[p].rows) /\ Write(tx[p].rows)
    BY <1>3, CommitParts
  <2>2. CASE tx[p].rows = NoChange
    <3>1. TypeOK /\ LapsedPending BY DEF TxInv
    <3>2. UNCHANGED <<user, space, member, invite, seat>> BY <2>1, <2>2, <3>1, NothingWritten
    <3>3. lapsed' = lapsed BY <2>1, <3>1, <3>2 DEF Write, LapsedPending, Pending
    <3> QED BY <1>1, <3>2, <3>3 DEF tables
  <2>3. CASE tx[p].rows # NoChange BY <2>1, <2>3, CommitIsStep
  <2> QED BY <2>2, <2>3
<1>4. ASSUME NEW p \in Processes, Step(p), ~Commit(p) PROVE UNCHANGED tables
  BY <1>4 DEF Step, Acquire, Decide, DecideMember, DecideWorkspace, DecideInvitation, Fence,
              DecideAccount, Answer, FailStale, Victim, Rollback, tables
<1>5. ASSUME NEW p \in Processes, Rollback(p) PROVE UNCHANGED tables
  BY <1>5 DEF Rollback, tables
<1>6. ASSUME NEW p \in Processes, NEW c \in Requests, Begin(p, c) PROVE UNCHANGED tables
  BY <1>6 DEF Begin, tables
<1>7. CASE Retire BY <1>7 DEF Retire, Next
<1>8. CASE Expire BY <1>8 DEF Expire, Next
<1> QED BY <1>1, <1>2, <1>3, <1>4, <1>5, <1>6, <1>7, <1>8 DEF TxNext, Finished

\* Whatever transactions interleave, expire and are rolled back, the tables they
\* share have one owner per Workspace, memberships that agree with invitations
\* and selections, and an administrator.
THEOREM TransactionsKeepMemberships ==
  TxSpec => [](OneOwner /\ MembershipsSound /\ AdministratorRemains)
<1> DEFINE Sound == MembershipInv /\ AdministrationInv
<1>1. TxInit => Sound
  BY InitMembership, InitType
     DEF TxInit, Init, AdministrationInv, AdministratorRemains, Governs, MayGovernInstance
<1>2. TxInv /\ TxInv' /\ Sound /\ [TxNext]_txVars => Sound'
  <2> SUFFICES ASSUME TxInv, TxInv', Sound, [TxNext]_txVars PROVE Sound' OBVIOUS
  <2>1. TypeOK' BY DEF TxInv
  <2>2. CASE LateStep BY <2>1, <2>2, LateStepKeeps
  <2>3. CASE [Next]_vars BY <2>3, NextMembership, NextAdministration
  <2> QED BY <2>2, <2>3, TablesStep
<1>3. Sound => OneOwner /\ MembershipsSound /\ AdministratorRemains
  BY OwnerIsThere DEF MembershipInv, OwnershipInv, AdministrationInv, MembershipsSound
<1> QED BY <1>1, <1>2, <1>3, DecisionsOutliveOthers, PTL DEF TxSpec

-------------------------------------------------------------------------------
(* The pages of Offers are those that ProjectsProofs is about: Work is the same *)
(* text as the part of WorkProofs that is defined in Projects and Offers.       *)
(* Server processes and requests, which neither reads, are left empty.          *)

WorkProofs == INSTANCE ProjectsProofs WITH
  space <- within, member <- staff, seat <- seated,
  ProjectIds <- Rooms, Items <- Shelf, AskRoles <- Roles, Roster <- Engaged,
  Processes <- {}, Requests <- {}, LinkRank <- [i \in Shelf |-> i], Budget <- 0,
  tx <- <<>>, budget <- 0

LEMMA SameStart == Work!Init => WorkProofs!Init
BY DEF Work!Init, WorkProofs!Init, Work!MemberIds, WorkProofs!MemberIds, Work!Gens,
         WorkProofs!Gens

LEMMA SameCommands == Work!Next => WorkProofs!Next
BY DEF Work!Next, WorkProofs!Next, Work!Roles, WorkProofs!Roles, Work!Rank, WorkProofs!Rank,
         Work!Lifecycles, WorkProofs!Lifecycles, Work!Readable, WorkProofs!Readable,
         Work!Grant, WorkProofs!Grant, Work!ViewerGrants, WorkProofs!ViewerGrants,
         Work!ReviewerGrants, WorkProofs!ReviewerGrants, Work!EditorGrants,
         WorkProofs!EditorGrants, Work!AdminGrants, WorkProofs!AdminGrants, Work!OwnerGrants,
         WorkProofs!OwnerGrants, Work!Grants, WorkProofs!Grants, Work!Inherits,
         WorkProofs!Inherits, Work!Allowed, WorkProofs!Allowed, Work!Gens, WorkProofs!Gens,
         Work!MemberIds, WorkProofs!MemberIds, Work!Participations, WorkProofs!Participations,
         Work!Current, WorkProofs!Current, Work!Exists, WorkProofs!Exists, Work!Open,
         WorkProofs!Open, Work!May, WorkProofs!May, Work!SeatsOf, WorkProofs!SeatsOf,
         Work!UserSeats, WorkProofs!UserSeats, Work!Shows, WorkProofs!Shows, Work!Discovers,
         WorkProofs!Discovers, Work!Change, WorkProofs!Change, Work!Seats, WorkProofs!Seats,
         Work!Links, WorkProofs!Links, Work!Write, WorkProofs!Write, Work!MayTake,
         WorkProofs!MayTake, Work!MayJoin, WorkProofs!MayJoin, Work!JoinChange,
         WorkProofs!JoinChange, Work!Join, WorkProofs!Join, Work!MayLeave, WorkProofs!MayLeave,
         Work!LeaveChange, WorkProofs!LeaveChange, Work!Leave, WorkProofs!Leave,
         Work!MayCurate, WorkProofs!MayCurate, Work!MayAdd, WorkProofs!MayAdd, Work!Add,
         WorkProofs!Add, Work!MayRemove, WorkProofs!MayRemove, Work!RemoveChange,
         WorkProofs!RemoveChange, Work!Remove, WorkProofs!Remove, Work!MayUpdate,
         WorkProofs!MayUpdate, Work!UpdateChange, WorkProofs!UpdateChange, Work!Update,
         WorkProofs!Update, Work!MaySetState, WorkProofs!MaySetState, Work!StateChange,
         WorkProofs!StateChange, Work!SetState, WorkProofs!SetState, Work!MayDelete,
         WorkProofs!MayDelete, Work!DeleteChange, WorkProofs!DeleteChange, Work!Delete,
         WorkProofs!Delete, Work!MayCreate, WorkProofs!MayCreate, Work!CreateChange,
         WorkProofs!CreateChange, Work!Create, WorkProofs!Create, Work!MayLink,
         WorkProofs!MayLink, Work!LinksTo, WorkProofs!LinksTo, Work!Attach, WorkProofs!Attach,
         Work!Detach, WorkProofs!Detach, Work!Governed, WorkProofs!Governed, Work!Admit,
         WorkProofs!Admit, Work!Revise, WorkProofs!Revise, Work!End, WorkProofs!End,
         Work!MoveSpace, WorkProofs!MoveSpace, Work!Participate, WorkProofs!Participate,
         Work!Manage, WorkProofs!Manage, Work!Govern, WorkProofs!Govern

LEMMA SameOffers == WorkProofs!OffersStand => Work!OffersStand
BY DEF Work!Roles, WorkProofs!Roles, Work!Rank, WorkProofs!Rank, Work!Lifecycles,
         WorkProofs!Lifecycles, Work!Readable, WorkProofs!Readable, Work!Grant,
         WorkProofs!Grant, Work!ViewerGrants, WorkProofs!ViewerGrants, Work!ReviewerGrants,
         WorkProofs!ReviewerGrants, Work!EditorGrants, WorkProofs!EditorGrants,
         Work!AdminGrants, WorkProofs!AdminGrants, Work!OwnerGrants, WorkProofs!OwnerGrants,
         Work!Grants, WorkProofs!Grants, Work!Inherits, WorkProofs!Inherits, Work!Allowed,
         WorkProofs!Allowed, Work!Gens, WorkProofs!Gens, Work!MemberIds, WorkProofs!MemberIds,
         Work!Participations, WorkProofs!Participations, Work!Open, WorkProofs!Open, Work!May,
         WorkProofs!May, Work!SeatsOf, WorkProofs!SeatsOf, Work!UserSeats,
         WorkProofs!UserSeats, Work!Shows, WorkProofs!Shows, Work!Discovers,
         WorkProofs!Discovers, Work!Change, WorkProofs!Change, Work!MayTake,
         WorkProofs!MayTake, Work!MayJoin, WorkProofs!MayJoin, Work!MayLeave,
         WorkProofs!MayLeave, Work!MayCurate, WorkProofs!MayCurate, Work!MayRemove,
         WorkProofs!MayRemove, Work!MayUpdate, WorkProofs!MayUpdate, Work!UpdateChange,
         WorkProofs!UpdateChange, Work!MaySetState, WorkProofs!MaySetState, Work!MayDelete,
         WorkProofs!MayDelete, Work!CreateChange, WorkProofs!CreateChange, Work!MayLink,
         WorkProofs!MayLink, Work!Veils, WorkProofs!Veils, Work!AnnotationRows,
         WorkProofs!AnnotationRows, Work!Relation, WorkProofs!Relation, Work!Bound,
         WorkProofs!Bound, Work!Resource, WorkProofs!Resource, Work!Moderations,
         WorkProofs!Moderations, Work!Named, WorkProofs!Named, Work!Participates,
         WorkProofs!Participates, Work!ListedProjects, WorkProofs!ListedProjects,
         Work!JoinableProjects, WorkProofs!JoinableProjects, Work!AssignableProjects,
         WorkProofs!AssignableProjects, Work!ShownParticipants, WorkProofs!ShownParticipants,
         Work!CreationChoices, WorkProofs!CreationChoices, Work!ModeChoices,
         WorkProofs!ModeChoices, Work!ProjectDecisions, WorkProofs!ProjectDecisions,
         Work!InScope, WorkProofs!InScope, Work!Browsable, WorkProofs!Browsable, Work!Exported,
         WorkProofs!Exported, Work!ActiveAndVisible, WorkProofs!ActiveAndVisible,
         Work!EditableHint, WorkProofs!EditableHint, Work!AuthorOffers,
         WorkProofs!AuthorOffers, Work!ModeratorOffers, WorkProofs!ModeratorOffers,
         Work!ReplyResource, WorkProofs!ReplyResource, Work!ReplyHint, WorkProofs!ReplyHint,
         Work!MessageOffers, WorkProofs!MessageOffers, Work!Reachable, WorkProofs!Reachable,
         Work!MayAuthor, WorkProofs!MayAuthor, Work!MayModerate, WorkProofs!MayModerate,
         Work!Alters, WorkProofs!Alters, Work!MayReply, WorkProofs!MayReply, Work!MayEditReply,
         WorkProofs!MayEditReply, Work!SeesAfter, WorkProofs!SeesAfter, Work!ProjectPageAgrees,
         WorkProofs!ProjectPageAgrees, Work!ProjectPagesAgree, WorkProofs!ProjectPagesAgree,
         Work!AnnotationAgrees, WorkProofs!AnnotationAgrees, Work!AnnotationPagesAgree,
         WorkProofs!AnnotationPagesAgree, Work!OffersStand, WorkProofs!OffersStand

LEMMA WorkIsOffered == Work!Spec => []Work!OffersStand
<1>1. [Work!Next]_(Work!vars) => [WorkProofs!Next]_(WorkProofs!vars)
    BY SameCommands DEF Work!vars, WorkProofs!vars
<1>2. WorkProofs!Spec => []WorkProofs!OffersStand
  <2>1. /\ Shelf \subseteq Int /\ Roles \subseteq WorkProofs!Roles
        /\ Engaged \in [Users -> WorkProofs!Roles \cup {"none"}]
        /\ Openings \subseteq [Rooms -> WorkProofs!Participations \cup {"none"}]
    BY ShelfAssumption, EngagedAssumption, OpeningsAssumption
       DEF Roles, WorkProofs!Roles, WorkProofs!Participations
  <2>2. MaxGens \in Nat \ {0} BY BoundsAssumption
  <2>3. /\ [i \in Shelf |-> i] \in [Shelf -> Int]
        /\ \A i, j \in Shelf : [x \in Shelf |-> x][i] = [x \in Shelf |-> x][j] => i = j
    BY <2>1
  <2>4. WorkProofs!IsFiniteSet({}) BY FS_EmptySet DEF WorkProofs!IsFiniteSet, IsFiniteSet
  <2> QED BY <2>1, <2>2, <2>3, <2>4, WorkProofs!OffersAreTrue
<1> QED BY <1>1, <1>2, SameStart, SameOffers, PTL DEF Work!Spec, WorkProofs!Spec

\* No page offers what its command would refuse for the facts shown, nor hides what
\* it would do: pages of members, invitations, owners, Projects and Annotations,
\* which all decide from queries of their own (access/projections.py,
\* workspaces/directory.py, access/annotations.py).
THEOREM PagesAreTrue == Spec /\ Work!Spec => []PagesHold
BY DirectoryMeets, InitPages, NextPages, WorkIsOffered, PTL DEF Spec, PagesHold
===============================================================================
