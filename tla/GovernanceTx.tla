----------------------------- MODULE GovernanceTx -----------------------------
(***************************************************************************)
(* The commands of Governance as concurrent PostgreSQL transactions.  Each *)
(* server process runs one command at a time: it takes the row locks of    *)
(* the command in the order the code takes them, then reads the committed  *)
(* tables and decides, keeps its row images to itself, checks the foreign  *)
(* keys of the rows it inserts (FOR KEY SHARE on the users they name, the  *)
(* audit row's actor among them) and commits, which publishes the images   *)
(* and drops the locks.  Reads are READ COMMITTED: Decide sees what is     *)
(* committed when it runs, not when the command started.                   *)
(*                                                                         *)
(* Abstractions: checks the code makes between two locks are made in       *)
(* Decide (they read rows that are already locked); the partial unique     *)
(* indexes are not modelled, the locks must do without them; retention     *)
(* deletes rows that no transaction has locked.                            *)
(***************************************************************************)
EXTENDS Governance, Sequences

CONSTANTS Processes,    \* concurrent server processes
          Requests,     \* commands clients may send
          MaxCommands   \* bound: commands started in one behaviour

ASSUME MaxCommandsAssumption == MaxCommands \in Nat
\* Workspace ids have an order, as the UUIDs have that stand for them.
ASSUME WorkspacesAssumption == Workspaces \subseteq Nat /\ IsFiniteSet(Workspaces)

\* Commands by the row their request names.
MemberOps == {"set_role", "suspend", "reactivate", "terminate", "leave", "transfer", "select"}
RootOps == {"reassign", "freeze", "unfreeze", "archive", "restore", "delete", "create", "invite"}
AccountOps == {"set_active", "set_system_role"}

\* A request names a row by its Workspace, and the User of a membership that is
\* to own the Workspace; no two clients draw the same id for a new Workspace.
ASSUME RequestsAssumption ==
  /\ \A c \in Requests :
       /\ c.by \in Users
       /\ \/ c.op \in MemberOps /\ c.row \in MemberIds /\ c.space = c.row[1]
          \/ c.op \in {"accept", "revoke"} /\ c.row \in InviteIds /\ c.space = c.row[1]
          \/ c.op \in RootOps /\ c.space \in Workspaces
          \/ c.op \in AccountOps
       /\ c.op \in {"reassign", "create", "invite"} \cup AccountOps => c.user \in Users
       /\ c.op = "transfer" => c.user = c.row[2]
       /\ c.op = "reassign" => c.expected \in Users
       /\ c.op \in {"set_role", "invite"} => c.role \in AskRoles
       /\ c.op = "set_system_role" => c.role \in SystemRoles
       /\ c.op \in {"select", "set_active"} => c.on \in BOOLEAN
  /\ \A c, d \in Requests :
       c.op = "create" /\ d.op = "create" /\ c.space = d.space => c.by = d.by

VARIABLES tx,     \* per process: the running transaction
          budget  \* commands that may still be started

txVars == <<user, space, member, invite, lapsed, seat, tx, budget>>

-------------------------------------------------------------------------------
(* PostgreSQL row locks. *)

\* FOR KEY SHARE, FOR SHARE, FOR NO KEY UPDATE, FOR UPDATE.
Modes == {"KS", "S", "NKU", "U"}
Conflicts == [KS |-> {"U"}, S |-> {"NKU", "U"}, NKU |-> {"S", "NKU", "U"}, U |-> Modes]

OnUser(u, mode) == [table |-> "user", row |-> u, mode |-> mode]
OnSpace(w, mode) == [table |-> "space", row |-> w, mode |-> mode]

Blocks(held, lock) ==
  /\ held.table = lock.table /\ held.row = lock.row
  /\ held.mode \in Conflicts[lock.mode]

Waiting(p) == tx[p].todo # <<>>
BlockedBy(p, q) ==
  p # q /\ Waiting(p) /\ \E held \in tx[q].held : Blocks(held, Head(tx[p].todo))

\* Two User locks in UUID order (sorted({...}) / ORDER BY users.id).
InOrder(u, uMode, v, vMode) ==
  IF u = v THEN <<OnUser(v, vMode)>>
  ELSE IF u < v THEN <<OnUser(u, uMode), OnUser(v, vMode)>>
  ELSE <<OnUser(v, vMode), OnUser(u, uMode)>>

\* The Workspace root alone, for content (FOR SHARE) and for governance.
SharedRoot(w) == <<OnSpace(w, "S")>>
RootOnly(w) == <<OnSpace(w, "U")>>

\* A User the command depends on, then the root.
\* Mutants: the root is locked first; the User is read without a lock.
SpaceFirst(u, w) == <<OnSpace(w, "U"), OnUser(u, "S")>>
SpaceOnly(u, w) == <<OnSpace(w, "U")>>
UserFirst(u, w) == <<OnUser(u, "S"), OnSpace(w, "U")>>

\* The locks of a command in the order it takes them.
Plan(c) ==
  CASE c.op \in {"set_role", "suspend", "reactivate", "terminate", "leave",
                 "archive", "restore", "delete", "revoke"} ->
         RootOnly(c.space)
    [] c.op \in {"transfer", "invite"} -> UserFirst(c.user, c.space)
    [] c.op \in {"accept", "freeze", "unfreeze"} -> UserFirst(c.by, c.space)
    [] c.op = "reassign" -> InOrder(c.by, "S", c.user, "S") \o RootOnly(c.space)
    [] c.op = "create" -> InOrder(c.by, "U", c.user, "U")
    [] c.op \in {"set_active", "set_system_role"} -> InOrder(c.by, "S", c.user, "NKU")
    [] c.op = "select" -> SharedRoot(c.space)

\* Users named by foreign keys of the rows a command inserts: the actor of the
\* audit row, and the inviter copied to an admitted membership.
ForeignUsers(c) ==
  <<OnUser(c.by, "KS")>>
  \o (IF c.op = "accept" THEN <<OnUser(invite[c.row].by, "KS")>> ELSE <<>>)

\* guard_user_deactivation: every Workspace the target is a current member of.
\* Mutant: a deactivation does not wait for the target's own commands.
NoSpaces(u) == <<>>
FencedSpaces(u) ==
  LET spaces == {w \in Workspaces : CurrentOf(w, u) # {}}
      before(w) == Cardinality({v \in spaces : v < w})
  IN [i \in 1..Cardinality(spaces) |->
        OnSpace(CHOOSE w \in spaces : before(w) = i - 1, "U")]

-------------------------------------------------------------------------------
(* Transactions. *)

NoCommand == [op |-> "none"]
Idle == [pc |-> "idle", cmd |-> NoCommand, todo |-> <<>>, held |-> {}, rows |-> NoChange]

tables == <<user, space, member, invite, lapsed, seat>>

Begin(p, c) ==
  /\ tx[p].pc = "idle" /\ budget > 0
  /\ tx' = [tx EXCEPT ![p] = [Idle EXCEPT !.pc = "lock", !.cmd = c, !.todo = Plan(c)]]
  /\ budget' = budget - 1
  /\ UNCHANGED tables

Acquire(p) ==
  /\ Waiting(p)
  /\ \A q \in Processes : ~BlockedBy(p, q)
  /\ tx' = [tx EXCEPT ![p].todo = Tail(@), ![p].held = @ \cup {Head(tx[p].todo)}]
  /\ UNCHANGED <<tables, budget>>

\* The outcome of a decision: row images and foreign keys to check, or a
\* refusal that rolls back and releases every lock.
\* Mutant: a refusal leaves the transaction open.
AnswerHoldingLocks(p, op, admitted, rows) ==
  /\ tx[p].pc = "lock" /\ ~Waiting(p) /\ tx[p].cmd.op = op
  /\ tx' = [tx EXCEPT ![p] = IF admitted
               THEN [@ EXCEPT !.pc = "flush", !.todo = ForeignUsers(tx[p].cmd), !.rows = rows]
               ELSE [Idle EXCEPT !.held = tx[p].held]]
  /\ UNCHANGED <<tables, budget>>

Answer(p, op, admitted, rows) ==
  /\ tx[p].pc = "lock" /\ ~Waiting(p) /\ tx[p].cmd.op = op
  /\ tx' = [tx EXCEPT ![p] = IF admitted
               THEN [@ EXCEPT !.pc = "flush", !.todo = ForeignUsers(tx[p].cmd), !.rows = rows]
               ELSE Idle]
  /\ UNCHANGED <<tables, budget>>

DecideMember(p) == LET c == tx[p].cmd IN
  \/ Answer(p, "set_role", MaySetRole(c.by, c.row, c.role), SetRoleRows(c.row, c.role))
  \/ Answer(p, "suspend", MaySuspend(c.by, c.row), SuspendRows(c.row))
  \/ Answer(p, "reactivate", MayReactivate(c.by, c.row), ReactivateRows(c.row))
  \/ Answer(p, "terminate", MayTerminate(c.by, c.row), EndRows(c.row))
  \/ Answer(p, "leave", MayLeave(c.by, c.row), EndRows(c.row))
  \/ Answer(p, "transfer", MayTransfer(c.by, c.row), TransferRows(c.row))
  \/ Answer(p, "select", MaySelect(c.by, c.row, c.on), SelectRows(c.row, c.on))

DecideWorkspace(p) == LET c == tx[p].cmd IN
  \/ Answer(p, "reassign", MayReassign(c.by, c.space, c.user, c.expected),
            ReassignRows(c.space, c.user))
  \/ Answer(p, "freeze", MaySetFrozen(c.by, c.space), SetFrozenRows(c.space, TRUE))
  \/ Answer(p, "unfreeze", MaySetFrozen(c.by, c.space), SetFrozenRows(c.space, FALSE))
  \/ Answer(p, "archive", MayArchive(c.by, c.space), StateRows(c.space, "archived"))
  \/ Answer(p, "restore", MayRestore(c.by, c.space), StateRows(c.space, "active"))
  \/ Answer(p, "delete", MayDelete(c.by, c.space), DeleteRows(c.space))
  \/ Answer(p, "create", MayCreate(c.by, c.space, c.user), CreateRows(c.space, c.user))

DecideInvitation(p) == LET c == tx[p].cmd IN
  \/ Answer(p, "invite", MayInvite(c.by, c.space, c.user, c.role),
            InviteRow(c.by, c.space, c.user, c.role))
  \/ Answer(p, "accept", MayAccept(c.by, c.row), AcceptRows(c.row))
  \/ Answer(p, "revoke", MayRevoke(c.by, c.row), RevokeRows(c.row))

\* update_user_status: the administrator is checked under the User locks, then
\* a deactivation fences the target's Workspaces before it writes.
Fence(p) == LET c == tx[p].cmd IN
  /\ tx[p].pc = "lock" /\ ~Waiting(p) /\ c.op = "set_active" /\ ~c.on
  /\ tx' = [tx EXCEPT ![p] = IF MaySetActive(c.by, c.user, FALSE)
               THEN [@ EXCEPT !.pc = "flush", !.rows = SetActiveRows(c.user, FALSE),
                              !.todo = FencedSpaces(c.user) \o ForeignUsers(c)]
               ELSE Idle]
  /\ UNCHANGED <<tables, budget>>

DecideAccount(p) == LET c == tx[p].cmd IN
  \/ /\ c.op = "set_active" /\ c.on
     /\ Answer(p, "set_active", MaySetActive(c.by, c.user, TRUE),
               SetActiveRows(c.user, TRUE))
  \/ Answer(p, "set_system_role", MaySetSystemRole(c.by, c.user, c.role),
            SetSystemRoleRows(c.user, c.role))

\* A row the transaction writes was retired meanwhile: the UPDATE matches no
\* row and SQLAlchemy raises StaleDataError.
Stale(p) ==
  \/ \E m \in DOMAIN tx[p].rows.member :
       member[m].status = "gone" /\ tx[p].rows.member[m].status # "gone"
  \/ \E i \in DOMAIN tx[p].rows.invite :
       invite[i].status = "gone" /\ tx[p].rows.invite[i].status # "gone"

Commit(p) ==
  /\ tx[p].pc = "flush" /\ ~Waiting(p) /\ ~Stale(p)
  /\ Write(tx[p].rows)
  /\ tx' = [tx EXCEPT ![p] = Idle]
  /\ UNCHANGED budget

\* Lost connection or cancelled request: nothing was published.
Rollback(p) ==
  /\ tx[p].pc # "idle"
  /\ tx' = [tx EXCEPT ![p] = Idle]
  /\ UNCHANGED <<tables, budget>>

FailStale(p) == tx[p].pc = "flush" /\ ~Waiting(p) /\ Stale(p) /\ Rollback(p)

\* Invitations whose expiry was checked for an acceptance or a revocation that
\* has not committed; the cutoff keeps retention off rows that expire now.
Carried == {i \in InviteIds : \E p \in Processes :
  /\ tx[p].pc = "flush" /\ tx[p].cmd.op \in {"accept", "revoke"}
  /\ tx[p].cmd.row = i /\ i \in DOMAIN tx[p].rows.invite}

Retire ==
  /\ PurgeHistory
  /\ \A i \in Carried : invite'[i] = invite[i]
  /\ UNCHANGED <<tx, budget>>

Expire == (\E i \in InviteIds : Lapse(i)) /\ UNCHANGED <<tx, budget>>

\* Every client is answered and no more commands come.
Finished ==
  /\ budget = 0 /\ \A p \in Processes : tx[p].pc = "idle"
  /\ UNCHANGED txVars

Decide(p) ==
  \/ DecideMember(p)
  \/ DecideWorkspace(p)
  \/ DecideInvitation(p)
  \/ Fence(p)
  \/ DecideAccount(p)

\* A process in a cycle of lock waits: PostgreSQL's deadlock detector aborts it.
LockCycle(S) == S # {} /\ \A p \in S : \E q \in S : BlockedBy(p, q)
Victim(p) ==
  /\ \E S \in SUBSET Processes : p \in S /\ LockCycle(S)
  /\ Rollback(p)

TxInit == Init /\ tx = [p \in Processes |-> Idle] /\ budget = MaxCommands

Step(p) == Acquire(p) \/ Decide(p) \/ Commit(p) \/ FailStale(p) \/ Victim(p)

TxNext ==
  \/ \E p \in Processes : Step(p) \/ Rollback(p) \/ \E c \in Requests : Begin(p, c)
  \/ Retire
  \/ Expire
  \/ Finished

\* A server process keeps executing its statements; PostgreSQL keeps granting
\* free locks and breaking cycles.
TxSpec == TxInit /\ [][TxNext]_txVars /\ \A p \in Processes : WF_txVars(Step(p))

-------------------------------------------------------------------------------
(* The transactions implement the atomic commands: a commit is the command,  *)
(* everything else a stutter.  An invitation that expires between the check  *)
(* and the commit of its acceptance or revocation does so just after it.     *)

Atomic == INSTANCE Governance WITH lapsed <- lapsed \ Carried

\* The atomic command that process p has been sent.
Commanded(p) == LET c == tx[p].cmd IN
  \/ c.op = "set_role" /\ Atomic!SetRole(c.by, c.row, c.role)
  \/ c.op = "suspend" /\ Atomic!Suspend(c.by, c.row)
  \/ c.op = "reactivate" /\ Atomic!Reactivate(c.by, c.row)
  \/ c.op = "terminate" /\ Atomic!Terminate(c.by, c.row)
  \/ c.op = "leave" /\ Atomic!Leave(c.by, c.row)
  \/ c.op = "transfer" /\ Atomic!Transfer(c.by, c.row)
  \/ c.op = "select" /\ Atomic!Select(c.by, c.row, c.on)
  \/ c.op = "reassign" /\ Atomic!Reassign(c.by, c.space, c.user, c.expected)
  \/ c.op = "freeze" /\ Atomic!Freeze(c.by, c.space)
  \/ c.op = "unfreeze" /\ Atomic!Unfreeze(c.by, c.space)
  \/ c.op = "archive" /\ Atomic!Archive(c.by, c.space)
  \/ c.op = "restore" /\ Atomic!Restore(c.by, c.space)
  \/ c.op = "delete" /\ Atomic!Delete(c.by, c.space)
  \/ c.op = "create" /\ Atomic!Create(c.by, c.space, c.user)
  \/ c.op = "invite" /\ Atomic!Invite(c.by, c.space, c.user, c.role)
  \/ c.op = "accept" /\ Atomic!Accept(c.by, c.row)
  \/ c.op = "revoke" /\ Atomic!Revoke(c.by, c.row)
  \/ c.op = "set_active" /\ Atomic!SetActive(c.by, c.user, c.on)
  \/ c.op = "set_system_role" /\ Atomic!SetSystemRole(c.by, c.user, c.role)

\* Whatever commands interleave, each commit is the one atomic command that was
\* asked for, with its actor's authority and its preconditions holding at the
\* moment it commits, on rows nobody changed in between: no command acts on a
\* role, freeze, lifecycle state, account status or invitation that a concurrent
\* commit has revoked.  This is Atomic!Spec, with each step traced to its client.
ImplementsGovernance == Atomic!Init /\ [][
  \/ \E p \in Processes : tx[p].pc = "flush" /\ tx'[p] = Idle /\ Commanded(p)
  \/ Atomic!PurgeHistory
  \/ \E i \in InviteIds : Atomic!Lapse(i)]_<<user, space, member, invite, lapsed \ Carried, seat>>

\* User locks before Workspace locks, each in UUID order, never close a cycle
\* of waits (the lock-order comments of membership.py and invitations.py).
NoLockCycle == \A S \in SUBSET Processes : ~LockCycle(S)

\* Every command ends, whatever the others hold when it starts.
EveryCommandEnds == \A p \in Processes : tx[p].pc # "idle" ~> tx[p].pc = "idle"
===============================================================================
