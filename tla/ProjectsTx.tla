------------------------------- MODULE ProjectsTx -------------------------------
(***************************************************************************)
(* The commands of Projects as concurrent PostgreSQL transactions.  A      *)
(* command holds the Workspace root FOR SHARE from its context on (so the  *)
(* Workspace changes only between commands), looks the Project up with the *)
(* discovery predicate, waits for its row lock, rechecks discovery in a    *)
(* fresh statement, decides, then takes the association rows it writes one *)
(* by one and commits.                                                     *)
(*                                                                         *)
(* A statement that waited for the Project row sees the row as it is now   *)
(* but every other table as of its start, hence the recheck.  A statement  *)
(* that waited for an association row finds that very row gone, whatever   *)
(* was inserted in its place since.  Abstractions: a Project id is never   *)
(* used twice; the order of project_items.id is one fixed permutation of   *)
(* the Items.                                                              *)
(***************************************************************************)
EXTENDS Projects, Integers, Sequences
Seqs == INSTANCE SequencesExt

CONSTANTS Processes,  \* concurrent server processes
          Requests,   \* commands clients may send; their items are sequences
          LinkRank,   \* order of project_items.id, by Item
          Budget      \* bound: commands and Workspace changes in one behaviour

ASSUME BudgetAssumption == Budget \in Nat
ASSUME ProcessesAssumption == IsFiniteSet(Processes)
\* UUIDs and project_items.id are ordered.
ASSUME ItemsAssumption == Items \subseteq Int
ASSUME RankAssumption ==
  /\ LinkRank \in [Items -> Int]
  /\ \A i, j \in Items : LinkRank[i] = LinkRank[j] => i = j
\* Requests are parsed by the API: enums are checked, ids name rows.
ASSUME RequestsAssumption == \A c \in Requests :
  /\ c.op \in {"join", "leave", "add", "remove", "update", "set_state", "delete",
              "create", "attach", "detach"}
  /\ c.by \in Users /\ c.project \in ProjectIds
  /\ c.op = "add" => c.target \in MemberIds
  /\ c.op = "remove" => c.user \in Users
  /\ c.op \in {"update", "create"} => c.mode \in Participations
  /\ c.op = "set_state" => c.state \in {"active", "archived"}
  /\ c.op \in {"attach", "detach"} => c.items \in Seq(Items)

VARIABLES tx,     \* per process: the running transaction
          budget  \* commands and Workspace changes still to come

txVars == <<space, member, project, seat, link, tx, budget>>
tables == <<space, member, project, seat, link>>

-------------------------------------------------------------------------------
(* Locks. *)

Lock(on, key, mode) == [on |-> on, key |-> key, mode |-> mode]
ProjectLock(c) ==
  Lock("project", c.project,
       IF c.op \in {"join", "leave", "add", "attach", "detach"} THEN "shared" ELSE "update")
SeatKey(p, u) == Lock("seat", <<p, u>>, "update")
LinkKey(p, i) == Lock("link", <<p, i>>, "update")

Blocks(held, lock) ==
  /\ held.on = lock.on /\ held.key = lock.key
  /\ "update" \in {held.mode, lock.mode}

Waiting(q) == tx[q].todo # <<>>

\* ON CONFLICT DO NOTHING passes a row that is there, even one locked for its
\* deletion; any other INSERT waits for its key.
Inserts(q) == tx[q].pc = "rows" /\ tx[q].cmd.op \in {"join", "add", "attach"}
\* The next row stops the statement: it is there to lock, or absent to insert.
Contends(q) == LET lock == Head(tx[q].todo) IN
  IF Inserts(q) THEN ~(lock.on = "link" /\ lock.key \in link) ELSE lock \in tx[q].found

BlockedBy(q, r) ==
  /\ q # r /\ Waiting(q) /\ Contends(q)
  /\ \E held \in tx[r].held : Blocks(held, Head(tx[q].todo))
Free(q) == Waiting(q) /\ \A r \in Processes : ~BlockedBy(q, r)

-------------------------------------------------------------------------------
(* Transactions. *)

Idle(answer) ==
  [pc |-> "idle", cmd |-> [op |-> "none"], me |-> <<>>, snap |-> {},
   todo |-> <<>>,  \* locks still to take
   found |-> {},   \* locks of the rows its statement found, deleted ones left out
   held |-> {}, in |-> {}, out |-> {}, linkIn |-> {}, linkOut |-> {}, answer |-> answer]

Becomes(q, t) == tx' = [tx EXCEPT ![q] = t] /\ UNCHANGED <<tables, budget>>
Refuse(q) == Becomes(q, Idle("refused"))

\* lock_workspace_context: the root FOR SHARE, then an active membership.
Begin(q, c) == \E m \in MemberIds :
  /\ tx[q].pc = "idle" /\ budget > 0
  /\ m[1] = c.by /\ member[m].status = "active"
  /\ tx' = [tx EXCEPT ![q] = [Idle("none") EXCEPT !.pc = "find", !.cmd = c, !.me = m]]
  /\ budget' = budget - 1
  /\ UNCHANGED tables

\* The WHERE of lock_project_root on one version of the row.
Matches(q, seats) == LET c == tx[q].cmd IN
  /\ Shows(tx[q].me, c.project, project[c.project], seats)
  /\ c.op \in {"join", "leave", "add", "remove", "update"} => Open(c.project)

Find(q) ==
  /\ tx[q].pc = "find" /\ tx[q].cmd.op # "create"
  /\ IF Matches(q, seat)
     THEN Becomes(q, [tx[q] EXCEPT !.pc = "project", !.snap = seat,
                                   !.todo = <<ProjectLock(tx[q].cmd)>>,
                                   !.found = {ProjectLock(tx[q].cmd)}])
     ELSE Refuse(q)

\* The wait is over: the row is evaluated again, its subquery is not.
LockProject(q) ==
  /\ tx[q].pc = "project" /\ Free(q)
  /\ IF Matches(q, tx[q].snap)
     THEN Becomes(q, [tx[q] EXCEPT !.pc = "decide", !.snap = {}, !.todo = <<>>,
                                   !.held = {Head(tx[q].todo)}])
     ELSE Refuse(q)

\* require_project_discoverable, a fresh statement.
\* Mutant: the statement that waited is believed.
FoundBefore(q) == TRUE
Rediscovered(q) == Discovers(tx[q].me, tx[q].cmd.project)

\* INSERTs look their keys up one by one, the others have found their rows.
Continue(q, keys, change) ==
  Becomes(q, [tx[q] EXCEPT !.pc = "rows", !.todo = keys,
                           !.found = IF tx[q].cmd.op \in {"leave", "detach"}
                                     THEN Seqs!Range(keys) ELSE {},
                           !.in = change.in, !.out = change.out,
                           !.linkIn = change.linkIn, !.linkOut = change.linkOut])
Answer(q, op, admitted, keys, change) ==
  /\ tx[q].pc = "decide" /\ tx[q].cmd.op = op
  /\ IF Rediscovered(q) /\ admitted THEN Continue(q, keys, change) ELSE Refuse(q)

\* A set as a sequence, in ascending order of rank.
Ordered(S, rank) == CHOOSE s \in [1..Cardinality(S) -> S] :
  \A m, n \in 1..Cardinality(S) : m < n => rank[s[m]] < rank[s[n]]
Keys(p, order) == [n \in DOMAIN order |-> LinkKey(p, order[n])]

\* INSERTs go in Item order, whatever order the client sent.
\* Mutant: in the client's order.
AsAsked(items) == items
Ascending(items) == Ordered(Seqs!Range(items), [i \in Items |-> i])
InsertKeys(c) == Keys(c.project, Ascending(c.items))

\* SELECT ... ORDER BY project_items.id FOR UPDATE.
LinkKeys(c) ==
  Keys(c.project, Ordered({i \in Seqs!Range(c.items) : <<c.project, i>> \in link}, LinkRank))

DecideAssociation(q) == LET c == tx[q].cmd  p == tx[q].cmd.project  m == tx[q].me IN
  \/ Answer(q, "join", MayJoin(m, p), <<SeatKey(p, m[1])>>, Nothing(p))
  \/ Answer(q, "leave", MayLeave(m, p),
            IF <<p, m>> \in seat THEN <<SeatKey(p, m[1])>> ELSE <<>>, Nothing(p))
  \/ Answer(q, "add", MayAdd(m, p, c.target), <<SeatKey(p, c.target[1])>>, Nothing(p))
  \/ Answer(q, "attach", MayLink(m, p), InsertKeys(c), Nothing(p))
  \/ Answer(q, "detach", MayLink(m, p), LinkKeys(c), Nothing(p))

DecideProject(q) == LET c == tx[q].cmd  p == tx[q].cmd.project  m == tx[q].me IN
  \/ Answer(q, "remove", MayRemove(m, p, c.user), <<>>, RemoveChange(p, c.user))
  \/ Answer(q, "update", MayUpdate(m, p, c.mode), <<>>, UpdateChange(m, p, c.mode))
  \/ Answer(q, "set_state", MaySetState(m, p, c.state), <<>>, StateChange(p, c.state))
  \/ Answer(q, "delete", MayDelete(m, p), <<>>, DeleteChange(p))

\* create_project takes no Project lock; its new id is its own.
DecideCreate(q) == LET c == tx[q].cmd IN
  /\ tx[q].pc = "find" /\ c.op = "create"
  /\ \A r \in Processes \ {q} : tx[r].cmd.op = "create" => tx[r].cmd.project # c.project
  /\ IF MayCreate(tx[q].me, c.project, c.mode)
     THEN Continue(q, <<>>, CreateChange(tx[q].me, c.project, c.mode))
     ELSE Refuse(q)

-------------------------------------------------------------------------------
(* Association rows, one lock at a time. *)

Subject(q) == IF tx[q].cmd.op = "add" THEN tx[q].cmd.target ELSE tx[q].me
SeatOf(q) == <<tx[q].cmd.project, Subject(q)>>

Taken(q) == [tx[q] EXCEPT !.todo = Tail(@), !.held = @ \cup {Head(tx[q].todo)}]
Skipped(q) == [tx[q] EXCEPT !.todo = Tail(@)]

\* The key of a new selection: an INSERT waits for whoever inserts or deletes
\* it, then succeeds or fails with IntegrityError in its savepoint.
\* Mutant: a conflict is taken for the caller's own earlier selection.
ConflictMeansSeated(q) == Skipped(q)
Conflict(q) == [tx[q] EXCEPT !.pc = "reread", !.todo = <<>>]
InsertSeat(q) ==
  /\ tx[q].pc = "rows" /\ Free(q) /\ tx[q].cmd.op \in {"join", "add"}
  /\ Becomes(q, IF UserSeats(tx[q].cmd.project, Subject(q)[1]) = {}
                THEN [Taken(q) EXCEPT !.in = {SeatOf(q)}]
                ELSE Conflict(q))

\* The conflicting selection is read again FOR UPDATE; it may have gone.
Reread(q) ==
  LET key == SeatKey(tx[q].cmd.project, Subject(q)[1])
  IN /\ tx[q].pc = "reread" /\ ~Waiting(q)
     /\ IF SeatOf(q) \in seat
        THEN Becomes(q, [tx[q] EXCEPT !.todo = <<key>>, !.found = {key}])
        ELSE Refuse(q)
LockSeat(q) ==
  /\ tx[q].pc = "reread" /\ Free(q)
  /\ IF Contends(q) THEN Becomes(q, [Taken(q) EXCEPT !.pc = "rows"]) ELSE Refuse(q)

DeleteSeat(q) ==
  /\ tx[q].pc = "rows" /\ Free(q) /\ tx[q].cmd.op = "leave"
  /\ Becomes(q, IF Contends(q) THEN [Taken(q) EXCEPT !.out = {SeatOf(q)}] ELSE Skipped(q))

\* ON CONFLICT DO NOTHING; a locked row that vanished is not deleted.
TakeLink(q) ==
  /\ tx[q].pc = "rows" /\ Free(q) /\ tx[q].cmd.op \in {"attach", "detach"}
  /\ LET row == Head(tx[q].todo).key
     IN Becomes(q, IF ~Contends(q) THEN Skipped(q)
                   ELSE IF tx[q].cmd.op = "attach" THEN [Taken(q) EXCEPT !.linkIn = @ \cup {row}]
                   ELSE [Taken(q) EXCEPT !.linkOut = @ \cup {row}])

\* The Project row is written under its exclusive lock.
Image(q) == LET c == tx[q].cmd IN
  IF c.op = "update" THEN UpdateChange(tx[q].me, c.project, c.mode).row
  ELSE IF c.op = "set_state" THEN StateChange(c.project, c.state).row
  ELSE IF c.op = "delete" THEN DeleteChange(c.project).row
  ELSE IF c.op = "create" THEN CreateChange(tx[q].me, c.project, c.mode).row
  ELSE project[c.project]

\* Rows the transaction deletes, by their locks.
Deleted(q) ==
  {SeatKey(s[1], s[2][1]) : s \in tx[q].out} \cup {LinkKey(l[1], l[2]) : l \in tx[q].linkOut}

Commit(q) ==
  /\ tx[q].pc = "rows" /\ ~Waiting(q)
  /\ Write(tx[q].cmd.project,
           Change(Image(q), tx[q].in, tx[q].out, tx[q].linkIn, tx[q].linkOut))
  /\ tx' = [r \in Processes |-> IF r = q THEN Idle("done")
                                ELSE [tx[r] EXCEPT !.found = @ \ Deleted(q)]]
  /\ UNCHANGED budget

\* Lost connection or cancelled request, and the deadlock detector.
Rollback(q) == tx[q].pc # "idle" /\ Becomes(q, Idle("lost"))

\* What takes the root exclusively waits for every command.
RootFree == \A q \in Processes : tx[q].pc = "idle"
ChangeWorkspace ==
  /\ RootFree /\ budget > 0 /\ Govern
  /\ budget' = budget - 1
  /\ UNCHANGED tx

\* Every client is answered and no more commands come.
Finished == budget = 0 /\ (\A q \in Processes : tx[q].pc = "idle") /\ UNCHANGED txVars

TxInit == Init /\ tx = [q \in Processes |-> Idle("none")] /\ budget = Budget

Step(q) ==
  \/ Find(q) \/ LockProject(q)
  \/ DecideAssociation(q) \/ DecideProject(q) \/ DecideCreate(q)
  \/ InsertSeat(q) \/ Reread(q) \/ LockSeat(q) \/ DeleteSeat(q) \/ TakeLink(q)
  \/ Commit(q)

TxNext ==
  \/ \E q \in Processes : Step(q) \/ Rollback(q) \/ \E c \in Requests : Begin(q, c)
  \/ ChangeWorkspace
  \/ Finished

TxSpec == TxInit /\ [][TxNext]_txVars

-------------------------------------------------------------------------------
\* The atomic command that process q has been sent, on behalf of its membership.
\* A bulk command leaves out the Items it found linked, or not, already; another
\* commit may have changed that since (concurrency case "relation-idempotency").
Commanded(q) == LET c == tx[q].cmd  p == tx[q].cmd.project  m == tx[q].me IN
  \/ c.op = "join" /\ Join(m, p)
  \/ c.op = "leave" /\ Leave(m, p)
  \/ c.op = "add" /\ Add(m, p, c.target)
  \/ c.op = "remove" /\ Remove(m, p, c.user)
  \/ c.op = "update" /\ Update(m, p, c.mode)
  \/ c.op = "set_state" /\ SetState(m, p, c.state)
  \/ c.op = "delete" /\ Delete(m, p)
  \/ c.op = "create" /\ Create(m, p, c.mode)
  \/ c.op = "attach" /\ \E items \in SUBSET Seqs!Range(c.items) : Attach(m, p, items)
  \/ c.op = "detach" /\ \E items \in SUBSET Seqs!Range(c.items) : Detach(m, p, items)

\* Each commit is the one atomic command of Projects that was asked for, whose
\* discovery, lifecycle, participation mode and actor's authority hold when it
\* commits, not only when it looked them up; nothing else changes the tables.
\* This is the Spec of Projects, with each step traced to its client.
ImplementsProjects == Init /\ [][
  \/ \E q \in Processes : tx[q].pc = "rows" /\ tx'[q].answer = "done" /\ Commanded(q)
  \/ Govern]_vars

\* A Join or an addition that reports success leaves its participant seated,
\* even when the row it met was somebody else's insert being removed again.
JoinersAreSeated == [][\A q \in Processes :
  tx[q].cmd.op \in {"join", "add"} /\ tx'[q].answer = "done" => SeatOf(q) \in seat']_txVars

\* The associations a command has counted as new are still absent, and those it
\* has counted as removed still present, until it commits: identical additions
\* count and audit one insertion.
CountsStand == \A q \in Processes :
  /\ tx[q].in \cap seat = {} /\ tx[q].out \subseteq seat
  /\ tx[q].linkIn \cap link = {} /\ tx[q].linkOut \subseteq link

\* Participation agrees with the Project's mode, with the memberships and with what
\* commands in flight have counted: this and two invariants of Projects.
SeatsSound == ImplicitIsEmpty /\ SeatsAreCurrent /\ CountsStand

\* Participation moves as the mode, the lifecycle and the answers say: two action
\* properties of Projects, and the one above.
SeatingStands == ReadOnlyStands /\ CurationHasCurator /\ JoinersAreSeated

\* Project before associations, each in one order: no cycle of lock waits, two
\* bulk commands on the same Items in opposite order included.
NoLockCycle == \A S \in SUBSET Processes :
  S # {} => \E q \in S : \A r \in S : ~BlockedBy(q, r)
===============================================================================
