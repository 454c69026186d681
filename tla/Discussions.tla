------------------------------ MODULE Discussions ------------------------------
(***************************************************************************)
(* The discussions of an Item and of a Project, as concurrent PostgreSQL   *)
(* transactions (library/discussions.py): clients add messages, authors    *)
(* delete theirs, moderators remove those of others, while roles, the      *)
(* Workspace, the Item and the Project change.  A command decides from     *)
(* plain reads, then locks roots and message and decides again.            *)
(*                                                                         *)
(* Commands of other modules are single steps here, but for the deletion   *)
(* of the Workspace, whose cascade meets the locks on messages.            *)
(***************************************************************************)
EXTENDS AccessPolicy, Sequences

CONSTANTS Users, Processes,
          Messages,   \* ids of messages
          Topic,      \* where each message is or would be, and who writes it
          Demands,    \* commands clients may send
          MaxDemands, \* bound: commands sent
          MaxMoves    \* bound: changes of roles, Workspace, Item and Project

TopicAssumption == Topic \in [Messages -> [on : {"item", "project"}, by : Users]]
\* A message is written by whoever asks for it, and looked up in its own place.
DemandsAssumption ==
  /\ MaxDemands \in Nat /\ MaxMoves \in Nat
  /\ \A c \in Demands : c.by \in Users /\ (c.op # "destroy" =>
       /\ c.op \in {"add", "delete", "moderate"}
       /\ c.message \in Messages /\ c.on = Topic[c.message].on
       /\ c.op = "add" => c.by = Topic[c.message].by)

VARIABLES standing,  \* role of each User in the Workspace, or "none"
          state,     \* effective lifecycle of the Workspace, or "gone"
          home,      \* the Item, "active" or "gone", and the Project
          parted,    \* Users who do not discover the Project
          message,   \* discussion_messages: "none", "here" or "gone"
          talk,      \* per process: the running transaction
          sent, moved

facts == <<standing, state, home, parted>>
vars == <<facts, message, talk, sent, moved>>

-------------------------------------------------------------------------------
(* What a statement finds, and the locks it waits for. *)

Member(u) == state # "gone" /\ standing[u] # "none"
May(u, action, relation) == Member(u) /\ Allowed(standing[u], action, state, relation)
\* can_read_item, and discovery of the Project.
CanRead(u, on) ==
  /\ May(u, "workspace.read", "any")
  /\ home[on] # "gone" /\ (on = "project" => u \notin parted)
\* The action a command needs, and the relation it is asked with.
Action(c) ==
  IF c.op = "add"
  THEN [item |-> "item_discussion.create", project |-> "project_discussion.create"][c.on]
  ELSE [item |-> "item_discussion.delete", project |-> "project_discussion.delete"][c.on]
RelationTo(c) == [add |-> "any", delete |-> "own", moderate |-> "other"][c.op]
MayDo(c) == May(c.by, Action(c), RelationTo(c))

Idle(answer) == [cmd |-> [op |-> "none"], todo |-> <<>>, held |-> {}, answer |-> answer]
Busy(q) == talk[q].cmd.op # "none"
Now(q) == Head(talk[q].todo)
\* Each statement of the commands, in order.
Plan(c) ==
  CASE c.op = "add" -> IF c.on = "item" THEN <<"check", "root", "insert">>
                       ELSE <<"root", "project", "insert">>
    [] c.op = "delete" -> IF c.on = "item" THEN <<"look", "message", "check", "root", "erase">>
                          ELSE <<"look", "root", "project", "erase">>
    [] c.op = "moderate" -> IF c.on = "item" THEN <<"look", "check", "root", "message", "erase">>
                            ELSE <<"look", "root", "project", "message", "erase">>
    [] c.op = "destroy" -> <<"root", "cascade">>

Lock(row, mode) == [row |-> row, mode |-> mode]
Wants(q) == LET c == talk[q].cmd IN
  IF ~Busy(q) THEN {} ELSE
  CASE Now(q) = "root" -> {Lock("workspace", IF c.op = "destroy" THEN "update" ELSE "shared")}
    [] Now(q) = "project" -> {Lock("project", "shared")}
    [] Now(q) \in {"message", "erase"} -> {Lock(c.message, "update")}
    [] Now(q) = "cascade" -> {Lock(x, "update") : x \in Messages}
    [] OTHER -> {}
Conflicts(a, b) == a.row = b.row /\ "update" \in {a.mode, b.mode}
BlockedBy(q, r) ==
  q # r /\ \E want \in Wants(q), held \in talk[r].held : Conflicts(want, held)
Ready(q, step) == Busy(q) /\ Now(q) = step /\ \A r \in Processes : ~BlockedBy(q, r)
\* No transaction holds the row against this lock.
Free(row, mode) ==
  \A q \in Processes : \A held \in talk[q].held : ~Conflicts(Lock(row, mode), held)

Becomes(q, t) == talk' = [talk EXCEPT ![q] = t]
Refuse(q) == Becomes(q, Idle("refused"))
Goes(q) == Becomes(q, [talk[q] EXCEPT !.todo = Tail(@), !.held = @ \cup Wants(q)])
Only(q, found) == (IF found THEN Goes(q) ELSE Refuse(q)) /\ UNCHANGED <<facts, message, sent, moved>>

-------------------------------------------------------------------------------
(* Statements. *)

Begin(q, c) ==
  /\ ~Busy(q) /\ sent < MaxDemands
  /\ c.op = "add" => message[c.message] = "none" /\ \A r \in Processes :
       Busy(r) /\ talk[r].cmd.op # "destroy" => talk[r].cmd.message # c.message
  /\ Becomes(q, [Idle("none") EXCEPT !.cmd = c, !.todo = Plan(c)])
  /\ sent' = sent + 1
  /\ UNCHANGED <<facts, message, moved>>

\* Plain reads: the place, the message and what a first context allows. The author
\* of an Item's message finds the message by locking it.
Look(q) == LET c == talk[q].cmd IN
  /\ Ready(q, "look")
  /\ Only(q, /\ CanRead(c.by, c.on)
             /\ (c.op = "delete") <=> (Topic[c.message].by = c.by)
             /\ c.op = "delete" => MayDo(c)
             /\ c.on = "project" \/ c.op = "moderate" => message[c.message] = "here")
\* require_workspace_action before it locks.
Check(q) == Ready(q, "check") /\ Only(q, MayDo(talk[q].cmd))

\* Mutant: what was allowed before the wait for the root stays allowed.
AllowedAtRootOnce(c) == Member(c.by)
\* require_workspace_action behind the root; a Project's commands decide once
\* they hold the Project as well.
AllowedAtRoot(c) == IF c.on = "item" THEN MayDo(c) ELSE Member(c.by)
\* delete_workspace locks its root first.
Root(q) == LET c == talk[q].cmd IN
  /\ Ready(q, "root")
  /\ Only(q, IF c.op = "destroy"
             THEN state = "archived" /\ May(c.by, "workspace.delete", "any")
             ELSE AllowedAtRoot(c))
\* require_project_context, with lock="shared".
Project(q) == LET c == talk[q].cmd IN
  /\ Ready(q, "project")
  /\ Only(q, CanRead(c.by, "project") /\ MayDo(c) /\ home["project"] = "active")
LockMessage(q) ==
  Ready(q, "message") /\ Only(q, message[talk[q].cmd.message] = "here")

\* The last statement and the commit: the foreign key finds the place there.
Insert(q) == LET c == talk[q].cmd IN
  /\ Ready(q, "insert")
  /\ IF home[c.on] = "gone" THEN Refuse(q) /\ UNCHANGED message
     ELSE /\ message' = [message EXCEPT ![c.message] = "here"]
          /\ Becomes(q, Idle("done"))
  /\ UNCHANGED <<facts, sent, moved>>
\* A row that is gone is no error to the session that deletes it.
Erase(q) == LET c == talk[q].cmd IN
  /\ Ready(q, "erase")
  /\ message' = [message EXCEPT ![c.message] = "gone"]
  /\ Becomes(q, Idle("done"))
  /\ UNCHANGED <<facts, sent, moved>>
Lost(places) == [x \in Messages |->
  IF message[x] = "here" /\ Topic[x].on \in places THEN "gone" ELSE message[x]]
Cascade(q) ==
  /\ Ready(q, "cascade")
  /\ state' = "gone" /\ home' = [home EXCEPT !.item = "gone", !.project = "gone"]
  /\ message' = Lost({"item", "project"})
  /\ Becomes(q, Idle("done"))
  /\ UNCHANGED <<standing, parted, sent, moved>>
\* Lost connection, cancelled request, or the deadlock detector.
Rollback(q) == Busy(q) /\ Becomes(q, Idle("lost")) /\ UNCHANGED <<facts, message, sent, moved>>

Statement(q) ==
  \/ Look(q) \/ Check(q) \/ Root(q) \/ Project(q) \/ LockMessage(q)
  \/ Insert(q) \/ Erase(q) \/ Cascade(q)

-------------------------------------------------------------------------------
(* Commands of other modules, each holding its roots as it does there. *)

Moves == moved < MaxMoves /\ moved' = moved + 1 /\ state # "gone" /\ UNCHANGED <<sent, talk>>
SetStanding == \E u \in Users, r \in {"none", "viewer", "reviewer", "admin"} :
  /\ Free("workspace", "update") /\ standing[u] \notin {r, "owner"}
  /\ standing' = [standing EXCEPT ![u] = r]
  /\ UNCHANGED <<state, home, parted, message>>
SetState == \E s \in Lifecycles \ {state} :
  /\ Free("workspace", "update") /\ "active" \in {s, state}
  /\ state' = s
  /\ UNCHANGED <<standing, home, parted, message>>
SetProject ==
  /\ Free("workspace", "shared") /\ Free("project", "update") /\ state = "active"
  /\ home.project # "gone"
  /\ home' = [home EXCEPT !.project = IF @ = "active" THEN "archived" ELSE "active"]
  /\ UNCHANGED <<standing, state, parted, message>>
Part == \E u \in Users :
  /\ Free("workspace", "shared") /\ state = "active" /\ standing[u] \notin {"admin", "owner"}
  /\ parted' = parted \cup {u}
  /\ UNCHANGED <<standing, state, home, message>>
DeleteHome == \E on \in {"item", "project"} :
  /\ Free("workspace", "shared") /\ Free(on, "update") /\ state = "active"
  /\ home[on] # "gone"
  /\ \A x \in Messages : Topic[x].on = on => Free(x, "update")
  /\ home' = [home EXCEPT ![on] = "gone"] /\ message' = Lost({on})
  /\ UNCHANGED <<standing, state, parted>>
Move == Moves /\ (SetStanding \/ SetState \/ SetProject \/ Part \/ DeleteHome)

\* Every client is answered and nothing more comes.
Finished == sent = MaxDemands /\ (\A q \in Processes : ~Busy(q)) /\ UNCHANGED vars

Init ==
  /\ standing \in [Users -> {"reviewer", "admin", "owner"}]
  /\ state = "active" /\ home = [item |-> "active", project |-> "active"] /\ parted = {}
  /\ message \in [Messages -> {"none", "here"}]
  /\ talk = [q \in Processes |-> Idle("none")] /\ sent = 0 /\ moved = 0
Next ==
  \/ \E q \in Processes : Statement(q) \/ Rollback(q) \/ \E c \in Demands : Begin(q, c)
  \/ Move \/ Finished
Spec == Init /\ [][Next]_vars

-------------------------------------------------------------------------------
\* A message is written or removed only by somebody who may do it as the role, the
\* Workspace and the Project stand at the commit, whatever changed since the
\* command read them; and nothing is added to what is gone.
SpokenWithAuthority == [][\A q \in Processes : LET c == talk[q].cmd IN
  c.op \in {"add", "delete", "moderate"} /\ talk'[q].answer = "done" =>
    /\ MayDo(c) /\ (c.on = "project" => home.project = "active")
    /\ (c.op = "moderate") <=> (Topic[c.message].by # c.by)
    /\ c.op = "add" => home[c.on] = "active"]_vars

\* No cycle of lock waits: "No command acquires a child row and then goes back to
\* lock its parent" (docs/architecture/business-concurrency.md:70-71).
NoLockCycle == \A S \in SUBSET Processes :
  S # {} => \E q \in S : \A r \in S : ~BlockedBy(q, r)
================================================================================
