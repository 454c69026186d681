---------------------------------- MODULE Tags ----------------------------------
(***************************************************************************)
(* The Tags of a Workspace and their links to Items, as concurrent         *)
(* PostgreSQL transactions (library/tags.py, library/bulk_items.py).       *)
(*                                                                         *)
(* A command looks its Tags up without a lock, then takes its rows one by  *)
(* one, each as a row lock or as the key of a row it inserts or deletes;   *)
(* the database checks the foreign keys of new links last.  What a         *)
(* transaction has written shows when it commits.  Abstractions: a Tag is  *)
(* its name, which is not used again once the Tag is gone; a deletion of   *)
(* an Item is one step.                                                    *)
(***************************************************************************)
EXTENDS Naturals, Sequences, FiniteSets
Seqs == INSTANCE SequencesExt

CONSTANTS Items, TagIds,
          Born,       \* Tags that exist at the start
          Processes,  \* concurrent server processes
          Requests,   \* commands clients may send
          Budget      \* bound: commands in one behaviour

IdsAssumption == Items \subseteq Nat /\ TagIds \subseteq Nat /\ Born \subseteq TagIds
BudgetAssumption == Budget \in Nat

VARIABLES items,   \* Items that exist
          tags,    \* Tags that exist
          gone,    \* Tags deleted or merged away
          links,   \* item_tags
          tx,      \* per process: the running transaction
          budget   \* commands still to come

tables == <<items, tags, gone, links>>
vars == <<tables, tx, budget>>

-------------------------------------------------------------------------------
(* Steps and their locks.  A key is an Item, a Tag, or both, 0 for neither.   *)

Step(do, on, key, mode) == [do |-> do, on |-> on, key |-> key, mode |-> mode]
LockTag(t, mode) == Step("lock", "tag", <<0, t>>, mode)
CreateTag(t) == Step("create", "name", <<0, t>>, "update")
Insert(i, t) == Step("insert", "link", <<i, t>>, "update")
Delete(i, t) == Step("delete", "link", <<i, t>>, "update")
ReadLinks == Step("read", "none", <<0, 0>>, "none")
DropLinks == Step("drop", "none", <<0, 0>>, "none")
\* A foreign key of the new link <<i, t>>.
KeyOfItem(i, t) == [do |-> "check", on |-> "item", key |-> <<i, 0>>, mode |-> "key", row |-> <<i, t>>]
KeyOfTag(i, t) == [do |-> "check", on |-> "tag", key |-> <<0, t>>, mode |-> "key", row |-> <<i, t>>]

\* The row locks of PostgreSQL: FOR KEY SHARE to FOR UPDATE.
Strength == [key |-> 1, shared |-> 2, nokey |-> 3, update |-> 4, none |-> 0]
\* A deletion does not see the link that another transaction is inserting.
Blocks(held, step) ==
  /\ held.on = step.on /\ held.key = step.key
  /\ ~(held.do = "insert" /\ step.do = "delete")
  /\ Strength[held.mode] + Strength[step.mode] >= 5

Waiting(q) == tx[q].todo # <<>>
Now(q) == Head(tx[q].todo)
BlockedBy(q, r) == q # r /\ Waiting(q) /\ \E held \in tx[r].held : Blocks(held, Now(q))
Ready(q, do) ==
  /\ tx[q].cmd.op # "none" /\ Waiting(q) /\ Now(q).do = do
  /\ \A r \in Processes : ~BlockedBy(q, r)

Idle(answer) ==
  [cmd |-> [op |-> "none"], todo |-> <<>>, held |-> {}, in |-> {}, out |-> {}, met |-> {},
   answer |-> answer]
Becomes(q, t) == tx' = [tx EXCEPT ![q] = t] /\ UNCHANGED <<tables, budget>>
Refuse(q) == Becomes(q, Idle("refused"))
Taken(q) == [tx[q] EXCEPT !.todo = Tail(@), !.held = @ \cup {Now(q)}]
Passed(q) == [tx[q] EXCEPT !.todo = Tail(@)]

-------------------------------------------------------------------------------
(* Commands. *)

Sorted(S) == Seqs!SetToSortSeq(S, <)
Each(seq, F(_)) == [n \in DOMAIN seq |-> F(seq[n])]

\* _assign_item_tags: rows in the order of their Items, then the foreign keys.
Assigns(its, t) ==
  LET order == Sorted(its) IN
  Each(order, LAMBDA i : Insert(i, t)) \o Each(order, LAMBDA i : KeyOfItem(i, t))
    \o Each(order, LAMBDA i : KeyOfTag(i, t))

\* merge_tags locks both Tags in the order of their ids, the source as a row that
\* is about to be deleted.
\* Mutant: both Tags as rows that stay.
MergeModeAlike(c, t) == "nokey"
MergeMode(c, t) == IF t = c.tag THEN "update" ELSE "nokey"
MergeOrder(c) == Sorted({c.tag, c.to})

\* apply_item_tag_selection: names first, then every Tag in the order of ids.
Selects(c) ==
  LET picked == c.tags \cup Seqs!Range(c.names)
      Change(t) == IF t \in picked THEN Assigns({c.item}, t) ELSE <<>>
      Clear(t) == IF t \in c.drops THEN <<Delete(c.item, t)>> ELSE <<>>
      order == Sorted(picked \cup c.drops)
  IN Each(c.names, CreateTag) \o
     Seqs!FlattenSeq(Each(order, LAMBDA t : Clear(t) \o Change(t)))

Plan(c) ==
  CASE c.op = "add"    -> <<CreateTag(c.tag)>> \o Assigns(c.items, c.tag)
    [] c.op = "assign" -> Assigns(c.items, c.tag)
    [] c.op = "remove" -> Each(Sorted(c.items), LAMBDA i : Delete(i, c.tag))
    [] c.op = "bulk_remove" ->
         <<LockTag(c.tag, "shared")>> \o Each(Sorted(c.items), LAMBDA i : Delete(i, c.tag))
    [] c.op = "delete" -> <<LockTag(c.tag, "update"), DropLinks>>
    [] c.op = "merge"  ->
         Each(MergeOrder(c), LAMBDA t : LockTag(t, MergeMode(c, t))) \o <<ReadLinks, DropLinks>>
    [] c.op = "select" -> Selects(c)

\* The Items are there, and the Tags that the client names by id.
Named(c) == CASE c.op = "add" -> {} [] c.op = "select" -> c.tags [] OTHER -> {c.tag}
ItemsOf(c) == CASE c.op = "select" -> {c.item} [] c.op \in {"merge", "delete"} -> {}
                [] OTHER -> c.items
Begin(q, c) ==
  /\ tx[q].cmd.op = "none" /\ budget > 0
  /\ ItemsOf(c) \subseteq items /\ Named(c) \subseteq tags
  /\ tx' = [tx EXCEPT ![q] = [Idle("none") EXCEPT !.cmd = c, !.todo = Plan(c)]]
  /\ budget' = budget - 1
  /\ UNCHANGED tables

Lock(q) ==
  /\ Ready(q, "lock")
  /\ IF Now(q).key[2] \in tags THEN Becomes(q, Taken(q)) ELSE Refuse(q)

\* get_or_create_tag: one that exists is used, as is one that another transaction
\* has committed meanwhile.
Create(q) ==
  /\ Ready(q, "create") /\ Now(q).key[2] \notin gone
  /\ Becomes(q, IF Now(q).key[2] \in tags THEN Passed(q) ELSE Taken(q))

Unchecked(q, row) ==
  SelectSeq(Tail(tx[q].todo), LAMBDA s : s.do = "check" => s.row # row)
\* A link that exists is met, not inserted: ON CONFLICT DO NOTHING.
InsertLink(q) ==
  /\ Ready(q, "insert")
  /\ LET row == Now(q).key IN
     Becomes(q, IF row \in links \ tx[q].out
                THEN [tx[q] EXCEPT !.todo = Unchecked(q, row), !.met = @ \cup {row}]
                ELSE [Taken(q) EXCEPT !.in = @ \cup {row}])
Made(q) == {s.key[2] : s \in {h \in tx[q].held : h.do = "create"}}
CheckKey(q) ==
  /\ Ready(q, "check")
  /\ LET s == Now(q) IN
     IF IF s.on = "item" THEN s.key[1] \in items ELSE s.key[2] \in tags \cup Made(q)
     THEN Becomes(q, Taken(q)) ELSE Refuse(q)
DeleteLink(q) ==
  /\ Ready(q, "delete")
  /\ LET row == Now(q).key IN
     Becomes(q, IF row \in links THEN [Taken(q) EXCEPT !.out = @ \cup {row}] ELSE Passed(q))

\* merge_tags reads the Items of the source, and adds the target to them.
LinkedTo(t) == {i \in Items : <<i, t>> \in links}
Read(q) ==
  /\ Ready(q, "read")
  /\ Becomes(q, [tx[q] EXCEPT !.todo = Assigns(LinkedTo(tx[q].cmd.tag), tx[q].cmd.to) \o Tail(@)])
\* DELETE ... WHERE tag_id visits its rows in any order.
Drop(q) ==
  /\ Ready(q, "drop")
  /\ LET c == tx[q].cmd IN
     \E order \in Seqs!SetToSeqs(LinkedTo(c.tag)) :
       Becomes(q, [tx[q] EXCEPT !.todo = Each(order, LAMBDA i : Delete(i, c.tag)) \o Tail(@)])

\* _add_tag_id_to_item looks for the link that it met; somebody has removed it since.
LinkVanished(q) ==
  tx[q].cmd.op \in {"add", "assign", "select"} /\ ~(tx[q].met \subseteq links) /\ Refuse(q)

Deletes(q) == IF tx[q].cmd.op \in {"merge", "delete"} THEN {tx[q].cmd.tag} ELSE {}
Commit(q) ==
  /\ tx[q].cmd.op # "none" /\ ~Waiting(q)
  /\ tags' = (tags \cup Made(q)) \ Deletes(q) /\ gone' = gone \cup Deletes(q)
  /\ links' = {row \in (links \ tx[q].out) \cup tx[q].in : row[2] \notin Deletes(q)}
  /\ tx' = [tx EXCEPT ![q] = Idle("done")]
  /\ UNCHANGED <<items, budget>>

\* Lost connection or cancelled request, and the deadlock detector.
Rollback(q) == tx[q].cmd.op # "none" /\ Becomes(q, Idle("lost"))

\* delete_item and _delete_items hold the Item root against new links.
DeleteItem(i) ==
  /\ i \in items /\ budget > 0
  /\ \A q \in Processes : \A held \in tx[q].held :
       ~(held.on = "item" /\ held.key[1] = i) /\ ~(held.on = "link" /\ held.key \in links
                                                /\ held.key[1] = i)
  /\ items' = items \ {i} /\ links' = {row \in links : row[1] # i}
  /\ budget' = budget - 1
  /\ UNCHANGED <<tags, gone, tx>>

\* Every client is answered and no more commands come.
Finished == budget = 0 /\ (\A q \in Processes : tx[q].cmd.op = "none") /\ UNCHANGED vars

Init ==
  /\ items = Items /\ tags = Born /\ gone = {} /\ links \in SUBSET (Items \X Born)
  /\ tx = [q \in Processes |-> Idle("none")] /\ budget = Budget

Progress(q) ==
  \/ Lock(q) \/ Create(q) \/ InsertLink(q) \/ LinkVanished(q) \/ CheckKey(q) \/ DeleteLink(q)
  \/ Read(q) \/ Drop(q) \/ Commit(q)
Next ==
  \/ \E q \in Processes : Progress(q) \/ Rollback(q) \/ \E c \in Requests : Begin(q, c)
  \/ \E i \in Items : DeleteItem(i)
  \/ Finished
Spec == Init /\ [][Next]_vars

-------------------------------------------------------------------------------
\* Merging loses nothing: an Item that bears the source when the merge commits
\* bears the target after it, unless it did already when the merge came to it and
\* somebody has removed that since.
MergeLosesNothing == [][\A q \in Processes :
  LET c == tx[q].cmd IN
  c.op = "merge" /\ tx'[q].answer = "done" =>
    \A i \in LinkedTo(c.tag) : <<i, c.to>> \in links' \cup tx[q].met]_vars

\* No cycle of lock waits: "Multiple rows of one aggregate are acquired in stable
\* ID order" (docs/architecture/business-concurrency.md:70).
NoLockCycle == \A S \in SUBSET Processes :
  S # {} => \E q \in S : \A r \in S : ~BlockedBy(q, r)
================================================================================
