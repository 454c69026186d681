------------------------------- MODULE MCLibrary -------------------------------
(***************************************************************************)
(* One Item whose edits meet the generation of recommendations, a rebuild  *)
(* of the projections, or synchronizations with a provider; two Items that *)
(* share Tags; or the discussions of an Item and of a Project, in which    *)
(* account 2 writes and account 1, the owner, moderates.                   *)
(***************************************************************************)
EXTENDS Library
CONSTANTS c1, c2, s1, s2, m1, m2
VARIABLES cast

TwoItems == {1, 2}
TwoTags == {1, 2}
Names == {1, 2, 3}  \* the two Tags in use, and a new one
Merges == {[op |-> "merge", tag |-> t, to |-> 3 - t] : t \in {1, 2}}
\* The commands on Tags given by id are for one Item, but for the bulk removal.
OnTags == {[op |-> op, items |-> {1}, tag |-> t] : op \in {"assign", "remove"}, t \in {1, 2}}
            \cup {[op |-> "bulk_remove", items |-> {1, 2}, tag |-> 1]}
Adds == {[op |-> "add", items |-> {1, 2}, tag |-> 1], [op |-> "add", items |-> {1}, tag |-> 3]}
Deletions == {[op |-> "delete", tag |-> 2]}
MCRequests == Merges \cup OnTags \cup Adds \cup Deletions

TwoUsers == {1, 2}
Topics == [x \in {m1, m2} |-> [on |-> IF x = m1 THEN "item" ELSE "project", by |-> 2]]
Says(op, by) == {[op |-> op, by |-> by, on |-> Topics[x].on, message |-> x] : x \in {m1, m2}}
MCDemands == Says("add", 2) \cup Says("delete", 2) \cup Says("moderate", 1)
               \cup {[op |-> "destroy", by |-> 1]}

MCInit ==
  /\ Init /\ Tagging!Init /\ Talk!Init
  /\ cast \in {"recommend", "rebuild", "synchronize", "tags", "talk"}
  /\ IF cast = "tags" THEN <<1, 1>> \in links ELSE links = {}
  /\ standing = <<"owner", "reviewer">>
  /\ cast # "talk" => \A x \in {m1, m2} : message[x] = "none"
MCNext ==
  /\ \/ cast = "recommend" /\ (Edit \/ Generation \/ Authority) /\ UNCHANGED <<tagging, talking>>
     \/ cast = "rebuild" /\ (Edit \/ RegenerateKey \/ Rebuild) /\ UNCHANGED <<tagging, talking>>
     \/ cast = "synchronize" /\ (Edit \/ Keys) /\ UNCHANGED <<tagging, talking>>
     \/ cast = "tags" /\ Tagging!Next /\ UNCHANGED <<vars, talking>>
     \/ cast = "talk" /\ Talk!Next /\ UNCHANGED <<vars, tagging>>
  /\ cast # "synchronize" => item'.key \in {"none", "current"} /\ UNCHANGED client[c2]
  /\ UNCHANGED cast
MCSpec == MCInit /\ [][MCNext]_<<vars, cast, tagging, talking>> /\ Works
================================================================================
