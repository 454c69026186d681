----------------------------- MODULE MCDiscussions -----------------------------
(* An author (2) deletes a message of an Item while its Workspace is deleted.    *)
EXTENDS Discussions
CONSTANT m1
MCUsers == {1, 2}
MCTopic == [x \in {m1} |-> [on |-> "item", by |-> 2]]
MCDemands == {[op |-> "delete", by |-> 2, on |-> "item", message |-> m1],
              [op |-> "destroy", by |-> 1]}
=================================================================================
