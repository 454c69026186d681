--------------------------------- MODULE MCTags ---------------------------------
(* Two Items and two Tags: merges meet the selections of an Item's editor.       *)
EXTENDS Tags, TLC
CONSTANTS s1, s2
Servers == Permutations(Processes)
TwoItems == {1, 2}
TwoTags == {1, 2}
Names == {1, 2, 3}
Merges == {[op |-> "merge", tag |-> t, to |-> 3 - t] : t \in {1, 2}}
Picks == {[op |-> "select", item |-> 1, names |-> names, tags |-> {2}, drops |-> {1}] :
            names \in {<<3>>, <<>>}}
MCRequests == Merges \cup Picks
=================================================================================
