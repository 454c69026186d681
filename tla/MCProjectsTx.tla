------------------------------ MODULE MCProjectsTx ------------------------------
(***************************************************************************)
(* Account 1 is an admin, 2 an editor; two server processes.  A behaviour  *)
(* sends the commands of one family.                                       *)
(***************************************************************************)
EXTENDS ProjectsTx, TLC

VARIABLE family

MCUsers == {1, 2}
MCRoster == <<"admin", "editor">>
MCItems == {1, 2}
NewestFirst == <<2, 1>>
OneProject == {<<"managed", "none">>, <<"open", "none">>}
Servers == Permutations(Processes)

Plain(op, actors) == {[op |-> op, by |-> a, project |-> 1] : a \in actors}
OnItems(op, actors, orders) ==
  {[op |-> op, by |-> a, project |-> 1, items |-> s] : a \in actors, s \in orders}
Modes(actors, modes) ==
  {[op |-> "update", by |-> a, project |-> 1, mode |-> m] : a \in actors, m \in modes}
States(actors) ==
  {[op |-> "set_state", by |-> a, project |-> 1, state |-> s] :
     a \in actors, s \in {"active", "archived"}}

\* A curated Project: its participant works while being removed.
CuratedRequests ==
  {[op |-> "add", by |-> 1, project |-> 1, target |-> <<2, g>>] : g \in Gens}
  \cup {[op |-> "remove", by |-> 1, project |-> 1, user |-> 2]}
  \cup OnItems("attach", {2}, {<<1>>})
  \cup Modes({1, 2}, {"managed", "open"}) \cup States({1, 2}) \cup Plain("delete", {1})

\* An open Project: the same account joins and leaves in two requests, modes
\* and lifecycle move, and a second Project is created.
OpenRequests ==
  Plain("join", {2}) \cup Plain("leave", {2})
  \cup Modes({1, 2}, {"workspace", "open", "managed"})
  \cup States({2}) \cup Plain("delete", {2})
  \cup {[op |-> "create", by |-> 2, project |-> 2, mode |-> m] : m \in {"open", "managed"}}
  \cup {[op |-> "join", by |-> 1, project |-> 2]}

\* Bulk working-set changes, in whatever order clients send the Items.
BulkRequests ==
  OnItems("attach", {1, 2}, {<<1, 2>>, <<2, 1>>, <<1>>})
  \cup OnItems("detach", {1, 2}, {<<1, 2>>, <<1>>}) \cup States({1})

Families == [curated |-> CuratedRequests, joining |-> OpenRequests, bulk |-> BulkRequests]
MCRequests == UNION {Families[f] : f \in DOMAIN Families}

MCInit ==
  /\ TxInit
  /\ family \in DOMAIN Families
  /\ project[1].mode = IF family = "curated" THEN "managed" ELSE "open"
MCNext ==
  /\ TxNext
  /\ \A q \in Processes : tx'[q].cmd \in Families[family] \cup {[op |-> "none"]}
  /\ UNCHANGED family
MCSpec == MCInit /\ [][MCNext]_<<txVars, family>>
===============================================================================
