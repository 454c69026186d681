------------------------------- MODULE MCAccounts -------------------------------
(***************************************************************************)
(* An administrator and a member log in, the member's stored hash dated so *)
(* that a login of theirs upgrades it; or a third username is invited and  *)
(* registers.                                                              *)
(***************************************************************************)
EXTENDS Accounts

CONSTANTS admin, member, c1, c2, web, old, new
VARIABLES cast

FirstHashes == [u \in Users |-> [pw |-> old, dated |-> u = member]]

MCInit == Init /\ R!Init /\ cast \in {"login", "registration"}
MCNext ==
  /\ \/ cast = "login" /\ Next /\ UNCHANGED joining
     \/ cast = "registration" /\ R!Next /\ UNCHANGED vars
  /\ UNCHANGED cast
MCSpec == MCInit /\ [][MCNext]_<<vars, joining, cast>> /\ Answers
=================================================================================
