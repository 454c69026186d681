------------------------------ MODULE Registration ------------------------------
(***************************************************************************)
(* How one username becomes an account: instance invitations created,      *)
(* revoked, reissued and accepted by link, and open registration           *)
(* (accounts/invitations.py, authentication.py, registration.py,           *)
(* retention.py), as concurrent transactions.                              *)
(*                                                                         *)
(* An acceptance checks its link, hashes a password outside any            *)
(* transaction, and claims the invitation by a conditional UPDATE.  A      *)
(* transaction holds the rows and the keys it has written until it ends,   *)
(* and they show when it commits.                                          *)
(***************************************************************************)
EXTENDS Naturals, FiniteSets

CONSTANTS Callers,        \* concurrent requests
          Policy,         \* "open", or a policy that wants an invitation
          MaxInvitations  \* bound: invitations ever made

PolicyAssumption == Policy \in {"open", "invitation_only", "closed"}
BoundAssumption == MaxInvitations \in Nat

VARIABLES account,  \* the users row of this username
          inv,      \* invitations for it, in the order they were made
          req,      \* the request each caller is in
          told     \* history: invitations an administrator was told are revoked

vars == <<account, inv, req, told>>

Invitations == 1..MaxInvitations
Roles == {"member", "admin"}
NoAccount == [via |-> 0, role |-> "none"]
Himself == MaxInvitations + 1  \* registered without an invitation
Idle == [op |-> "none", phase |-> "idle", inv |-> 0, role |-> "none"]

TypeOK ==
  /\ account \in [via : Invitations \cup {Himself}, role : Roles] \cup {NoAccount}
  /\ inv \in [Invitations ->
       [state : {"unborn", "pending", "accepted", "revoked", "purged"},
        role : Roles \cup {"none"}, late : BOOLEAN]]
  /\ req \in [Callers ->
       [op : {"create", "revoke", "reissue", "accept", "register"},
        phase : {"asked", "hashing", "claimed", "written"},
        inv : 0..MaxInvitations, role : Roles \cup {"none"}] \cup {Idle}]
  /\ told \subseteq Invitations

Is(c, op, phase) == req[c].op = op /\ req[c].phase = phase
Moves(c, phase) == req' = [req EXCEPT ![c].phase = phase]
Ends(c) == req' = [req EXCEPT ![c] = Idle]
Refuse(c) == Ends(c) /\ UNCHANGED <<account, inv, told>>

\* The invitation row a transaction has written, the new row and the new username.
Claims(c, k) == req[c].phase \in {"claimed", "written"} /\ req[c].inv = k
Mints(c) == req[c].op \in {"create", "reissue"} /\ req[c].phase = "written"
Enrols(c) == req[c].op \in {"accept", "register"} /\ req[c].phase = "written"
Free(c, k) == \A d \in Callers \ {c} : ~Claims(d, k)
Others(c, P(_)) == \E d \in Callers \ {c} : P(d)

Pending(k) == inv[k].state = "pending"
Unborn == {k \in Invitations : inv[k].state = "unborn"}
Next1 == CHOOSE k \in Unborn : \A j \in Unborn : k <= j
Exists == account # NoAccount

-------------------------------------------------------------------------------
(* create_invitation.                                                       *)

AskCreate(c, role) ==
  /\ req[c] = Idle /\ ~Exists
  /\ req' = [req EXCEPT ![c] = [op |-> "create", phase |-> "asked", inv |-> 0, role |-> role]]
  /\ UNCHANGED <<account, inv, told>>
\* Expired links still hold the username; they are revoked in this transaction.
Retire(c) ==
  /\ Is(c, "create", "asked")
  /\ \/ \E k \in Invitations :
          /\ Pending(k) /\ inv[k].late /\ Free(c, k)
          /\ req' = [req EXCEPT ![c].phase = "claimed", ![c].inv = k]
     \/ /\ \A k \in Invitations : ~(Pending(k) /\ inv[k].late)
        /\ Moves(c, "claimed")
  /\ UNCHANGED <<account, inv, told>>

\* The unique index of pending usernames: an INSERT waits for whoever is writing
\* the row or the key that it meets.
Waits(c) ==
  \/ Others(c, Mints)
  \/ \E k \in Invitations : Pending(k) /\ ~Free(c, k)
Reserved(c) == \E k \in Invitations : Pending(k) /\ ~Claims(c, k)
Mint(c) ==
  /\ req[c].op \in {"create", "reissue"} /\ req[c].phase = "claimed" /\ ~Waits(c)
  /\ Unborn # {}
  /\ IF Reserved(c) \/ (req[c].op = "reissue" /\ Exists) THEN Refuse(c)
     ELSE Moves(c, "written") /\ UNCHANGED <<account, inv, told>>
CommitMint(c) ==
  /\ Mints(c) /\ Ends(c)
  /\ inv' = [k \in Invitations |->
       IF k = Next1 THEN [state |-> "pending", role |-> req[c].role, late |-> FALSE]
       ELSE IF k = req[c].inv THEN [inv[k] EXCEPT !.state = "revoked"] ELSE inv[k]]
  /\ UNCHANGED <<account, told>>

-------------------------------------------------------------------------------
(* reissue_invitation and revoke_invitation: a conditional UPDATE each.       *)

Reissue(c, k) ==
  /\ req[c] = Idle /\ Free(c, k) /\ Pending(k)
  /\ req' = [req EXCEPT ![c] = [op |-> "reissue", phase |-> "claimed", inv |-> k,
                                role |-> inv[k].role]]
  /\ UNCHANGED <<account, inv, told>>
\* One that was revoked before is answered alike.
Revoke(k) ==
  /\ \A c \in Callers : ~Claims(c, k)
  /\ inv[k].state \in {"pending", "revoked"}
  /\ inv' = [inv EXCEPT ![k].state = "revoked"] /\ told' = told \cup {k}
  /\ UNCHANGED <<account, req>>

-------------------------------------------------------------------------------
(* accept_invitation and register_user.                                       *)

Check(c, k) ==
  /\ req[c] = Idle /\ Pending(k) /\ ~inv[k].late /\ ~Exists
  /\ req' = [req EXCEPT ![c] = [op |-> "accept", phase |-> "hashing", inv |-> k,
                                role |-> inv[k].role]]
  /\ UNCHANGED <<account, inv, told>>
\* Mutant: the link found before the password was hashed is written.
AcceptableByToken(k) == inv[k].state # "purged"
Acceptable(k) == Pending(k) /\ ~inv[k].late
Claim(c) ==
  /\ Is(c, "accept", "hashing") /\ Free(c, req[c].inv)
  /\ IF Acceptable(req[c].inv) THEN Moves(c, "claimed") /\ UNCHANGED <<account, inv, told>>
     ELSE Refuse(c)

AskRegister(c) ==
  /\ req[c] = Idle /\ Policy = "open"
  /\ req' = [req EXCEPT ![c] = [op |-> "register", phase |-> "claimed", inv |-> 0,
                                role |-> "member"]]
  /\ UNCHANGED <<account, inv, told>>

\* The INSERT of the User waits for another of the same name.
\* Mutant: the conflict ends the request but keeps what was claimed.
TakenAlready(c) ==
  /\ Ends(c) /\ UNCHANGED <<account, told>>
  /\ inv' = [k \in Invitations |->
       IF k = req[c].inv THEN [inv[k] EXCEPT !.state = "accepted"] ELSE inv[k]]
Taken(c) == Refuse(c)
Enrol(c) ==
  /\ req[c].op \in {"accept", "register"} /\ req[c].phase = "claimed"
  /\ ~Others(c, Enrols)
  /\ IF Exists THEN Taken(c) ELSE Moves(c, "written") /\ UNCHANGED <<account, inv, told>>
CommitEnrol(c) ==
  /\ Enrols(c) /\ Ends(c)
  /\ account' = [via |-> IF req[c].op = "accept" THEN req[c].inv ELSE Himself,
                 role |-> req[c].role]
  /\ inv' = [k \in Invitations |->
       IF k = req[c].inv THEN [inv[k] EXCEPT !.state = "accepted"] ELSE inv[k]]
  /\ UNCHANGED told

-------------------------------------------------------------------------------
\* Lost connection or cancelled request.
Lose(c) == req[c] # Idle /\ Refuse(c)
Expire(k) ==
  /\ Pending(k) /\ ~inv[k].late
  /\ inv' = [inv EXCEPT ![k].late = TRUE]
  /\ UNCHANGED <<account, req, told>>
\* purge_expired_account_records, long after the invitation ended.
Purge(k) ==
  /\ \A c \in Callers : ~Claims(c, k)
  /\ inv[k].state \in {"accepted", "revoked"} \/ (Pending(k) /\ inv[k].late)
  /\ inv' = [inv EXCEPT ![k].state = "purged"]
  /\ UNCHANGED <<account, req, told>>

Init ==
  /\ account = NoAccount /\ told = {}
  /\ inv = [k \in Invitations |-> [state |-> "unborn", role |-> "none", late |-> FALSE]]
  /\ req = [c \in Callers |-> Idle]

Step(c) ==
  \/ \E role \in Roles : AskCreate(c, role)
  \/ Retire(c) \/ Mint(c) \/ CommitMint(c)
  \/ AskRegister(c) \/ Claim(c) \/ Enrol(c) \/ CommitEnrol(c) \/ Lose(c)
  \/ \E k \in Invitations : Reissue(c, k) \/ Check(c, k)
Next ==
  \/ \E c \in Callers : Step(c)
  \/ \E k \in Invitations : Revoke(k) \/ Expire(k) \/ Purge(k)
Spec == Init /\ [][Next]_vars

-------------------------------------------------------------------------------
\* The account an accepted invitation made, with the role it gave, is the account
\* of this username: no acceptance is recorded that admitted nobody, and none
\* admitted somebody else's account.
AcceptedMeansAccount ==
  \A k \in Invitations : inv[k].state = "accepted" =>
    account = [via |-> k, role |-> inv[k].role]

\* Once an administrator is told that an invitation is revoked its link admits
\* nobody, not even a request that had found it valid before.
RevokedStaysOut ==
  \A k \in told : inv[k].state \in {"revoked", "purged"} /\ account.via # k

\* What an administrator and the new account hold about an invitation stays true.
InvitationsStand == AcceptedMeansAccount /\ RevokedStaysOut
=================================================================================
