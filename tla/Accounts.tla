-------------------------------- MODULE Accounts --------------------------------
(***************************************************************************)
(* How accounts come to be and are used: the logins of the Users there are *)
(* (Login) and the registration of one more username (Registration), whose *)
(* account nobody has logged into yet.  The same clients ask for both.     *)
(***************************************************************************)
EXTENDS Login

CONSTANTS Policy, MaxInvitations

VARIABLES account, inv, req, told

R == INSTANCE Registration WITH Callers <- Clients
ASSUME RegistrationAssumption == R!PolicyAssumption /\ R!BoundAssumption
joining == <<account, inv, req, told>>

\* Accepted and revoked invitations are what the account says: see Registration.
InvitationsStand == R!InvitationsStand
=================================================================================
