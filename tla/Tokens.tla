-------------------------------- MODULE Tokens --------------------------------
(***************************************************************************)
(* API tokens and the requests made with them (accounts/api_tokens.py,     *)
(* web/api/auth.py, mcp/).  A request authenticates in one statement after *)
(* the other - a tool call of the MCP server twice, before it and inside   *)
(* it - and then runs a command of its account: it issues a token, or      *)
(* revokes one.  Meanwhile tokens are revoked, expire and are retired, and *)
(* administrators deactivate and reactivate the account.                   *)
(*                                                                         *)
(* The clock counts from 1, so that revoked = 0 says "not revoked".        *)
(***************************************************************************)
EXTENDS Integers

CONSTANTS Users, Tokens, Callers,
          MaxDays,    \* MAX_API_TOKEN_DAYS
          Retention,  \* terminal_metadata_retention_days
          MaxClock,   \* bound: the time
          MaxMoves    \* bound: logins, logouts and changes of an account's status

TimesAssumption ==
  /\ MaxDays \in Nat /\ Retention \in Nat \ {0} /\ MaxClock \in Nat \ {0} /\ MaxMoves \in Nat
  /\ Tokens \cap {"session", "console", "none"} = {}

VARIABLES active,    \* Users that are active
          sessions,  \* Users with a login session
          token,     \* api_tokens
          clock, moved,
          req        \* per request: how far it is
vars == <<active, sessions, token, clock, moved, req>>

\* A request presents a token, a browser's session, or is a command of the CLI.
Credentials == Tokens \cup {"session", "console"}
TokenRows == [stage : {"none", "issued", "retired"}, user : Users, until : Nat, revoked : Nat]
Phases == {"token", "session", "owner", "subject", "command", "revoking", "issue", "revoke"}

\* late (history): the credential was a token that had ended when it arrived.
RequestRows ==
  [pc : Phases, layer : {"mcp", "api"}, user : Users, cred : Credentials, late : BOOLEAN,
   target : Tokens \cup {"none"}, own : BOOLEAN, open : BOOLEAN, at : Nat]
Idle == [pc |-> "idle"]

TypeOK ==
  /\ active \subseteq Users /\ sessions \subseteq Users
  /\ token \in [Tokens -> TokenRows]
  /\ clock \in 1..MaxClock /\ moved \in 0..MaxMoves
  /\ req \in [Callers -> RequestRows \cup {Idle}]

Running(r) == req[r] # Idle
At(r, phase) == Running(r) /\ req[r].pc = phase
Standing(t) == token[t].stage = "issued" /\ token[t].revoked = 0 /\ clock < token[t].until
Ended(t) == token[t].stage = "retired" \/ token[t].revoked # 0 \/ token[t].until <= clock

Goto(r, phase) == req' = [req EXCEPT ![r].pc = phase]
Leave(r) == req' = [req EXCEPT ![r] = Idle]
Rows == <<active, sessions, token, clock, moved>>

-------------------------------------------------------------------------------
(* current_api_user; ApiTokenVerifier around it for a tool call.             *)

Arrive(r) == \E u \in Users, c \in Credentials, l \in {"mcp", "api"} :
  /\ req[r] = Idle
  /\ c \in Tokens => token[c].stage # "none" /\ token[c].user = u
  /\ l = "mcp" => c \in Tokens
  /\ req' = [req EXCEPT ![r] =
       [pc |-> CASE c = "session" -> "session" [] c = "console" -> "owner" [] OTHER -> "token",
        layer |-> l, user |-> u, cred |-> c, late |-> c \in Tokens /\ Ended(c),
        target |-> "none", own |-> FALSE, open |-> FALSE, at |-> 0]]
  /\ UNCHANGED Rows

\* verify_api_token reads the row, then selectinload reads its User.
ReadToken(r) ==
  /\ At(r, "token")
  /\ IF Standing(req[r].cred) THEN Goto(r, "owner") ELSE Leave(r)
  /\ UNCHANGED Rows

\* get_login_session_by_token reads likewise.
ReadSession(r) ==
  /\ At(r, "session")
  /\ IF req[r].user \in sessions THEN Goto(r, "owner") ELSE Leave(r)
  /\ UNCHANGED Rows

\* The MCP server has then verified the bearer, and forwards it to the API.
ReadOwner(r) ==
  /\ At(r, "owner")
  /\ IF req[r].user \notin active THEN Leave(r)
     ELSE IF req[r].layer = "mcp"
          THEN req' = [req EXCEPT ![r].pc = "token", ![r].layer = "api"]
          ELSE Goto(r, IF req[r].cred \in Tokens THEN "subject" ELSE "command")
  /\ UNCHANGED Rows

\* resolve_api_token_user answers from the session's identity map while it
\* still holds the User that verification loaded.
Resolve(r) ==
  /\ At(r, "subject")
  /\ \/ Goto(r, "command")
     \/ req[r].user \notin active /\ Leave(r)
  /\ UNCHANGED Rows

-------------------------------------------------------------------------------
(* The commands.  require_system_resource_action waits for the User row,     *)
(* reads it again and shares it until the command ends.                      *)

\* revoke_api_token looks before it locks; the token it was called with may
\* still be in the identity map as verification saw it.
LookUp(r) == \E x \in Tokens, open \in BOOLEAN :
  /\ At(r, "command")
  /\ \/ open = (token[x].stage = "issued" /\ token[x].revoked = 0)
     \/ open /\ x = req[r].cred
  /\ req' = [req EXCEPT ![r].pc = "revoking", ![r].target = x, ![r].open = open,
               ![r].own = token[x].stage = "issued" /\ token[x].user = req[r].user]
  /\ UNCHANGED Rows

\* Under the lock; the expiry, or the moment of the revocation, is computed now
\* and written at the commit.
AuthorizeCreate(r) ==
  /\ At(r, "command")
  /\ \/ /\ req[r].user \in active
        /\ \E days \in 1..MaxDays :
             req' = [req EXCEPT ![r].pc = "issue", ![r].at = clock + days]
     \/ req[r].user \notin active /\ Leave(r)
  /\ UNCHANGED Rows

AuthorizeRevoke(r) ==
  /\ At(r, "revoking")
  /\ IF req[r].user \in active /\ req[r].own /\ req[r].open
     THEN req' = [req EXCEPT ![r].pc = "revoke", ![r].at = clock]
     ELSE Leave(r)
  /\ UNCHANGED Rows

CommitCreate(r) == \E t \in Tokens :
  /\ At(r, "issue") /\ token[t].stage = "none"
  /\ token' = [token EXCEPT ![t] = [stage |-> "issued", user |-> req[r].user,
                                    until |-> req[r].at, revoked |-> 0]]
  /\ Leave(r)
  /\ UNCHANGED <<active, sessions, clock, moved>>

\* A row that was retired meanwhile makes the UPDATE fail.
CommitRevoke(r) ==
  LET x == req[r].target IN
  /\ At(r, "revoke")
  /\ token' = IF token[x].stage = "issued" THEN [token EXCEPT ![x].revoked = req[r].at] ELSE token
  /\ Leave(r)
  /\ UNCHANGED <<active, sessions, clock, moved>>

\* The request is cancelled, or its server dies.
Cancel(r) == Running(r) /\ Leave(r) /\ UNCHANGED Rows

-------------------------------------------------------------------------------
(* update_user_status waits for whoever shares the User row.                 *)

Holding(r) == At(r, "issue") \/ At(r, "revoke")
\* Mutant: the row is not locked.
SharesNever(u) == FALSE
Shares(u) == \E r \in Callers : Holding(r) /\ req[r].user = u
Moves == moved < MaxMoves /\ moved' = moved + 1
SetActive(u, on) ==
  /\ Moves /\ ~Shares(u)
  /\ active' = IF on THEN active \cup {u} ELSE active \ {u}
  /\ sessions' = IF on THEN sessions ELSE sessions \ {u}
  /\ UNCHANGED <<token, clock, req>>

\* Logins and logouts are in module Login.
SetSession(u, on) ==
  /\ Moves /\ (on => u \in active)
  /\ sessions' = IF on THEN sessions \cup {u} ELSE sessions \ {u}
  /\ UNCHANGED <<active, token, clock, req>>

Tick == clock < MaxClock /\ clock' = clock + 1 /\ UNCHANGED <<active, sessions, token, moved, req>>

\* purge_expired_account_records: a page holds all of them here.
Terminal(t) == IF token[t].revoked # 0 THEN token[t].revoked ELSE token[t].until
Old == {t \in Tokens : token[t].stage = "issued" /\ Terminal(t) + Retention <= clock}
Retire ==
  /\ Old # {}
  /\ token' = [t \in Tokens |-> IF t \in Old THEN [token[t] EXCEPT !.stage = "retired"] ELSE token[t]]
  /\ UNCHANGED <<active, sessions, clock, moved, req>>

\* Tokens may have been issued before.
FirstRows == [stage : {"none"}, user : Users, until : {0}, revoked : {0}]
        \cup [stage : {"issued"}, user : Users, until : 1..(MaxDays + 1), revoked : {0}]
Init ==
  /\ active \in SUBSET Users /\ sessions = {} /\ clock = 1 /\ moved \in 0..MaxMoves
  /\ token \in [Tokens -> FirstRows]
  /\ req = [r \in Callers |-> Idle]

Authenticates(r) == Arrive(r) \/ ReadToken(r) \/ ReadSession(r) \/ ReadOwner(r) \/ Resolve(r)
Commands(r) ==
  LookUp(r) \/ AuthorizeCreate(r) \/ AuthorizeRevoke(r) \/ CommitCreate(r) \/ CommitRevoke(r)
Next ==
  \/ \E r \in Callers : Authenticates(r) \/ Commands(r) \/ Cancel(r)
  \/ \E u \in Users, on \in BOOLEAN : SetActive(u, on) \/ SetSession(u, on)
  \/ Tick \/ Retire
Spec == Init /\ [][Next]_vars

-------------------------------------------------------------------------------
(* What a request that commits may have changed, and with what authority: its*)
(* account is active at the commit, however long ago it authenticated; its   *)
(* token had not ended when it arrived; and every token it issues or revokes *)
(* is its account's own.                                                     *)
Commits(r) == Holding(r) /\ req'[r] = Idle /\ token' # token
ActsWithAuthority == [][\A r \in Callers : Commits(r) =>
  /\ req[r].user \in active /\ ~req[r].late
  /\ \A t \in Tokens : token'[t] # token[t] => token'[t].user = req[r].user]_vars
===============================================================================
