--------------------------------- MODULE Login ---------------------------------
(***************************************************************************)
(* Login signing against everything that revokes credentials               *)
(* (accounts/authentication.py, sessions.py, throttling.py, retention.py   *)
(* and the account commands of administration.py), as interleaved calls.   *)
(*                                                                         *)
(* A call is a request inside one of the commands with more than one       *)
(* transaction or lock wait.  Its steps are its database transactions,     *)
(* split where the command takes the User row: "granted" and "refused"     *)
(* calls have read the row under their lock and hold it until they commit. *)
(* A call can also be lost at any point, which rolls its transaction back. *)
(*                                                                         *)
(* A password hash is its password, the serial of the salt it was made     *)
(* with and whether its cost parameters are dated.  Sessions are told      *)
(* apart by user and by the hash their login verified (kept for the        *)
(* properties, the code has no such column).  An expired session is gone:  *)
(* no request resolves it and retention only deletes it.                   *)
(***************************************************************************)
EXTENDS Integers, FiniteSets

CONSTANTS Users, Administrators, Clients, Addresses, Passwords,
          Subjects,   \* bound: Users that log in and change their password
          FirstHash,  \* the password each User starts with
          Limit,      \* THROTTLE_LIMIT
          MaxAsked    \* bound: password resets and changes ever begun

ASSUME AdministratorsAssumption == Administrators \subseteq Users
ASSUME SubjectsAssumption == Subjects \subseteq Users
ASSUME ClientsAssumption == IsFiniteSet(Clients)
ASSUME FirstHashAssumption ==
  FirstHash \in [Users -> [pw : Passwords, dated : BOOLEAN]]
ASSUME LimitAssumption == Limit \in Nat \ {0} /\ MaxAsked \in Nat

VARIABLES user,      \* users: active flag and password hash
          session,   \* login_sessions
          throttle,  \* login_throttles
          call,      \* the request each client is in
          made,      \* last salt serial of each User
          floor,     \* history: serial the last reset of each User installed
          asked      \* history: resets and changes begun

vars == <<user, session, throttle, call, made, floor, asked>>

Serials == Nat
Hashes == [pw : Passwords, n : Serials, dated : BOOLEAN]
NoHash == [pw |-> "none", n |-> 0, dated |-> FALSE]
UserRows == [active : BOOLEAN, hash : Hashes]
Sessions == [user : Users, n : Serials]

\* The identity of a login attempt hashes its address and username.
Identities == Addresses \X Users
\* No failures stands for no row.
ThrottleRows == [failures : Nat, lapsed : BOOLEAN]
NoFailures == [failures |-> 0, lapsed |-> FALSE]

Idle == [phase |-> "idle"]
LoginCalls == [op : {"login"}, phase : {"checked", "seen", "granted", "refused"},
               user : Users, at : Addresses, pw : Passwords,
               seen : Hashes \cup {NoHash}, stale : BOOLEAN]
ChangeCalls == [op : {"change"}, phase : {"seen", "granted"},
                user : Users, seen : Hashes, new : Passwords]
ResetCalls == [op : {"reset"}, phase : {"seen", "granted"},
               by : Administrators, user : Users, new : Passwords]
StatusCalls == [op : {"close", "open"}, phase : {"seen", "granted"},
                by : Administrators, user : Users]

TypeOK ==
  /\ user \in [Users -> UserRows]
  /\ session \in SUBSET Sessions
  /\ throttle \in [Identities -> ThrottleRows]
  /\ call \in [Clients -> {Idle} \cup LoginCalls \cup ChangeCalls
                             \cup ResetCalls \cup StatusCalls]
  /\ made \in [Users -> Serials]
  /\ floor \in [Users -> Serials]
  /\ asked \in 0..MaxAsked

-------------------------------------------------------------------------------
(* User row locks. *)

Running(c) == call[c].phase # "idle"
Does(c, op, phase) == Running(c) /\ call[c].op = op /\ call[c].phase = phase
Holding(c) == call[c].phase \in {"granted", "refused"}
\* NO KEY UPDATE on the User the call is about.
Writes(c, u) == Holding(c) /\ call[c].user = u
\* FOR SHARE on the administrator, unless it is the target itself.
Shares(c, u) ==
  /\ Holding(c) /\ call[c].op \in {"reset", "close", "open"}
  /\ call[c].by = u /\ call[c].user # u
CanWrite(u) == \A d \in Clients : ~Writes(d, u) /\ ~Shares(d, u)
CanShare(u) == \A d \in Clients : ~Writes(d, u)

Step(c, next) == call' = [call EXCEPT ![c] = next]
\* Mutant: a refused login answers and keeps its transaction open.
FinishRefused(c) ==
  IF call[c].phase = "refused" THEN Step(c, call[c]) ELSE Step(c, Idle)
\* Commit or rollback: the call ends and its locks are released.
Finish(c) == Step(c, Idle)

SessionsOf(u) == {s \in session : s.user = u}
Fresh(u) == made[u] + 1

-------------------------------------------------------------------------------
(* authenticate_user. *)

\* _check_login_throttle.
MayTry(k) == throttle[k].lapsed \/ throttle[k].failures < Limit
CheckThrottle(c, u, at, p) ==
  /\ call[c] = Idle
  /\ MayTry(<<at, u>>)
  /\ Step(c, [op |-> "login", phase |-> "checked", user |-> u, at |-> at, pw |-> p,
              seen |-> NoHash, stale |-> throttle[<<at, u>>].lapsed])
  /\ UNCHANGED <<user, session, throttle, made, floor, asked>>

Identity(c) == <<call[c].at, call[c].user>>

\* The delete names the expired window again.
\* Mutant: it deletes whatever row is there now.
RetireAnyWindow(c) == IF call[c].stale THEN NoFailures ELSE throttle[Identity(c)]
RetiredWindow(c) ==
  IF call[c].stale /\ throttle[Identity(c)].lapsed THEN NoFailures
  ELSE throttle[Identity(c)]

\* Retire the expired window, read the User, commit; then verify outside.
Capture(c) ==
  /\ Does(c, "login", "checked")
  /\ throttle' = [throttle EXCEPT ![Identity(c)] = RetiredWindow(c)]
  /\ Step(c, [call[c] EXCEPT !.phase = "seen",
                !.seen = IF user[call[c].user].active THEN user[call[c].user].hash
                         ELSE NoHash])
  /\ UNCHANGED <<user, session, made, floor, asked>>

\* _record_login_failure: one atomic upsert.
Counted(row) ==
  [failures |-> IF row.lapsed THEN 1 ELSE row.failures + 1, lapsed |-> FALSE]
RecordFailure(c) ==
  throttle' = [throttle EXCEPT ![Identity(c)] = Counted(@)]

Verified(c) == call[c].seen.pw = call[c].pw

\* The captured hash is still the User's, and the account is active.
\* Mutant: only the account is looked at again.
StillActive(c) == user[call[c].user].active
StillCurrent(c) ==
  /\ user[call[c].user].active
  /\ user[call[c].user].hash = call[c].seen

FailVerification(c) ==
  /\ Does(c, "login", "seen") /\ ~Verified(c)
  /\ RecordFailure(c)
  /\ Finish(c)
  /\ UNCHANGED <<user, session, made, floor, asked>>

LockToSign(c) ==
  /\ Does(c, "login", "seen") /\ Verified(c)
  /\ CanWrite(call[c].user)
  /\ Step(c, [call[c] EXCEPT !.phase = IF StillCurrent(c) THEN "granted" ELSE "refused"])
  /\ UNCHANGED <<user, session, throttle, made, floor, asked>>

FailSigning(c) ==
  /\ Does(c, "login", "refused")
  /\ RecordFailure(c)
  /\ Finish(c)
  /\ UNCHANGED <<user, session, made, floor, asked>>

\* Verification returns a replacement for a hash of dated cost.
NeedsUpgrade(hash) == hash.dated

\* Upgrade, clear the failures, insert the session, commit.
Sign(c) ==
  /\ Does(c, "login", "granted")
  /\ LET u == call[c].user
         upgrade == NeedsUpgrade(call[c].seen)
     IN /\ user' = IF upgrade
                   THEN [user EXCEPT ![u].hash =
                           [pw |-> call[c].seen.pw, n |-> Fresh(u), dated |-> FALSE]]
                   ELSE user
        /\ made' = IF upgrade THEN [made EXCEPT ![u] = Fresh(u)] ELSE made
        /\ session' = session \cup {[user |-> u, n |-> call[c].seen.n]}
  /\ throttle' = [throttle EXCEPT ![Identity(c)] = NoFailures]
  /\ Finish(c)
  /\ UNCHANGED <<floor, asked>>

-------------------------------------------------------------------------------
(* change_own_password. *)

BeginChange(c, u, p, q) ==
  /\ call[c] = Idle /\ asked < MaxAsked
  /\ user[u].active /\ user[u].hash.pw = p
  /\ Step(c, [op |-> "change", phase |-> "seen", user |-> u,
              seen |-> user[u].hash, new |-> q])
  /\ asked' = asked + 1
  /\ UNCHANGED <<user, session, throttle, made, floor>>

\* The password may have been replaced while the new one was hashed.
MayChange(c) == StillCurrent(c)
LockToChange(c) ==
  /\ Does(c, "change", "seen")
  /\ CanWrite(call[c].user)
  /\ Step(c, IF MayChange(c) THEN [call[c] EXCEPT !.phase = "granted"] ELSE Idle)
  /\ UNCHANGED <<user, session, throttle, made, floor, asked>>

Install(c) ==
  LET u == call[c].user
  IN /\ user' = [user EXCEPT ![u].hash =
                   [pw |-> call[c].new, n |-> Fresh(u), dated |-> FALSE]]
     /\ made' = [made EXCEPT ![u] = Fresh(u)]

CommitChange(c) ==
  /\ Does(c, "change", "granted")
  /\ Install(c)
  /\ Finish(c)
  /\ UNCHANGED <<session, throttle, floor, asked>>

-------------------------------------------------------------------------------
(* Account commands of administrators.  _lock_admin_and_target takes both    *)
(* rows in id order; that order is checked in GovernanceTx, here it is one   *)
(* step.                                                                     *)

BeginReset(c, a, u, q) ==
  /\ call[c] = Idle /\ asked < MaxAsked
  /\ user[a].active
  /\ Step(c, [op |-> "reset", phase |-> "seen", by |-> a, user |-> u, new |-> q])
  /\ asked' = asked + 1
  /\ UNCHANGED <<user, session, throttle, made, floor>>

BeginStatus(c, a, u, op) ==
  /\ call[c] = Idle
  /\ user[a].active
  /\ op = "close" => a # u
  /\ Step(c, [op |-> op, phase |-> "seen", by |-> a, user |-> u])
  /\ UNCHANGED <<user, session, throttle, made, floor, asked>>

LockAdminAndTarget(c) ==
  /\ Running(c) /\ call[c].op \in {"reset", "close", "open"} /\ call[c].phase = "seen"
  /\ CanWrite(call[c].user)
  /\ call[c].by # call[c].user => CanShare(call[c].by)
  /\ Step(c, IF user[call[c].by].active THEN [call[c] EXCEPT !.phase = "granted"]
             ELSE Idle)
  /\ UNCHANGED <<user, session, throttle, made, floor, asked>>

CommitReset(c) ==
  /\ Does(c, "reset", "granted")
  /\ Install(c)
  /\ session' = session \ SessionsOf(call[c].user)
  /\ floor' = [floor EXCEPT ![call[c].user] = Fresh(call[c].user)]
  /\ Finish(c)
  /\ UNCHANGED <<throttle, asked>>

CommitStatus(c) ==
  /\ Does(c, "close", "granted") \/ Does(c, "open", "granted")
  /\ user' = [user EXCEPT ![call[c].user].active = call[c].op = "open"]
  /\ session' = IF call[c].op = "close" THEN session \ SessionsOf(call[c].user)
                ELSE session
  /\ Finish(c)
  /\ UNCHANGED <<throttle, made, floor, asked>>

\* revoke_user_sessions locks the administrator only.
RevokeUserSessions(a, u) ==
  /\ user[a].active /\ CanShare(a)
  /\ session' = session \ SessionsOf(u)
  /\ UNCHANGED <<user, throttle, call, made, floor, asked>>

-------------------------------------------------------------------------------
(* Sessions of the caller, expiry and retention. *)

RevokeAllSessions(u) ==
  /\ user[u].active /\ CanShare(u)
  /\ session' = session \ SessionsOf(u)
  /\ UNCHANGED <<user, throttle, call, made, floor, asked>>

\* logout, revoke_session of one's own, or the session expires.
EndSession(s) ==
  /\ session' = session \ {s}
  /\ UNCHANGED <<user, throttle, call, made, floor, asked>>

\* THROTTLE_WINDOW passes.
ExpireWindow(k) ==
  /\ throttle[k].failures > 0 /\ ~throttle[k].lapsed
  /\ throttle' = [throttle EXCEPT ![k].lapsed = TRUE]
  /\ UNCHANGED <<user, session, call, made, floor, asked>>

\* purge_expired_account_records deletes the row of an expired window.
PurgeWindow(k) ==
  /\ throttle[k].lapsed
  /\ throttle' = [throttle EXCEPT ![k] = NoFailures]
  /\ UNCHANGED <<user, session, call, made, floor, asked>>

\* The request is cancelled or its connection is lost.
Lose(c) ==
  /\ Running(c)
  /\ Finish(c)
  /\ UNCHANGED <<user, session, throttle, made, floor, asked>>

-------------------------------------------------------------------------------
Init ==
  /\ user = [u \in Users |-> [active |-> TRUE,
       hash |-> [pw |-> FirstHash[u].pw, n |-> 1, dated |-> FirstHash[u].dated]]]
  /\ session = {}
  /\ throttle = [k \in Identities |-> NoFailures]
  /\ call = [c \in Clients |-> Idle]
  /\ made = [u \in Users |-> 1]
  /\ floor = [u \in Users |-> 0]
  /\ asked = 0

Begin(c) ==
  \/ \E u \in Subjects, p \in Passwords :
       \/ \E at \in Addresses : CheckThrottle(c, u, at, p)
       \/ \E q \in Passwords : BeginChange(c, u, p, q)
  \/ \E a \in Administrators, u \in Users :
       \/ \E q \in Passwords : BeginReset(c, a, u, q)
       \/ \E op \in {"close", "open"} : BeginStatus(c, a, u, op)

TakeLock(c) == LockToSign(c) \/ LockToChange(c) \/ LockAdminAndTarget(c)

Proceed(c) ==
  \/ Capture(c)
  \/ FailVerification(c)
  \/ FailSigning(c)
  \/ Sign(c)
  \/ CommitChange(c)
  \/ CommitReset(c)
  \/ CommitStatus(c)

Environment ==
  \/ \E a \in Administrators, u \in Users : RevokeUserSessions(a, u)
  \/ \E u \in Users : RevokeAllSessions(u)
  \/ \E s \in session : EndSession(s)
  \/ \E k \in Identities : ExpireWindow(k) \/ PurgeWindow(k)

Next ==
  \/ \E c \in Clients : Begin(c) \/ TakeLock(c) \/ Proceed(c) \/ Lose(c)
  \/ Environment

Spec == Init /\ [][Next]_vars

\* Steps that wait for nobody are taken; a row lock is granted from a queue,
\* so a call that can have it again and again gets it.
Answers == \A c \in Clients : WF_vars(Proceed(c)) /\ SF_vars(TakeLock(c))

-------------------------------------------------------------------------------
(* Safety. *)

\* A deactivated User has no login session, whatever login was waiting for the
\* User row when the deactivation committed (concurrency case
\* "login-revocation": signing before revocation is removed).
InactiveHasNoSession == \A s \in session : user[s.user].active

\* No session rests on a hash that an administrator's reset replaced: an
\* obsolete credential snapshot cannot sign, however late its verification ends.
NoObsoleteSession == \A s \in session : s.n >= floor[s.user]

\* Checking the throttle and counting the failure are different transactions,
\* so attempts in flight overshoot the limit, each at most once.
ThrottleBound == \A k \in Identities :
  throttle[k].failures < Limit + Cardinality(Clients)

\* Sessions rest on current credentials of active Users, and guessing is bounded:
\* the three above.
SessionsSound == InactiveHasNoSession /\ NoObsoleteSession /\ ThrottleBound

(* Action properties. *)

\* A counted failure in a running window is only ever forgotten by a login that
\* signs for the same identity: the cleanup of an expired window cannot delete
\* a window that was opened again meanwhile.
WindowHolds == [][\A k \in Identities :
  /\ throttle[k].failures > 0 /\ ~throttle[k].lapsed
  /\ throttle'[k].failures < throttle[k].failures
  => \E c \in Clients : Does(c, "login", "granted") /\ Identity(c) = k
                        /\ call[c]' = Idle]_vars

\* The password of a User moves only by a reset or by a change whose caller
\* proved the password that is stored at that moment; the opportunistic
\* upgrade of a concurrent login never brings an older one back.
PasswordMoves == [][\A u \in Users :
  user[u]'.hash.pw # user[u].hash.pw =>
    \E c \in Clients :
      /\ Writes(c, u) /\ call[c]' = Idle
      /\ \/ call[c].op = "reset"
         \/ call[c].op = "change" /\ call[c].seen = user[u].hash]_vars

\* What a login leaves behind is not undone behind its back: the two above.
CredentialsStand == WindowHolds /\ PasswordMoves

(* Liveness. *)

\* Every login ends with an answer: no wait for the User row lasts forever and
\* none is retried.
EveryLoginEnds == \A c \in Clients :
  (Running(c) /\ call[c].op = "login") ~> (call[c] = Idle)
===============================================================================
