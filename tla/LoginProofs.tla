------------------------------ MODULE LoginProofs ------------------------------
(***************************************************************************)
(* Theorems about Login and Registration, for any Users, administrators,   *)
(* clients, limit, and number of resets, changes and invitations.          *)
(***************************************************************************)
EXTENDS Accounts, FiniteSetTheorems, TLAPS

Calls == {Idle} \cup LoginCalls \cup ChangeCalls \cup ResetCalls \cup StatusCalls
USE SubjectsAssumption, AdministratorsAssumption, LimitAssumption

-------------------------------------------------------------------------------
(* Types.                                                                   *)

\* A call's operation tells what kind of record it is.
LEMMA KindsOfCalls ==
  ASSUME TypeOK, NEW c \in Clients
  PROVE  /\ call[c] \in Calls
         /\ ~Running(c) => call[c] = Idle
         /\ Running(c) => /\ call[c].user \in Users
                          /\ call[c].op = "login" => call[c] \in LoginCalls
                          /\ call[c].op = "change" => call[c] \in ChangeCalls
                          /\ call[c].op = "reset" => call[c] \in ResetCalls
                          /\ call[c].op \in {"close", "open"} => call[c] \in StatusCalls
<1>1. call[c] \in Calls
  BY DEF TypeOK, Calls
<1>2. CASE call[c] = Idle
  BY <1>1, <1>2 DEF Running, Idle
<1>3. CASE call[c] \in LoginCalls
  BY <1>1, <1>3 DEF Running, LoginCalls
<1>4. CASE call[c] \in ChangeCalls
  BY <1>1, <1>4 DEF Running, ChangeCalls
<1>5. CASE call[c] \in ResetCalls
  BY <1>1, <1>5 DEF Running, ResetCalls
<1>6. CASE call[c] \in StatusCalls
  BY <1>1, <1>6 DEF Running, StatusCalls
<1> QED BY <1>1, <1>2, <1>3, <1>4, <1>5, <1>6 DEF Calls

LEMMA StepKeepsTypes ==
  ASSUME TypeOK, NEW c \in Clients, NEW next \in Calls, Step(c, next)
  PROVE  /\ call' \in [Clients -> Calls]
         /\ call'[c] = next
         /\ \A d \in Clients \ {c} : call'[d] = call[d]
BY DEF TypeOK, Calls, Step

LEMMA IdleIsCall == Idle \in Calls
BY DEF Calls

LEMMA HashTypes ==
  ASSUME TypeOK, NEW u \in Users
  PROVE  /\ user[u].hash \in Hashes /\ user[u].active \in BOOLEAN
         /\ made[u] \in Nat /\ Fresh(u) \in Nat /\ floor[u] \in Nat
         /\ Fresh(u) = made[u] + 1
BY DEF TypeOK, UserRows, Serials, Fresh

LEMMA ThrottleTypes ==
  ASSUME TypeOK, NEW k \in Identities
  PROVE  /\ throttle[k] \in ThrottleRows
         /\ Counted(throttle[k]) \in ThrottleRows
         /\ NoFailures \in ThrottleRows
         /\ [throttle[k] EXCEPT !.lapsed = TRUE] \in ThrottleRows
<1>1. throttle[k] \in ThrottleRows
  BY DEF TypeOK
<1>2. Counted(throttle[k]) \in ThrottleRows
  <2>1. throttle[k].failures + 1 \in Nat
    BY <1>1 DEF ThrottleRows
  <2>2. (IF throttle[k].lapsed THEN 1 ELSE throttle[k].failures + 1) \in Nat
    BY <2>1
  <2> QED BY <2>2 DEF ThrottleRows, Counted
<1>3. NoFailures \in ThrottleRows
  BY DEF ThrottleRows, NoFailures
<1>4. [throttle[k] EXCEPT !.lapsed = TRUE] \in ThrottleRows
  BY <1>1 DEF ThrottleRows
<1> QED BY <1>1, <1>2, <1>3, <1>4

LEMMA IdentityTypes ==
  ASSUME TypeOK, NEW c \in Clients, Running(c), call[c].op = "login"
  PROVE  Identity(c) \in Identities
BY KindsOfCalls DEF LoginCalls, Identity, Identities

LEMMA InitTypes == Init => TypeOK
<1> SUFFICES ASSUME Init PROVE TypeOK OBVIOUS
<1>1. user \in [Users -> UserRows]
  BY FirstHashAssumption DEF Init, UserRows, Hashes, Serials
<1>2. throttle \in [Identities -> ThrottleRows]
  BY DEF Init, ThrottleRows, NoFailures
<1> QED BY <1>1, <1>2 DEF Init, TypeOK, Serials

LEMMA BeginTypes ==
  ASSUME TypeOK, NEW c \in Clients, Begin(c) PROVE TypeOK'
<1>1. ASSUME NEW u \in Subjects, NEW p \in Passwords, NEW at \in Addresses, CheckThrottle(c, u, at, p)
      PROVE  TypeOK'
  <2>1. [op |-> "login", phase |-> "checked", user |-> u, at |-> at, pw |-> p,
         seen |-> NoHash, stale |-> throttle[<<at, u>>].lapsed] \in Calls
    <3>1. <<at, u>> \in Identities
      BY DEF Identities
    <3>2. throttle[<<at, u>>].lapsed \in BOOLEAN
      BY <3>1, ThrottleTypes DEF ThrottleRows
    <3> QED BY <3>2 DEF Calls, LoginCalls
  <2> QED BY <1>1, <2>1, StepKeepsTypes DEF CheckThrottle, TypeOK, Calls
<1>2. ASSUME NEW u \in Subjects, NEW p \in Passwords, NEW q \in Passwords, BeginChange(c, u, p, q)
      PROVE  TypeOK'
  <2>1. [op |-> "change", phase |-> "seen", user |-> u, seen |-> user[u].hash, new |-> q] \in Calls
    BY HashTypes DEF Calls, ChangeCalls
  <2> QED BY <1>2, <2>1, StepKeepsTypes DEF BeginChange, TypeOK, Calls
<1>3. ASSUME NEW a \in Administrators, NEW u \in Users, NEW q \in Passwords, BeginReset(c, a, u, q)
      PROVE  TypeOK'
  <2>1. [op |-> "reset", phase |-> "seen", by |-> a, user |-> u, new |-> q] \in Calls
    BY DEF Calls, ResetCalls
  <2> QED BY <1>3, <2>1, StepKeepsTypes DEF BeginReset, TypeOK, Calls
<1>4. ASSUME NEW a \in Administrators, NEW u \in Users, NEW op \in {"close", "open"}, BeginStatus(c, a, u, op)
      PROVE  TypeOK'
  <2>1. [op |-> op, phase |-> "seen", by |-> a, user |-> u] \in Calls
    BY DEF Calls, StatusCalls
  <2> QED BY <1>4, <2>1, StepKeepsTypes DEF BeginStatus, TypeOK, Calls
<1> QED BY <1>1, <1>2, <1>3, <1>4 DEF Begin

LEMMA LockTypes ==
  ASSUME TypeOK, NEW c \in Clients, TakeLock(c) PROVE TypeOK'
<1>1. CASE LockToSign(c)
  <2>1. [call[c] EXCEPT !.phase = IF StillCurrent(c) THEN "granted" ELSE "refused"] \in Calls
    BY <1>1, KindsOfCalls DEF LockToSign, Does, LoginCalls, Calls
  <2> QED BY <1>1, <2>1, StepKeepsTypes DEF LockToSign, TypeOK, Calls
<1>2. CASE LockToChange(c)
  <2>1. [call[c] EXCEPT !.phase = "granted"] \in Calls
    BY <1>2, KindsOfCalls DEF LockToChange, Does, ChangeCalls, Calls
  <2> QED BY <1>2, <2>1, IdleIsCall, StepKeepsTypes DEF LockToChange, TypeOK, Calls
<1>3. CASE LockAdminAndTarget(c)
  <2>1. [call[c] EXCEPT !.phase = "granted"] \in Calls
    BY <1>3, KindsOfCalls DEF LockAdminAndTarget, ResetCalls, StatusCalls, Calls
  <2> QED BY <1>3, <2>1, IdleIsCall, StepKeepsTypes DEF LockAdminAndTarget, TypeOK, Calls
<1> QED BY <1>1, <1>2, <1>3 DEF TakeLock

LEMMA InstallTypes ==
  ASSUME TypeOK, NEW c \in Clients, Running(c), call[c].op \in {"change", "reset"}, Install(c)
  PROVE  user' \in [Users -> UserRows] /\ made' \in [Users -> Serials]
<1>1. call[c].user \in Users /\ call[c].new \in Passwords
  BY KindsOfCalls DEF ChangeCalls, ResetCalls
<1>2. [pw |-> call[c].new, n |-> Fresh(call[c].user), dated |-> FALSE] \in Hashes
  BY <1>1, HashTypes DEF Hashes, Serials
<1>3. user' \in [Users -> UserRows]
  BY <1>1, <1>2 DEF Install, TypeOK, UserRows
<1>4. made' \in [Users -> Serials]
  BY <1>1, HashTypes DEF Install, TypeOK, Serials
<1> QED BY <1>3, <1>4

\* The commit of a call ends it.
LEMMA CommitTypes ==
  ASSUME TypeOK, NEW c \in Clients, Finish(c),
         user' \in [Users -> UserRows], session' \in SUBSET Sessions,
         throttle' \in [Identities -> ThrottleRows], made' \in [Users -> Serials],
         floor' \in [Users -> Serials], asked' = asked
  PROVE  TypeOK'
<1>1. call' \in [Clients -> Calls]
  BY IdleIsCall, StepKeepsTypes DEF Finish
<1> QED BY <1>1 DEF TypeOK, Calls

LEMMA ProceedTypes ==
  ASSUME TypeOK, NEW c \in Clients, Proceed(c) PROVE TypeOK'
<1>1. CASE Capture(c)
  <2>1. call[c] \in LoginCalls /\ Identity(c) \in Identities
    BY <1>1, KindsOfCalls, IdentityTypes DEF Capture, Does
  <2>2. user[call[c].user].hash \in Hashes
    BY <2>1, HashTypes DEF LoginCalls
  <2>3. [call[c] EXCEPT !.phase = "seen",
           !.seen = IF user[call[c].user].active THEN user[call[c].user].hash ELSE NoHash] \in Calls
    BY <2>1, <2>2 DEF LoginCalls, Calls
  <2>4. RetiredWindow(c) \in ThrottleRows
    BY <2>1, ThrottleTypes DEF RetiredWindow
  <2> QED BY <1>1, <2>1, <2>3, <2>4, StepKeepsTypes DEF Capture, TypeOK, Calls
<1>2. ASSUME FailVerification(c) \/ FailSigning(c) PROVE TypeOK'
  <2>1. Identity(c) \in Identities
    BY <1>2, IdentityTypes DEF FailVerification, FailSigning, Does
  <2> QED BY <1>2, <2>1, ThrottleTypes, IdleIsCall, StepKeepsTypes
      DEF FailVerification, FailSigning, RecordFailure, Finish, TypeOK, Calls
<1>3. CASE Sign(c)
  <2>1. call[c] \in LoginCalls /\ Identity(c) \in Identities /\ call[c].user \in Users
    BY <1>3, KindsOfCalls, IdentityTypes DEF Sign, Does
  <2> DEFINE u == call[c].user
             seen == call[c].seen
             new == [pw |-> seen.pw, n |-> Fresh(u), dated |-> FALSE]
  <2>2. seen.n \in Serials /\ (NeedsUpgrade(seen) => seen.pw \in Passwords)
    <3>1. CASE seen = NoHash
      BY <3>1 DEF NoHash, Serials, NeedsUpgrade
    <3>2. CASE seen \in Hashes
      BY <3>2 DEF Hashes
    <3> QED BY <2>1, <3>1, <3>2 DEF LoginCalls
  <2>3. session' \in SUBSET Sessions
    BY <1>3, <2>1, <2>2 DEF Sign, TypeOK, Sessions
  <2>4. user' \in [Users -> UserRows] /\ made' \in [Users -> Serials]
    <3>1. CASE NeedsUpgrade(seen)
      <4>1. new \in Hashes
        BY <2>1, <2>2, <3>1, HashTypes DEF Hashes, Serials
      <4>2. user' = [user EXCEPT ![u].hash = new] /\ made' = [made EXCEPT ![u] = Fresh(u)]
        BY <1>3, <3>1 DEF Sign
      <4> HIDE DEF new, u
      <4>3. [user[u] EXCEPT !.hash = new] \in UserRows
        BY <2>1, <4>1 DEF u, TypeOK, UserRows
      <4>4. user' = [user EXCEPT ![u] = [user[u] EXCEPT !.hash = new]]
        BY <4>2
      <4>5. user' \in [Users -> UserRows]
        BY <4>3, <4>4 DEF TypeOK
      <4>6. made' \in [Users -> Serials]
        BY <2>1, <4>2, HashTypes DEF u, TypeOK, Serials
      <4> QED BY <4>5, <4>6
    <3>2. CASE ~NeedsUpgrade(seen)
      BY <1>3, <3>2 DEF Sign, TypeOK
    <3> QED BY <3>1, <3>2
  <2>5. throttle' \in [Identities -> ThrottleRows]
    BY <1>3, <2>1, ThrottleTypes DEF Sign, TypeOK
  <2>6. UNCHANGED <<floor, asked>> /\ Finish(c)
    BY <1>3 DEF Sign
  <2>7. floor' \in [Users -> Serials]
    BY <2>6 DEF TypeOK
  <2> QED BY <2>3, <2>4, <2>5, <2>6, <2>7, CommitTypes
<1>4. CASE CommitChange(c)
  <2>1. user' \in [Users -> UserRows] /\ made' \in [Users -> Serials]
    BY <1>4, InstallTypes DEF CommitChange, Does
  <2>2. UNCHANGED <<session, throttle, floor, asked>> /\ Finish(c)
    BY <1>4 DEF CommitChange
  <2>3. /\ session' \in SUBSET Sessions /\ throttle' \in [Identities -> ThrottleRows]
        /\ floor' \in [Users -> Serials]
    BY <2>2 DEF TypeOK
  <2> QED BY <2>1, <2>2, <2>3, CommitTypes
<1>5. CASE CommitReset(c)
  <2>1. call[c].user \in Users
    BY <1>5, KindsOfCalls DEF CommitReset, Does
  <2>2. user' \in [Users -> UserRows] /\ made' \in [Users -> Serials]
    BY <1>5, InstallTypes DEF CommitReset, Does
  <2>3. session' \in SUBSET Sessions /\ throttle' = throttle /\ asked' = asked /\ Finish(c)
    BY <1>5 DEF CommitReset, TypeOK
  <2>4. floor' \in [Users -> Serials]
    BY <1>5, <2>1, HashTypes DEF CommitReset, TypeOK, Serials
  <2>5. throttle' \in [Identities -> ThrottleRows]
    BY <2>3 DEF TypeOK
  <2> QED BY <2>2, <2>3, <2>4, <2>5, CommitTypes
<1>6. CASE CommitStatus(c)
  <2>1. call[c].user \in Users
    BY <1>6, KindsOfCalls DEF CommitStatus, Does
  <2>2. user' \in [Users -> UserRows]
    <3> DEFINE u == call[c].user
               opens == call[c].op = "open"
    <3>1. user' = [user EXCEPT ![u] = [user[u] EXCEPT !.active = opens]]
      BY <1>6 DEF CommitStatus
    <3>2. opens \in BOOLEAN /\ u \in Users /\ user[u] \in UserRows
      BY <2>1 DEF TypeOK
    <3> HIDE DEF u, opens
    <3>3. [user[u] EXCEPT !.active = opens] \in UserRows
      BY <3>2 DEF UserRows
    <3> QED BY <3>1, <3>2, <3>3 DEF TypeOK
  <2>3. session' \in SUBSET Sessions
    BY <1>6 DEF CommitStatus, TypeOK
  <2>4. UNCHANGED <<throttle, made, floor, asked>> /\ Finish(c)
    BY <1>6 DEF CommitStatus
  <2>5. /\ throttle' \in [Identities -> ThrottleRows]
        /\ made' \in [Users -> Serials] /\ floor' \in [Users -> Serials]
    BY <2>4 DEF TypeOK
  <2> QED BY <2>2, <2>3, <2>4, <2>5, CommitTypes
<1> QED BY <1>1, <1>2, <1>3, <1>4, <1>5, <1>6 DEF Proceed

LEMMA EnvironmentTypes ==
  ASSUME TypeOK, Environment PROVE TypeOK'
<1>1. ASSUME session' \subseteq session, UNCHANGED <<user, throttle, call, made, floor, asked>>
      PROVE  TypeOK'
  BY <1>1 DEF TypeOK
<1>2. ASSUME NEW k \in Identities, ExpireWindow(k) \/ PurgeWindow(k) PROVE TypeOK'
  BY <1>2, ThrottleTypes DEF ExpireWindow, PurgeWindow, TypeOK
<1> QED BY <1>1, <1>2 DEF Environment, RevokeUserSessions, RevokeAllSessions, EndSession

LEMMA LoseTypes ==
  ASSUME TypeOK, NEW c \in Clients, Lose(c) PROVE TypeOK'
BY IdleIsCall, StepKeepsTypes DEF Lose, Finish, TypeOK, Calls

LEMMA NextTypes == TypeOK /\ [Next]_vars => TypeOK'
<1> SUFFICES ASSUME TypeOK, [Next]_vars PROVE TypeOK' OBVIOUS
<1>1. ASSUME NEW c \in Clients, Begin(c) \/ TakeLock(c) \/ Proceed(c) \/ Lose(c) PROVE TypeOK'
  BY <1>1, BeginTypes, LockTypes, ProceedTypes, LoseTypes
<1>2. CASE Environment
  BY <1>2, EnvironmentTypes
<1>3. CASE UNCHANGED vars
  BY <1>3 DEF vars, TypeOK
<1> QED BY <1>1, <1>2, <1>3 DEF Next

\* Accounts, sessions, throttle rows and requests keep their types.
THEOREM TypeCorrect == Spec => []TypeOK
BY InitTypes, NextTypes, PTL DEF Spec

-------------------------------------------------------------------------------
(* Sessions.                                                                *)

\* Whoever holds a User row for writing holds it alone.
Exclusive == \A c, d \in Clients : \A u \in Users :
  c # d /\ Writes(c, u) => ~Writes(d, u) /\ ~Shares(d, u)

\* What a request has read under its lock stands until it commits.
GrantedIsCurrent == \A c \in Clients :
  Does(c, "login", "granted") \/ Does(c, "change", "granted") => StillCurrent(c)

\* Serials only grow, and a reset's is that of the hash it installed.
SerialsGrow == \A u \in Users : floor[u] <= user[u].hash.n /\ user[u].hash.n <= made[u]

SessionsInv ==
  /\ Exclusive /\ GrantedIsCurrent /\ SerialsGrow
  /\ InactiveHasNoSession /\ NoObsoleteSession

\* A request that holds no lock, or held one that it gives up, excludes nobody new.
LEMMA ReleaseKeepsExclusive ==
  ASSUME TypeOK, Exclusive, NEW c \in Clients, NEW next \in Calls, Step(c, next),
         next.phase \notin {"granted", "refused"}
  PROVE  Exclusive'
<1>1. /\ call'[c] = next
      /\ \A d \in Clients \ {c} : call'[d] = call[d]
  BY StepKeepsTypes
<1>2. \A d \in Clients, u \in Users : Writes(d, u)' => d # c /\ Writes(d, u)
  BY <1>1 DEF Writes, Holding
<1>3. \A d \in Clients, u \in Users : Shares(d, u)' => d # c /\ Shares(d, u)
  BY <1>1 DEF Shares, Holding
<1> QED BY <1>2, <1>3 DEF Exclusive

\* A lock is granted where nobody holds a conflicting one.
LEMMA GrantKeepsExclusive ==
  ASSUME TypeOK, Exclusive, NEW c \in Clients, NEW next \in Calls, Step(c, next),
         Running(c), next.user = call[c].user, CanWrite(call[c].user),
         next.op \in {"login", "change"} \/ next.by = call[c].user \/ CanShare(next.by)
  PROVE  Exclusive'
<1>1. /\ call'[c] = next
      /\ \A d \in Clients \ {c} : call'[d] = call[d]
  BY StepKeepsTypes
<1>2. \A d \in Clients \ {c}, u \in Users :
        (Writes(d, u)' <=> Writes(d, u)) /\ (Shares(d, u)' <=> Shares(d, u))
  BY <1>1 DEF Writes, Shares, Holding
<1>3. \A u \in Users : Writes(c, u)' => u = call[c].user
  BY <1>1 DEF Writes
<1>4. \A u \in Users : Shares(c, u)' => u # call[c].user /\ u = next.by /\ CanShare(u)
  BY <1>1 DEF Shares
<1>5. ASSUME NEW d \in Clients, NEW e \in Clients, NEW u \in Users, d # e, Writes(d, u)'
      PROVE  ~Writes(e, u)' /\ ~Shares(e, u)'
  <2>1. CASE d = c
    BY <1>2, <1>3, <1>5, <2>1 DEF CanWrite
  <2>2. CASE e = c
    BY <1>2, <1>3, <1>4, <1>5, <2>2 DEF CanWrite, CanShare
  <2>3. CASE d # c /\ e # c
    BY <1>2, <1>5, <2>3 DEF Exclusive
  <2> QED BY <2>1, <2>2, <2>3
<1> QED BY <1>5 DEF Exclusive

\* Nobody else's User row is written by a commit.
LEMMA CommitKeepsCurrent ==
  ASSUME TypeOK, Exclusive, GrantedIsCurrent, NEW c \in Clients, Finish(c), Holding(c),
         call[c].user \in Users,
         \A u \in Users \ {call[c].user} : user'[u] = user[u]
  PROVE  GrantedIsCurrent'
<1>1. /\ call'[c] = Idle
      /\ \A d \in Clients \ {c} : call'[d] = call[d]
  BY IdleIsCall, StepKeepsTypes DEF Finish
<1>2. ASSUME NEW d \in Clients, Does(d, "login", "granted")' \/ Does(d, "change", "granted")'
      PROVE  StillCurrent(d)'
  <2>1. d # c /\ (Does(d, "login", "granted") \/ Does(d, "change", "granted"))
    BY <1>1, <1>2 DEF Does, Running, Idle
  <2>2. call[d].user \in Users /\ Writes(d, call[d].user) /\ Writes(c, call[c].user)
    BY <2>1, KindsOfCalls DEF Does, Writes, Holding
  <2>3. call[d].user # call[c].user
    BY <2>1, <2>2 DEF Exclusive
  <2> QED BY <1>1, <2>1, <2>2, <2>3 DEF GrantedIsCurrent, StillCurrent
<1> QED BY <1>2 DEF GrantedIsCurrent

\* A step that writes no User row and grants no login or change.
LEMMA QuietKeepsCurrent ==
  ASSUME TypeOK, GrantedIsCurrent, NEW c \in Clients, NEW next \in Calls, Step(c, next),
         next.phase = "granted" => next.op \notin {"login", "change"},
         user' = user
  PROVE  GrantedIsCurrent'
<1>1. /\ call'[c] = next
      /\ \A d \in Clients \ {c} : call'[d] = call[d]
  BY StepKeepsTypes
<1> QED BY <1>1 DEF GrantedIsCurrent, Does, Running, StillCurrent

\* What a grant has just read is current.
LEMMA GrantKeepsCurrent ==
  ASSUME TypeOK, GrantedIsCurrent, NEW c \in Clients, NEW next \in Calls, Step(c, next),
         next.user = call[c].user, next.seen = call[c].seen,
         next.phase = "granted" => StillCurrent(c),
         user' = user
  PROVE  GrantedIsCurrent'
<1>1. /\ call'[c] = next
      /\ \A d \in Clients \ {c} : call'[d] = call[d]
  BY StepKeepsTypes
<1>2. ASSUME NEW d \in Clients, Does(d, "login", "granted")' \/ Does(d, "change", "granted")'
      PROVE  StillCurrent(d)'
  <2>1. CASE d = c
    BY <1>1, <1>2, <2>1 DEF Does, StillCurrent
  <2>2. CASE d # c
    BY <1>1, <1>2, <2>2 DEF GrantedIsCurrent, Does, Running, StillCurrent
  <2> QED BY <2>1, <2>2
<1> QED BY <1>2 DEF GrantedIsCurrent

\* Ending sessions, and steps that touch neither accounts nor sessions.
LEMMA FewerSessions ==
  ASSUME SerialsGrow, InactiveHasNoSession, NoObsoleteSession,
         session' \subseteq session, UNCHANGED <<user, made, floor>>
  PROVE  SerialsGrow' /\ InactiveHasNoSession' /\ NoObsoleteSession'
BY DEF SerialsGrow, InactiveHasNoSession, NoObsoleteSession

LEMMA BeginKeepsSessions ==
  ASSUME TypeOK, SessionsInv, NEW c \in Clients, Begin(c) PROVE SessionsInv'
<1>1. PICK next \in Calls : next.phase \in {"checked", "seen"} /\ Step(c, next)
  <2>1. call'[c] \in Calls /\ call' = [call EXCEPT ![c] = call'[c]]
    BY BeginTypes, KindsOfCalls DEF Begin, CheckThrottle, BeginChange, BeginReset, BeginStatus,
       Step, TypeOK, Calls
  <2>2. call'[c].phase \in {"checked", "seen"}
    <3>1. ASSUME NEW u, NEW p, NEW at, CheckThrottle(c, u, at, p) PROVE call'[c].phase \in {"checked", "seen"}
      BY <3>1 DEF CheckThrottle, Step, TypeOK
    <3>2. ASSUME NEW u, NEW p, NEW q, BeginChange(c, u, p, q) PROVE call'[c].phase \in {"checked", "seen"}
      BY <3>2 DEF BeginChange, Step, TypeOK
    <3>3. ASSUME NEW a, NEW u, NEW q, BeginReset(c, a, u, q) PROVE call'[c].phase \in {"checked", "seen"}
      BY <3>3 DEF BeginReset, Step, TypeOK
    <3>4. ASSUME NEW a, NEW u, NEW op, BeginStatus(c, a, u, op) PROVE call'[c].phase \in {"checked", "seen"}
      BY <3>4 DEF BeginStatus, Step, TypeOK
    <3> QED BY <3>1, <3>2, <3>3, <3>4 DEF Begin
  <2> QED BY <2>1, <2>2 DEF Step
<1>2. UNCHANGED <<user, session, made, floor>>
  BY DEF Begin, CheckThrottle, BeginChange, BeginReset, BeginStatus
<1> QED
  BY <1>1, <1>2, ReleaseKeepsExclusive, QuietKeepsCurrent, FewerSessions DEF SessionsInv

LEMMA LockKeepsSessions ==
  ASSUME TypeOK, SessionsInv, NEW c \in Clients, TakeLock(c) PROVE SessionsInv'
<1>1. UNCHANGED <<user, session, made, floor>>
  BY DEF TakeLock, LockToSign, LockToChange, LockAdminAndTarget
<1>2. CASE LockToSign(c)
  <2> DEFINE next == [call[c] EXCEPT !.phase = IF StillCurrent(c) THEN "granted" ELSE "refused"]
  <2>1. call[c] \in LoginCalls
    BY <1>2, KindsOfCalls DEF LockToSign, Does
  <2>2. /\ next \in Calls /\ next.user = call[c].user /\ next.op = "login"
        /\ next.seen = call[c].seen
        /\ next.phase = "granted" => StillCurrent(c)
    BY <2>1 DEF LoginCalls, Calls
  <2>3. Step(c, next) /\ Running(c) /\ CanWrite(call[c].user)
    BY <1>2 DEF LockToSign, Does
  <2>4. Exclusive'
    BY <2>2, <2>3, GrantKeepsExclusive DEF SessionsInv
  <2>5. GrantedIsCurrent'
    BY <1>1, <2>2, <2>3, GrantKeepsCurrent DEF SessionsInv
  <2> QED BY <1>1, <2>4, <2>5, FewerSessions DEF SessionsInv
<1>3. CASE LockToChange(c) /\ MayChange(c)
  <2> DEFINE next == [call[c] EXCEPT !.phase = "granted"]
  <2>1. call[c] \in ChangeCalls
    BY <1>3, KindsOfCalls DEF LockToChange, Does
  <2>2. /\ next \in Calls /\ next.user = call[c].user /\ next.op = "change"
        /\ next.seen = call[c].seen
    BY <2>1 DEF ChangeCalls, Calls
  <2>3. Step(c, next) /\ Running(c) /\ CanWrite(call[c].user) /\ StillCurrent(c)
    BY <1>3 DEF LockToChange, Does, MayChange
  <2>4. Exclusive'
    BY <2>2, <2>3, GrantKeepsExclusive DEF SessionsInv
  <2>5. GrantedIsCurrent'
    BY <1>1, <2>2, <2>3, GrantKeepsCurrent DEF SessionsInv
  <2> QED BY <1>1, <2>4, <2>5, FewerSessions DEF SessionsInv
<1>4. CASE LockAdminAndTarget(c) /\ user[call[c].by].active
  <2> DEFINE next == [call[c] EXCEPT !.phase = "granted"]
  <2>1. call[c] \in ResetCalls \cup StatusCalls
    BY <1>4, KindsOfCalls DEF LockAdminAndTarget
  <2>2. /\ next \in Calls /\ next.user = call[c].user /\ next.op \notin {"login", "change"}
        /\ next.by = call[c].by
    BY <2>1 DEF ResetCalls, StatusCalls, Calls
  <2>3. /\ Step(c, next) /\ Running(c) /\ CanWrite(call[c].user)
        /\ call[c].by = call[c].user \/ CanShare(call[c].by)
    BY <1>4 DEF LockAdminAndTarget
  <2> QED BY <1>1, <2>2, <2>3, GrantKeepsExclusive, QuietKeepsCurrent, FewerSessions
      DEF SessionsInv
<1>5. CASE Step(c, Idle)
  BY <1>1, <1>5, IdleIsCall, ReleaseKeepsExclusive, QuietKeepsCurrent, FewerSessions
  DEF SessionsInv, Idle
<1> QED BY <1>2, <1>3, <1>4, <1>5 DEF TakeLock, LockToChange, LockAdminAndTarget

LEMMA SignKeepsSessions ==
  ASSUME TypeOK, SessionsInv, NEW c \in Clients, Sign(c) PROVE SessionsInv'
<1> DEFINE u == call[c].user
           seen == call[c].seen
<1>1. /\ u \in Users /\ Finish(c) /\ Holding(c)
  BY KindsOfCalls DEF Sign, Does, Holding
<1>2. user[u].active /\ user[u].hash = seen
  BY DEF Sign, SessionsInv, GrantedIsCurrent, StillCurrent
<1>3. /\ \A v \in Users \ {u} : user'[v] = user[v] /\ made'[v] = made[v]
      /\ user'[u].active = user[u].active
      /\ floor' = floor
  BY <1>1 DEF Sign, TypeOK, UserRows
<1>4. \/ user'[u].hash.n = Fresh(u) /\ made'[u] = Fresh(u)
      \/ user'[u] = user[u] /\ made'[u] = made[u]
  BY <1>1 DEF Sign, TypeOK, UserRows
<1>5. Exclusive'
  BY <1>1, IdleIsCall, ReleaseKeepsExclusive DEF SessionsInv, Finish, Idle
<1>6. GrantedIsCurrent'
  BY <1>1, <1>3, CommitKeepsCurrent DEF SessionsInv
<1>7. SerialsGrow'
  BY <1>1, <1>3, <1>4, HashTypes DEF SessionsInv, SerialsGrow, Hashes, Serials
<1>8. \A s \in session' : s \in session \/ (s.user = u /\ s.n = user[u].hash.n)
  BY <1>2 DEF Sign
<1>9. InactiveHasNoSession'
  BY <1>2, <1>3, <1>8 DEF SessionsInv, InactiveHasNoSession, TypeOK, Sessions
<1>10. NoObsoleteSession'
  BY <1>1, <1>3, <1>8 DEF SessionsInv, NoObsoleteSession, SerialsGrow
<1> QED BY <1>5, <1>6, <1>7, <1>9, <1>10 DEF SessionsInv

LEMMA InstallRows ==
  ASSUME TypeOK, NEW c \in Clients, Install(c), call[c].user \in Users
  PROVE  /\ \A v \in Users \ {call[c].user} : user'[v] = user[v] /\ made'[v] = made[v]
         /\ user'[call[c].user].active = user[call[c].user].active
         /\ user'[call[c].user].hash.n = Fresh(call[c].user)
         /\ made'[call[c].user] = Fresh(call[c].user)
BY DEF Install, TypeOK, UserRows

LEMMA ChangeKeepsSessions ==
  ASSUME TypeOK, SessionsInv, NEW c \in Clients, CommitChange(c) PROVE SessionsInv'
<1> DEFINE u == call[c].user
<1>1. u \in Users /\ Finish(c) /\ Holding(c) /\ Install(c) /\ UNCHANGED <<session, floor>>
  BY KindsOfCalls DEF CommitChange, Does, Holding
<1>2. Exclusive'
  BY <1>1, IdleIsCall, ReleaseKeepsExclusive DEF SessionsInv, Finish, Idle
<1>3. GrantedIsCurrent'
  BY <1>1, InstallRows, CommitKeepsCurrent DEF SessionsInv
<1>4. SerialsGrow'
  BY <1>1, InstallRows, HashTypes DEF SessionsInv, SerialsGrow, Hashes, Serials
<1>5. InactiveHasNoSession' /\ NoObsoleteSession'
  BY <1>1, InstallRows DEF SessionsInv, InactiveHasNoSession, NoObsoleteSession, TypeOK, Sessions
<1> QED BY <1>2, <1>3, <1>4, <1>5 DEF SessionsInv

LEMMA ResetKeepsSessions ==
  ASSUME TypeOK, SessionsInv, NEW c \in Clients, CommitReset(c) PROVE SessionsInv'
<1> DEFINE u == call[c].user
<1>1. /\ u \in Users /\ Finish(c) /\ Holding(c) /\ Install(c)
      /\ session' = session \ SessionsOf(u)
  BY KindsOfCalls DEF CommitReset, Does, Holding
<1>2. floor'[u] = Fresh(u) /\ \A v \in Users \ {u} : floor'[v] = floor[v]
  BY <1>1 DEF CommitReset, TypeOK
<1>3. Exclusive'
  BY <1>1, IdleIsCall, ReleaseKeepsExclusive DEF SessionsInv, Finish, Idle
<1>4. GrantedIsCurrent'
  BY <1>1, InstallRows, CommitKeepsCurrent DEF SessionsInv
<1>5. SerialsGrow'
  BY <1>1, <1>2, InstallRows, HashTypes DEF SessionsInv, SerialsGrow, Hashes, Serials
<1>6. \A s \in session' : s \in session /\ s.user \in Users \ {u}
  BY <1>1 DEF SessionsOf, TypeOK, Sessions
<1>7. InactiveHasNoSession' /\ NoObsoleteSession'
  BY <1>1, <1>2, <1>6, InstallRows DEF SessionsInv, InactiveHasNoSession, NoObsoleteSession
<1> QED BY <1>3, <1>4, <1>5, <1>7 DEF SessionsInv

LEMMA StatusKeepsSessions ==
  ASSUME TypeOK, SessionsInv, NEW c \in Clients, CommitStatus(c) PROVE SessionsInv'
<1> DEFINE u == call[c].user
           opens == call[c].op = "open"
<1>1. u \in Users /\ Finish(c) /\ Holding(c) /\ UNCHANGED <<made, floor>>
  BY KindsOfCalls DEF CommitStatus, Does, Holding
<1>2. /\ \A v \in Users \ {u} : user'[v] = user[v]
      /\ user'[u].hash = user[u].hash /\ (user'[u].active <=> opens)
  <2>1. user' = [user EXCEPT ![u] = [user[u] EXCEPT !.active = opens]]
    BY DEF CommitStatus
  <2>2. user \in [Users -> UserRows] /\ user[u] \in UserRows
    BY <1>1 DEF TypeOK
  <2>3. u \in Users
    BY <1>1
  <2> HIDE DEF u, opens
  <2>4. user'[u] = [user[u] EXCEPT !.active = opens] /\ \A v \in Users \ {u} : user'[v] = user[v]
    BY <2>1, <2>2, <2>3
  <2> QED BY <2>2, <2>4 DEF UserRows
<1>3. /\ session' \subseteq session
      /\ ~opens => \A s \in session' : s.user # u
  BY DEF CommitStatus, Does, SessionsOf
<1>4. Exclusive'
  BY <1>1, IdleIsCall, ReleaseKeepsExclusive DEF SessionsInv, Finish, Idle
<1>5. GrantedIsCurrent'
  BY <1>1, <1>2, CommitKeepsCurrent DEF SessionsInv
<1>6. SerialsGrow'
  BY <1>1, <1>2 DEF SessionsInv, SerialsGrow
<1>7. InactiveHasNoSession'
  BY <1>1, <1>2, <1>3 DEF SessionsInv, InactiveHasNoSession, TypeOK, Sessions
<1>8. NoObsoleteSession'
  BY <1>1, <1>3 DEF SessionsInv, NoObsoleteSession
<1> QED BY <1>4, <1>5, <1>6, <1>7, <1>8 DEF SessionsInv

\* The steps of a request that write neither accounts nor sessions.
LEMMA AnswerKeepsSessions ==
  ASSUME TypeOK, SessionsInv, NEW c \in Clients,
         Capture(c) \/ FailVerification(c) \/ FailSigning(c) \/ Lose(c)
  PROVE  SessionsInv'
<1>1. UNCHANGED <<user, session, made, floor>>
  BY DEF Capture, FailVerification, FailSigning, Lose
<1>2. CASE Finish(c)
  BY <1>1, <1>2, IdleIsCall, ReleaseKeepsExclusive, QuietKeepsCurrent, FewerSessions
  DEF SessionsInv, Finish, Idle
<1>3. CASE Capture(c)
  <2> DEFINE next == [call[c] EXCEPT !.phase = "seen",
        !.seen = IF user[call[c].user].active THEN user[call[c].user].hash ELSE NoHash]
  <2>1. call[c] \in LoginCalls
    BY <1>3, KindsOfCalls DEF Capture, Does
  <2>2. next \in Calls /\ next.phase = "seen"
    BY <2>1, HashTypes DEF LoginCalls, Calls
  <2>3. Step(c, next)
    BY <1>3 DEF Capture
  <2> HIDE DEF next
  <2> QED BY <1>1, <2>2, <2>3, ReleaseKeepsExclusive, QuietKeepsCurrent, FewerSessions
      DEF SessionsInv
<1> QED BY <1>2, <1>3 DEF FailVerification, FailSigning, Lose

LEMMA EnvironmentKeepsSessions ==
  ASSUME TypeOK, SessionsInv, Environment PROVE SessionsInv'
<1>1. session' \subseteq session /\ UNCHANGED <<user, call, made, floor>>
  BY DEF Environment, RevokeUserSessions, RevokeAllSessions, EndSession, ExpireWindow, PurgeWindow
<1>2. Exclusive' /\ GrantedIsCurrent'
  BY <1>1 DEF SessionsInv, Exclusive, Writes, Shares, Holding, GrantedIsCurrent, Does, Running,
     StillCurrent
<1> QED BY <1>1, <1>2, FewerSessions DEF SessionsInv

LEMMA NextKeepsSessions == TypeOK /\ SessionsInv /\ [Next]_vars => SessionsInv'
<1> SUFFICES ASSUME TypeOK, SessionsInv, [Next]_vars PROVE SessionsInv' OBVIOUS
<1>1. ASSUME NEW c \in Clients, Begin(c) \/ TakeLock(c) \/ Proceed(c) \/ Lose(c)
      PROVE  SessionsInv'
  BY <1>1, BeginKeepsSessions, LockKeepsSessions, SignKeepsSessions, ChangeKeepsSessions,
     ResetKeepsSessions, StatusKeepsSessions, AnswerKeepsSessions DEF Proceed
<1>2. CASE Environment
  BY <1>2, EnvironmentKeepsSessions
<1>3. CASE UNCHANGED vars
  BY <1>3 DEF vars, SessionsInv, Exclusive, Writes, Shares, Holding, GrantedIsCurrent, Does,
     Running, StillCurrent, SerialsGrow, InactiveHasNoSession, NoObsoleteSession
<1> QED BY <1>1, <1>2, <1>3 DEF Next

LEMMA InitSessions == Init => SessionsInv
BY DEF Init, Idle, SessionsInv, Exclusive, Writes, Shares, Holding, GrantedIsCurrent, Does,
   Running, SerialsGrow, InactiveHasNoSession, NoObsoleteSession

-------------------------------------------------------------------------------
(* The throttle.                                                            *)

\* The logins under way for one address and username.
Attempts(k) == {c \in Clients : Running(c) /\ call[c].op = "login" /\ Identity(c) = k}

Ceiling == Limit - 1 + Cardinality(Clients)

\* Whoever passed the check may still count one failure, unless the window has
\* lapsed: then the first failure counted starts a window of its own.
Few(k) ==
  /\ throttle[k].failures <= Ceiling
  /\ ~throttle[k].lapsed => throttle[k].failures + Cardinality(Attempts(k)) <= Ceiling
FewAttempts == \A k \in Identities : Few(k)

LEMMA SizesOfAttempts ==
  ASSUME NEW k
  PROVE  /\ IsFiniteSet(Attempts(k)) /\ Cardinality(Attempts(k)) \in Nat
         /\ IsFiniteSet(Attempts(k)') /\ Cardinality(Attempts(k)') \in Nat
         /\ Cardinality(Attempts(k)) <= Cardinality(Clients)
         /\ Cardinality(Attempts(k)') <= Cardinality(Clients)
         /\ Cardinality(Clients) \in Nat
<1>1. Attempts(k) \subseteq Clients /\ Attempts(k)' \subseteq Clients
  BY DEF Attempts
<1> QED BY <1>1, ClientsAssumption, FS_Subset, FS_CardinalityType

\* Nobody new, nothing counted.
LEMMA KeptIsFew ==
  ASSUME TypeOK, NEW k \in Identities, Few(k),
         Attempts(k)' \subseteq Attempts(k), throttle'[k] = throttle[k]
  PROVE  Few(k)'
<1>1. Cardinality(Attempts(k)') <= Cardinality(Attempts(k))
  BY SizesOfAttempts, FS_Subset
<1>2. throttle[k].failures \in Nat
  BY ThrottleTypes DEF ThrottleRows
<1> QED BY <1>1, <1>2, SizesOfAttempts DEF Few, Ceiling

\* Everybody may be let in while failures are below the limit.
LEMMA LetInIsFew ==
  ASSUME TypeOK, NEW k \in Identities, Few(k), MayTry(k), throttle'[k] = throttle[k]
  PROVE  Few(k)'
<1>1. throttle[k].failures \in Nat
  BY ThrottleTypes DEF ThrottleRows
<1> QED BY <1>1, SizesOfAttempts DEF Few, Ceiling, MayTry

LEMMA ForgottenIsFew ==
  ASSUME NEW k, throttle'[k] = NoFailures
  PROVE  Few(k)'
BY SizesOfAttempts DEF Few, Ceiling, NoFailures

LEMMA LapsedIsFew ==
  ASSUME TypeOK, NEW k \in Identities, Few(k),
         throttle'[k] = [throttle[k] EXCEPT !.lapsed = TRUE]
  PROVE  Few(k)'
<1>1. throttle'[k].failures = throttle[k].failures /\ throttle'[k].lapsed
  BY ThrottleTypes DEF ThrottleRows
<1> QED BY <1>1 DEF Few, Ceiling

\* Whoever counts a failure is done.
LEMMA CountedIsFew ==
  ASSUME TypeOK, NEW k \in Identities, Few(k), NEW c \in Attempts(k),
         Attempts(k)' \subseteq Attempts(k) \ {c}, throttle'[k] = Counted(throttle[k])
  PROVE  Few(k)'
<1>1. /\ IsFiniteSet(Attempts(k) \ {c})
      /\ Cardinality(Attempts(k) \ {c}) = Cardinality(Attempts(k)) - 1
  BY SizesOfAttempts, FS_RemoveElement
<1>2. Cardinality(Attempts(k)') <= Cardinality(Attempts(k)) - 1
  BY <1>1, FS_Subset
<1>3. throttle[k].failures \in Nat
  BY ThrottleTypes DEF ThrottleRows
<1>4. /\ throttle'[k].failures = IF throttle[k].lapsed THEN 1 ELSE throttle[k].failures + 1
      /\ ~throttle'[k].lapsed
  BY DEF Counted
<1> QED BY <1>2, <1>3, <1>4, SizesOfAttempts DEF Few, Ceiling

\* A step of a request that keeps being no login, or the same login, or ends.
LEMMA NobodyNew ==
  ASSUME TypeOK, NEW c \in Clients, NEW next \in Calls, Step(c, next),
         \/ next = Idle
         \/ next.op # "login"
         \/ /\ Running(c) /\ call[c].op = "login"
            /\ next.at = call[c].at /\ next.user = call[c].user
  PROVE  \A k \in Identities : /\ Attempts(k)' \subseteq Attempts(k)
                               /\ next = Idle => Attempts(k)' \subseteq Attempts(k) \ {c}
<1>1. /\ call'[c] = next
      /\ \A d \in Clients \ {c} : call'[d] = call[d]
  BY StepKeepsTypes
<1> QED BY <1>1 DEF Attempts, Running, Identity, Idle

LEMMA BeginKeepsFew ==
  ASSUME TypeOK, FewAttempts, NEW c \in Clients, Begin(c) PROVE FewAttempts'
<1>1. ASSUME NEW u \in Subjects, NEW p \in Passwords, NEW at \in Addresses, CheckThrottle(c, u, at, p)
      PROVE  FewAttempts'
  <2> DEFINE next == [op |-> "login", phase |-> "checked", user |-> u, at |-> at, pw |-> p,
                      seen |-> NoHash, stale |-> throttle[<<at, u>>].lapsed]
  <2>1. call' = [call EXCEPT ![c] = next] /\ throttle' = throttle /\ MayTry(<<at, u>>)
    BY <1>1 DEF CheckThrottle, Step
  <2>2. call'[c] = next /\ \A d \in Clients \ {c} : call'[d] = call[d]
    BY <2>1 DEF TypeOK
  <2>3. ASSUME NEW k \in Identities, k # <<at, u>> PROVE Attempts(k)' \subseteq Attempts(k)
    BY <2>2, <2>3 DEF Attempts, Running, Identity
  <2> QED BY <2>1, <2>3, KeptIsFew, LetInIsFew DEF FewAttempts
<1>2. ASSUME NEW next \in Calls, Step(c, next), next.op # "login", throttle' = throttle
      PROVE  FewAttempts'
  BY <1>2, NobodyNew, KeptIsFew DEF FewAttempts
<1>3. ASSUME NEW u \in Subjects, NEW p \in Passwords, NEW q \in Passwords, BeginChange(c, u, p, q)
      PROVE  FewAttempts'
  <2>1. [op |-> "change", phase |-> "seen", user |-> u, seen |-> user[u].hash, new |-> q] \in Calls
    BY HashTypes DEF Calls, ChangeCalls
  <2> QED BY <1>2, <1>3, <2>1 DEF BeginChange
<1>4. ASSUME NEW a \in Administrators, NEW u \in Users, NEW q \in Passwords, BeginReset(c, a, u, q)
      PROVE  FewAttempts'
  <2>1. [op |-> "reset", phase |-> "seen", by |-> a, user |-> u, new |-> q] \in Calls
    BY DEF Calls, ResetCalls
  <2> QED BY <1>2, <1>4, <2>1 DEF BeginReset
<1>5. ASSUME NEW a \in Administrators, NEW u \in Users, NEW op \in {"close", "open"}, BeginStatus(c, a, u, op)
      PROVE  FewAttempts'
  <2>1. [op |-> op, phase |-> "seen", by |-> a, user |-> u] \in Calls
    BY DEF Calls, StatusCalls
  <2> QED BY <1>2, <1>5, <2>1 DEF BeginStatus
<1> QED BY <1>1, <1>3, <1>4, <1>5 DEF Begin

LEMMA LockKeepsFew ==
  ASSUME TypeOK, FewAttempts, NEW c \in Clients, TakeLock(c) PROVE FewAttempts'
<1>1. throttle' = throttle
  BY DEF TakeLock, LockToSign, LockToChange, LockAdminAndTarget
<1>2. CASE LockToSign(c)
  <2> DEFINE next == [call[c] EXCEPT !.phase = IF StillCurrent(c) THEN "granted" ELSE "refused"]
  <2>1. call[c] \in LoginCalls /\ Running(c) /\ call[c].op = "login" /\ Step(c, next)
    BY <1>2, KindsOfCalls DEF LockToSign, Does
  <2>2. next \in Calls /\ next.user = call[c].user /\ next.at = call[c].at
    BY <2>1 DEF LoginCalls, Calls
  <2> HIDE DEF next
  <2> QED BY <1>1, <2>1, <2>2, NobodyNew, KeptIsFew DEF FewAttempts
<1>3. ASSUME call[c] \in ChangeCalls \cup ResetCalls \cup StatusCalls,
             Step(c, [call[c] EXCEPT !.phase = "granted"])
      PROVE  FewAttempts'
  <2> DEFINE next == [call[c] EXCEPT !.phase = "granted"]
  <2>1. next \in Calls /\ next.op # "login"
    BY <1>3 DEF ChangeCalls, ResetCalls, StatusCalls, Calls
  <2> QED BY <1>1, <1>3, <2>1, NobodyNew, KeptIsFew DEF FewAttempts
<1>4. CASE Step(c, Idle)
  BY <1>1, <1>4, IdleIsCall, NobodyNew, KeptIsFew DEF FewAttempts
<1>5. CASE LockToChange(c) \/ LockAdminAndTarget(c)
  BY <1>3, <1>4, <1>5, KindsOfCalls DEF LockToChange, LockAdminAndTarget, Does
<1> QED BY <1>2, <1>5 DEF TakeLock

LEMMA EndKeepsFew ==
  ASSUME TypeOK, FewAttempts, NEW c \in Clients, Finish(c),
         \/ throttle' = throttle
         \/ /\ Running(c) /\ call[c].op = "login"
            /\ \/ throttle' = [throttle EXCEPT ![Identity(c)] = NoFailures]
               \/ throttle' = [throttle EXCEPT ![Identity(c)] = Counted(@)]
  PROVE  FewAttempts'
<1>1. \A k \in Identities : Attempts(k)' \subseteq Attempts(k) \ {c}
  BY IdleIsCall, NobodyNew DEF Finish
<1>2. ASSUME NEW k \in Identities, throttle'[k] = throttle[k] PROVE Few(k)'
  BY <1>1, <1>2, KeptIsFew DEF FewAttempts
<1>3. ASSUME NEW k \in Identities, throttle'[k] # throttle[k] PROVE Few(k)'
  <2>1. Running(c) /\ call[c].op = "login"
    BY <1>3
  <2>2. k = Identity(c) /\ c \in Attempts(k)
    BY <1>3, <2>1 DEF Attempts, TypeOK
  <2>3. throttle'[k] = NoFailures \/ throttle'[k] = Counted(throttle[k])
    BY <1>3, <2>2 DEF TypeOK
  <2> QED BY <1>1, <2>2, <2>3, CountedIsFew, ForgottenIsFew DEF FewAttempts
<1> QED BY <1>2, <1>3 DEF FewAttempts

LEMMA CaptureKeepsFew ==
  ASSUME TypeOK, FewAttempts, NEW c \in Clients, Capture(c) PROVE FewAttempts'
<1> DEFINE next == [call[c] EXCEPT !.phase = "seen",
      !.seen = IF user[call[c].user].active THEN user[call[c].user].hash ELSE NoHash]
<1>1. /\ call[c] \in LoginCalls /\ Running(c) /\ call[c].op = "login" /\ Step(c, next)
      /\ Identity(c) \in Identities
  BY KindsOfCalls, IdentityTypes DEF Capture, Does
<1>2. next \in Calls /\ next.user = call[c].user /\ next.at = call[c].at
  BY <1>1, HashTypes DEF LoginCalls, Calls
<1> HIDE DEF next
<1>3. \A k \in Identities : Attempts(k)' \subseteq Attempts(k)
  BY <1>1, <1>2, NobodyNew
<1>4. \A k \in Identities : throttle'[k] \in {NoFailures, throttle[k]}
  BY <1>1 DEF Capture, RetiredWindow, TypeOK
<1> QED BY <1>3, <1>4, KeptIsFew, ForgottenIsFew DEF FewAttempts

LEMMA NextKeepsFew == TypeOK /\ FewAttempts /\ [Next]_vars => FewAttempts'
<1> SUFFICES ASSUME TypeOK, FewAttempts, [Next]_vars PROVE FewAttempts' OBVIOUS
<1>1. ASSUME NEW c \in Clients, Proceed(c) \/ Lose(c) PROVE FewAttempts'
  BY <1>1, CaptureKeepsFew, EndKeepsFew DEF Proceed, FailVerification, FailSigning, RecordFailure,
     Sign, CommitChange, CommitReset, CommitStatus, Lose, Does
<1>2. ASSUME call' = call,
             \A k \in Identities : throttle'[k] \in
               {throttle[k], NoFailures, [throttle[k] EXCEPT !.lapsed = TRUE]}
      PROVE  FewAttempts'
  <2>1. \A k \in Identities : Attempts(k)' = Attempts(k)
    BY <1>2 DEF Attempts, Running, Identity
  <2> QED BY <1>2, <2>1, KeptIsFew, ForgottenIsFew, LapsedIsFew DEF FewAttempts
<1>3. CASE Environment
  BY <1>2, <1>3 DEF Environment, RevokeUserSessions, RevokeAllSessions, EndSession, ExpireWindow,
     PurgeWindow, TypeOK
<1>4. CASE UNCHANGED vars
  BY <1>2, <1>4 DEF vars
<1> QED BY <1>1, <1>3, <1>4, BeginKeepsFew, LockKeepsFew DEF Next

LEMMA InitFew == Init => FewAttempts
<1> SUFFICES ASSUME Init, NEW k \in Identities PROVE Few(k)
  BY DEF FewAttempts
<1>1. throttle[k].failures = 0
  BY DEF Init, NoFailures
<1>2. /\ Cardinality(Attempts(k)) \in Nat /\ Cardinality(Clients) \in Nat
      /\ Cardinality(Attempts(k)) <= Cardinality(Clients)
  BY SizesOfAttempts
<1> QED BY <1>1, <1>2 DEF Few, Ceiling

\* A deactivated User has no session, no session rests on a hash that a reset
\* replaced, and the failures counted against an identity stay under the limit
\* plus the logins that can be in flight.
THEOREM SessionsAreSound == Spec => []SessionsSound
<1> DEFINE IInv == TypeOK /\ SessionsInv /\ FewAttempts
<1>1. Init => IInv
  BY InitTypes, InitSessions, InitFew
<1>2. IInv /\ [Next]_vars => IInv'
  BY NextTypes, NextKeepsSessions, NextKeepsFew
<1>3. IInv => SessionsSound
  <2>1. ASSUME IInv, NEW k \in Identities
        PROVE  throttle[k].failures < Limit + Cardinality(Clients)
    <3>1. throttle[k].failures \in Nat /\ throttle[k].failures <= Ceiling
      BY <2>1, ThrottleTypes DEF ThrottleRows, FewAttempts, Few
    <3>2. Cardinality(Clients) \in Nat
      BY ClientsAssumption, FS_CardinalityType
    <3> QED BY <3>1, <3>2 DEF Ceiling
  <2> QED BY <2>1 DEF SessionsInv, SessionsSound, ThrottleBound
<1> QED BY <1>1, <1>2, <1>3, PTL DEF Spec

-------------------------------------------------------------------------------
(* What a login leaves behind.                                               *)

\* A failure counted in a running window is kept.
WindowKept(k) ==
  throttle[k].failures > 0 /\ ~throttle[k].lapsed => throttle'[k].failures >= throttle[k].failures
SignsFor(c, k) == Does(c, "login", "granted") /\ Identity(c) = k /\ call'[c] = Idle
WindowStep == \A k \in Identities : WindowKept(k) \/ \E c \in Clients : SignsFor(c, k)

\* A password that moves is moved by the commit of its reset or change.
Proved(c, u) ==
  /\ Writes(c, u) /\ call'[c] = Idle
  /\ \/ call[c].op = "reset"
     \/ call[c].op = "change" /\ call[c].seen = user[u].hash
PasswordStep == \A u \in Users :
  user'[u].hash.pw # user[u].hash.pw => \E c \in Clients : Proved(c, u)

LEMMA SameWindow ==
  ASSUME TypeOK, NEW k \in Identities, throttle'[k].failures = throttle[k].failures
  PROVE  WindowKept(k)
<1>1. throttle[k].failures \in Nat BY ThrottleTypes DEF ThrottleRows
<1> QED BY <1>1 DEF WindowKept

LEMMA CountedWindow ==
  ASSUME TypeOK, NEW k \in Identities, NEW c \in Clients, Identity(c) \in Identities, RecordFailure(c)
  PROVE  WindowKept(k)
<1>1. throttle[k].failures \in Nat BY ThrottleTypes DEF ThrottleRows
<1>2. throttle'[k] \in {throttle[k], Counted(throttle[k])} BY DEF RecordFailure, TypeOK
<1> QED BY <1>1, <1>2 DEF WindowKept, Counted

LEMMA ProceedKeepsWindows ==
  ASSUME TypeOK, NEW c \in Clients, Proceed(c) PROVE WindowStep
<1> SUFFICES ASSUME NEW k \in Identities PROVE WindowKept(k) \/ SignsFor(c, k)
  BY DEF WindowStep
<1>1. CASE Capture(c)
  <2>1. Identity(c) \in Identities BY <1>1, IdentityTypes DEF Capture, Does
  <2>2. throttle'[k] = throttle[k] \/ throttle[k].lapsed
    BY <1>1, <2>1 DEF Capture, RetiredWindow, TypeOK
  <2> QED BY <2>2, SameWindow DEF WindowKept
<1>2. CASE FailVerification(c) \/ FailSigning(c)
  <2>1. Identity(c) \in Identities /\ RecordFailure(c)
    BY <1>2, IdentityTypes DEF FailVerification, FailSigning, Does
  <2> QED BY <2>1, CountedWindow
<1>3. CASE Sign(c)
  <2>1. Does(c, "login", "granted") /\ call'[c] = Idle
    BY <1>3, IdleIsCall, StepKeepsTypes DEF Sign, Finish
  <2>2. Identity(c) \in Identities BY <2>1, IdentityTypes DEF Does
  <2>3. CASE Identity(c) = k BY <2>1, <2>3 DEF SignsFor
  <2>4. CASE Identity(c) # k
    <3>1. throttle'[k] = throttle[k] BY <1>3, <2>2, <2>4 DEF Sign, TypeOK
    <3> QED BY <3>1, SameWindow
  <2> QED BY <2>3, <2>4
<1>4. CASE CommitChange(c) \/ CommitReset(c) \/ CommitStatus(c)
  BY <1>4, SameWindow DEF CommitChange, CommitReset, CommitStatus
<1> QED BY <1>1, <1>2, <1>3, <1>4 DEF Proceed

LEMMA NextKeepsWindows == TypeOK /\ [Next]_vars => WindowStep
<1> SUFFICES ASSUME TypeOK, [Next]_vars PROVE WindowStep OBVIOUS
<1>1. ASSUME throttle' = throttle PROVE WindowStep
  BY <1>1, SameWindow DEF WindowStep
<1>2. ASSUME NEW k \in Identities, ExpireWindow(k) \/ PurgeWindow(k) PROVE WindowStep
  <2>1. ASSUME NEW j \in Identities PROVE WindowKept(j)
    <3>1. throttle'[j].failures = throttle[j].failures \/ throttle[j].lapsed
      BY <1>2, ThrottleTypes DEF ExpireWindow, PurgeWindow, TypeOK, ThrottleRows
    <3> QED BY <3>1, SameWindow DEF WindowKept
  <2> QED BY <2>1 DEF WindowStep
<1>3. CASE Environment
  BY <1>1, <1>2, <1>3 DEF Environment, RevokeUserSessions, RevokeAllSessions, EndSession
<1>4. ASSUME NEW c \in Clients, Begin(c) \/ TakeLock(c) \/ Lose(c) PROVE WindowStep
  BY <1>1, <1>4 DEF Begin, CheckThrottle, BeginChange, BeginReset, BeginStatus, TakeLock,
     LockToSign, LockToChange, LockAdminAndTarget, Lose
<1>5. CASE UNCHANGED vars
  BY <1>1, <1>5 DEF vars
<1> QED BY <1>3, <1>4, <1>5, ProceedKeepsWindows DEF Next

\* A login upgrades the hash that its User still has, to one of the same password.
LEMMA ProceedProvesPasswords ==
  ASSUME TypeOK, SessionsInv, NEW c \in Clients, Proceed(c) PROVE PasswordStep
<1> SUFFICES ASSUME NEW u \in Users, user'[u].hash.pw # user[u].hash.pw PROVE Proved(c, u)
  BY DEF PasswordStep
<1>1. CASE Sign(c)
  <2>1. StillCurrent(c) /\ call[c].user \in Users
    BY <1>1, KindsOfCalls DEF SessionsInv, GrantedIsCurrent, Sign, Does
  <2> DEFINE new == [pw |-> call[c].seen.pw, n |-> Fresh(call[c].user), dated |-> FALSE]
  <2>2. user' = user \/ user' = [user EXCEPT ![call[c].user].hash = new]
    BY <1>1 DEF Sign
  <2>3. new.pw = user[call[c].user].hash.pw BY <2>1 DEF StillCurrent
  <2> HIDE DEF new
  <2>4. user'[u].hash = user[u].hash \/ (u = call[c].user /\ user'[u].hash = new)
    BY <2>1, <2>2 DEF TypeOK, UserRows
  <2> QED BY <2>3, <2>4
<1>2. CASE CommitChange(c) \/ CommitReset(c)
  <2>1. Holding(c) /\ call'[c] = Idle /\ call[c].user \in Users
    BY <1>2, IdleIsCall, StepKeepsTypes, KindsOfCalls
       DEF CommitChange, CommitReset, Does, Holding, Finish
  <2>2. u = call[c].user BY <1>2, <2>1 DEF CommitChange, CommitReset, Install, TypeOK
  <2>3. call[c].op = "reset" \/ (call[c].op = "change" /\ StillCurrent(c))
    BY <1>2 DEF CommitChange, CommitReset, Does, SessionsInv, GrantedIsCurrent
  <2> QED BY <2>1, <2>2, <2>3 DEF Proved, Writes, StillCurrent
<1>3. CASE CommitStatus(c)
  <2>1. call[c].user \in Users BY <1>3, KindsOfCalls DEF CommitStatus, Does
  <2> DEFINE opens == call[c].op = "open"
  <2>2. user' = [user EXCEPT ![call[c].user].active = opens] BY <1>3 DEF CommitStatus
  <2> HIDE DEF opens
  <2>3. user'[u].hash = user[u].hash BY <2>1, <2>2 DEF TypeOK, UserRows
  <2> QED BY <2>3
<1>4. CASE Capture(c) \/ FailVerification(c) \/ FailSigning(c)
  BY <1>4 DEF Capture, FailVerification, FailSigning
<1> QED BY <1>1, <1>2, <1>3, <1>4 DEF Proceed

LEMMA NextProvesPasswords == TypeOK /\ SessionsInv /\ [Next]_vars => PasswordStep
<1> SUFFICES ASSUME TypeOK, SessionsInv, [Next]_vars PROVE PasswordStep OBVIOUS
<1>1. ASSUME user' = user PROVE PasswordStep
  BY <1>1 DEF PasswordStep
<1>2. CASE Environment \/ UNCHANGED vars
  BY <1>1, <1>2 DEF Environment, RevokeUserSessions, RevokeAllSessions, EndSession, ExpireWindow,
     PurgeWindow, vars
<1>3. ASSUME NEW c \in Clients, Begin(c) \/ TakeLock(c) \/ Lose(c) PROVE PasswordStep
  BY <1>1, <1>3 DEF Begin, CheckThrottle, BeginChange, BeginReset, BeginStatus, TakeLock,
     LockToSign, LockToChange, LockAdminAndTarget, Lose
<1> QED BY <1>2, <1>3, ProceedProvesPasswords DEF Next

\* A failure counted in a running window is forgotten only by a login that signs
\* for the same identity, and a password moves only by a reset, or by a change
\* whose caller proved the one that is stored at that moment.
THEOREM CredentialsStay == Spec => CredentialsStand
<1> DEFINE IInv == TypeOK /\ SessionsInv
<1>1. Init => IInv BY InitTypes, InitSessions
<1>2. IInv /\ [Next]_vars => IInv' BY NextTypes, NextKeepsSessions
<1>3. TypeOK /\ [Next]_vars =>
        [\A k \in Identities :
           /\ throttle[k].failures > 0 /\ ~throttle[k].lapsed
           /\ throttle'[k].failures < throttle[k].failures
           => \E c \in Clients : Does(c, "login", "granted") /\ Identity(c) = k
                                 /\ call[c]' = Idle]_vars
  <2> SUFFICES ASSUME TypeOK, [Next]_vars, NEW k \in Identities,
                      throttle[k].failures > 0, ~throttle[k].lapsed,
                      throttle'[k].failures < throttle[k].failures
               PROVE  \E c \in Clients : SignsFor(c, k)
    BY DEF SignsFor
  <2>1. WindowKept(k) \/ \E c \in Clients : SignsFor(c, k)
    BY NextKeepsWindows DEF WindowStep
  <2>2. TypeOK' BY NextTypes
  <2>3. throttle[k].failures \in Nat /\ throttle'[k].failures \in Nat
    BY <2>2 DEF TypeOK, ThrottleRows
  <2> QED BY <2>1, <2>3 DEF WindowKept
<1>4. IInv /\ [Next]_vars =>
        [\A u \in Users : user[u]'.hash.pw # user[u].hash.pw =>
           \E c \in Clients :
             /\ Writes(c, u) /\ call[c]' = Idle
             /\ \/ call[c].op = "reset"
                \/ call[c].op = "change" /\ call[c].seen = user[u].hash]_vars
  BY NextProvesPasswords DEF PasswordStep, Proved
<1> QED BY <1>1, <1>2, <1>3, <1>4, PTL DEF Spec, CredentialsStand, WindowHolds, PasswordMoves

-------------------------------------------------------------------------------
(* Registration: invitations and the account they make.                      *)

Requests ==
  [op : {"create", "revoke", "reissue", "accept", "register"},
   phase : {"asked", "hashing", "claimed", "written"},
   inv : 0..MaxInvitations, role : R!Roles] \cup {R!Idle}
Invited ==
  [state : {"unborn", "pending", "accepted", "revoked", "purged"},
   role : R!Roles \cup {"none"}, late : BOOLEAN]
Claiming(r) == r.phase \in {"claimed", "written"} /\ r.inv \in R!Invitations
Minting(r) == r.op \in {"create", "reissue"} /\ r.phase = "written"
Enrolling(r) == r.op \in {"accept", "register"} /\ r.phase = "written"

\* What a request relies on: the invitation it has claimed is still pending, the one
\* it accepts gives the role it noted, a number is left for the one it makes, and
\* nobody has the username it is about to take.
Standing(r) ==
  /\ r \in Requests
  /\ r.op = "accept" => /\ r.inv \in R!Invitations
                        /\ inv[r.inv].state # "unborn" /\ inv[r.inv].role = r.role
  /\ r.op = "register" \/ r.phase = "asked" => r.inv = 0
  /\ Claiming(r) => inv[r.inv].state = "pending"
  /\ Minting(r) => \E k \in R!Invitations : inv[k].state = "unborn"
  /\ Enrolling(r) => account = R!NoAccount
\* Two requests write neither one invitation nor one key.
Apart(r, s) ==
  /\ ~(Claiming(r) /\ Claiming(s) /\ r.inv = s.inv)
  /\ ~(Minting(r) /\ Minting(s)) /\ ~(Enrolling(r) /\ Enrolling(s))

RequestsStand ==
  /\ req \in [Clients -> Requests]
  /\ \A c \in Clients : Standing(req[c])
  /\ \A c, d \in Clients : c # d => Apart(req[c], req[d])
TablesStand ==
  /\ account \in [via : R!Invitations \cup {R!Himself}, role : R!Roles] \cup {R!NoAccount}
  /\ inv \in [R!Invitations -> Invited] /\ told \subseteq R!Invitations
  /\ \A k \in R!Invitations : inv[k].state # "unborn" => inv[k].role \in R!Roles
  /\ account.via \in R!Invitations => inv[account.via].state \in {"accepted", "purged"}
RegistrationInv == TablesStand /\ RequestsStand /\ InvitationsStand

LEMMA LeastInvitation ==
  ASSUME NEW S, S \subseteq R!Invitations, S # {}
  PROVE  \E k \in S : \A j \in S : k <= j
<1> DEFINE Below(k) == {j \in S : j <= k}
           Sets == {Below(k) : k \in S}
<1>1. IsFiniteSet(S)
  <2>1. MaxInvitations \in Nat BY RegistrationAssumption DEF R!BoundAssumption
  <2>2. IsFiniteSet(1..MaxInvitations) BY <2>1, FS_Interval
  <2> QED BY <2>2, FS_Subset DEF R!Invitations
<1>2. IsWellFoundedOn(StrictSubsetOrdering(S), SUBSET S)
  BY <1>1, FS_StrictSubsetOrderingWellFounded, FS_FiniteSubsetsOfFinite
<1>3. Sets \subseteq SUBSET S /\ Sets # {} OBVIOUS
<1>4. PICK M \in Sets : \A N \in Sets : <<N, M>> \notin StrictSubsetOrdering(S)
  <2> HIDE DEF Sets
  <2> QED BY <1>2, <1>3, WFMin
<1>5. PICK k \in S : M = Below(k) BY <1>4
<1>6. S \subseteq Int BY RegistrationAssumption DEF R!Invitations, R!BoundAssumption
<1>7. ASSUME NEW j \in S, j < k PROVE FALSE
  <2>0. j \in Int /\ k \in Int BY <1>6
  <2>1. Below(j) \subseteq M /\ k \notin Below(j) /\ k \in M
    <3>1. ASSUME NEW i \in S, i <= j PROVE i <= k
      <4>1. i \in Int BY <1>6
      <4> QED BY <1>7, <2>0, <3>1, <4>1
    <3>2. ~(k <= j) /\ k <= k BY <1>7, <2>0
    <3> QED BY <1>5, <3>1, <3>2
  <2>2. Below(j) \in Sets /\ Below(j) \subseteq S /\ M \subseteq S BY <1>5
  <2> QED BY <1>4, <2>1, <2>2 DEF StrictSubsetOrdering
<1> QED BY <1>6, <1>7

\* A request that goes on.
LEMMA PhaseMoves ==
  ASSUME NEW r \in Requests, r # R!Idle,
         NEW phase \in {"asked", "hashing", "claimed", "written"}
  PROVE  /\ [r EXCEPT !.phase = phase] \in Requests
         /\ [r EXCEPT !.phase = phase].op = r.op /\ [r EXCEPT !.phase = phase].inv = r.inv
         /\ [r EXCEPT !.phase = phase].role = r.role
         /\ [r EXCEPT !.phase = phase].phase = phase
BY DEF Requests, R!Idle

LEMMA RequestsMove ==
  ASSUME RegistrationInv, NEW c \in Clients, NEW n, Standing(n),
         req' = [req EXCEPT ![c] = n], UNCHANGED <<account, inv, told>>,
         \A d \in Clients \ {c} : Apart(n, req[d])
  PROVE  RegistrationInv'
<1>1. RequestsStand'
  <2>1. req' \in [Clients -> Requests] BY DEF RegistrationInv, RequestsStand, Standing
  <2>2. \A d \in Clients : req'[d] = IF d = c THEN n ELSE req[d]
    BY DEF RegistrationInv, RequestsStand
  <2>3. ASSUME NEW d \in Clients PROVE Standing(req[d])'
    <3>1. Standing(req'[d]) BY <2>2 DEF RegistrationInv, RequestsStand
    <3> QED BY <3>1 DEF Standing, Claiming, Minting, Enrolling
  <2>4. ASSUME NEW a \in Clients, NEW b \in Clients, a # b PROVE Apart(req[a], req[b])'
    <3>1. Apart(req'[a], req'[b]) BY <2>2, <2>4 DEF RegistrationInv, RequestsStand, Apart
    <3> QED BY <3>1 DEF Apart, Claiming, Minting, Enrolling
  <2> QED BY <2>1, <2>3, <2>4 DEF RequestsStand
<1>2. TablesStand' /\ InvitationsStand'
  BY DEF RegistrationInv, TablesStand, InvitationsStand, R!InvitationsStand,
         R!AcceptedMeansAccount, R!RevokedStaysOut
<1> QED BY <1>1, <1>2 DEF RegistrationInv

\* Requests that check, claim, wait or end leave the tables alone.
LEMMA AsksKeepRegistration ==
  ASSUME RegistrationInv, NEW c \in Clients,
         \/ \E role \in R!Roles : R!AskCreate(c, role)
         \/ R!AskRegister(c)
         \/ \E k \in R!Invitations : R!Check(c, k)
         \/ R!Lose(c)
  PROVE  RegistrationInv'
<1> USE DEF R!Roles, R!Idle, Requests, Claiming, Minting, Enrolling, Apart
<1>0. 0 \in 0..MaxInvitations /\ 0 \notin R!Invitations
      /\ R!Invitations \subseteq 0..MaxInvitations
  BY RegistrationAssumption DEF R!BoundAssumption, R!Invitations
<1>i. Standing(R!Idle) BY <1>0 DEF Standing
<1>1. ASSUME NEW role \in R!Roles, R!AskCreate(c, role) PROVE RegistrationInv'
  <2> DEFINE n == [op |-> "create", phase |-> "asked", inv |-> 0, role |-> role]
  <2>1. Standing(n) BY <1>0 DEF Standing
  <2>2. \A d \in Clients \ {c} : Apart(n, req[d]) OBVIOUS
  <2>3. req' = [req EXCEPT ![c] = n] /\ UNCHANGED <<account, inv, told>>
    BY <1>1 DEF R!AskCreate
  <2> HIDE DEF n
  <2> QED BY <2>1, <2>2, <2>3, RequestsMove
<1>2. ASSUME R!AskRegister(c) PROVE RegistrationInv'
  <2> DEFINE n == [op |-> "register", phase |-> "claimed", inv |-> 0, role |-> "member"]
  <2>1. Standing(n) BY <1>0 DEF Standing
  <2>2. \A d \in Clients \ {c} : Apart(n, req[d]) BY <1>0
  <2>3. req' = [req EXCEPT ![c] = n] /\ UNCHANGED <<account, inv, told>>
    BY <1>2 DEF R!AskRegister
  <2> HIDE DEF n
  <2> QED BY <2>1, <2>2, <2>3, RequestsMove
<1>3. ASSUME NEW k \in R!Invitations, R!Check(c, k) PROVE RegistrationInv'
  <2> DEFINE n == [op |-> "accept", phase |-> "hashing", inv |-> k, role |-> inv[k].role]
  <2>0. inv[k].state = "pending" BY <1>3 DEF R!Check, R!Pending
  <2>1. inv[k].role \in R!Roles BY <2>0 DEF RegistrationInv, TablesStand
  <2>2. Standing(n) BY <1>0, <2>0, <2>1 DEF Standing
  <2>3. \A d \in Clients \ {c} : Apart(n, req[d]) OBVIOUS
  <2>4. req' = [req EXCEPT ![c] = n] /\ UNCHANGED <<account, inv, told>>
    BY <1>3 DEF R!Check
  <2> HIDE DEF n
  <2> QED BY <2>2, <2>3, <2>4, RequestsMove
<1>4. ASSUME R!Lose(c) PROVE RegistrationInv'
  <2>1. req' = [req EXCEPT ![c] = R!Idle] /\ UNCHANGED <<account, inv, told>>
    BY <1>4 DEF R!Lose, R!Refuse, R!Ends
  <2>2. \A d \in Clients \ {c} : Apart(R!Idle, req[d]) OBVIOUS
  <2> QED BY <1>i, <2>1, <2>2, RequestsMove
<1> QED BY <1>1, <1>2, <1>3, <1>4

LEMMA EndingKeepsRegistration ==
  ASSUME RegistrationInv, NEW c \in Clients, R!Refuse(c)
  PROVE  RegistrationInv'
<1>1. Standing(R!Idle) /\ \A d \in Clients \ {c} : Apart(R!Idle, req[d])
  BY DEF Standing, Requests, R!Idle, Claiming, Minting, Enrolling, Apart
<1>2. req' = [req EXCEPT ![c] = R!Idle] /\ UNCHANGED <<account, inv, told>>
  BY DEF R!Refuse, R!Ends
<1> QED BY <1>1, <1>2, RequestsMove

\* A request that waited claims what nobody else has claimed meanwhile.
LEMMA ClaimsKeepRegistration ==
  ASSUME RegistrationInv, NEW c \in Clients,
         R!Retire(c) \/ R!Claim(c) \/ \E k \in R!Invitations : R!Reissue(c, k)
  PROVE  RegistrationInv'
<1> USE DEF Claiming, Minting, Enrolling, Apart
<1>0. 0 \in 0..MaxInvitations /\ 0 \notin R!Invitations
      /\ R!Invitations \subseteq 0..MaxInvitations
  BY RegistrationAssumption DEF R!BoundAssumption, R!Invitations
<1>r. req \in [Clients -> Requests] /\ Standing(req[c]) /\ req[c] \in Requests
  BY DEF RegistrationInv, RequestsStand, Standing
<1>f. ASSUME NEW k \in R!Invitations, R!Free(c, k), NEW d \in Clients \ {c}
      PROVE  ~(Claiming(req[d]) /\ req[d].inv = k)
  BY <1>f DEF R!Free, R!Claims
<1>1. ASSUME NEW k \in R!Invitations, R!Is(c, "create", "asked"),
             R!Pending(k), R!Free(c, k),
             req' = [req EXCEPT ![c].phase = "claimed", ![c].inv = k],
             UNCHANGED <<account, inv, told>>
      PROVE  RegistrationInv'
  <2> DEFINE n == [req[c] EXCEPT !.phase = "claimed", !.inv = k]
  <2>p. req[c] # R!Idle /\ req[c].op = "create" BY <1>1 DEF R!Is, R!Idle
  <2>n. n \in Requests /\ n.op = "create" /\ n.inv = k /\ n.phase = "claimed"
    BY <1>0, <1>r, <2>p DEF Requests, R!Idle
  <2>1. Standing(n)
    <3> HIDE DEF n
    <3> QED BY <1>1, <2>n DEF Standing, R!Pending
  <2>2. \A d \in Clients \ {c} : Apart(n, req[d])
    <3> HIDE DEF n
    <3> QED BY <1>1, <1>f, <2>n
  <2>3. req' = [req EXCEPT ![c] = n] BY <1>1, <1>r
  <2> HIDE DEF n
  <2> QED BY <1>1, <2>1, <2>2, <2>3, RequestsMove
<1>2. ASSUME R!Is(c, "create", "asked"), R!Moves(c, "claimed"),
             UNCHANGED <<account, inv, told>>
      PROVE  RegistrationInv'
  <2> DEFINE n == [req[c] EXCEPT !.phase = "claimed"]
  <2>p. req[c] # R!Idle /\ req[c].op = "create" /\ req[c].inv = 0
    BY <1>2, <1>r DEF R!Is, R!Idle, Standing
  <2>n. n \in Requests /\ n.op = "create" /\ n.inv = 0 /\ n.phase = "claimed"
    BY <1>0, <1>r, <2>p, PhaseMoves
  <2>1. Standing(n)
    <3> HIDE DEF n
    <3> QED BY <1>0, <2>n DEF Standing
  <2>2. \A d \in Clients \ {c} : Apart(n, req[d])
    <3> HIDE DEF n
    <3> QED BY <1>0, <2>n
  <2>3. req' = [req EXCEPT ![c] = n] BY <1>2, <1>r DEF R!Moves
  <2> HIDE DEF n
  <2> QED BY <1>2, <2>1, <2>2, <2>3, RequestsMove
<1>3. ASSUME R!Claim(c) PROVE RegistrationInv'
  <2>1. CASE R!Refuse(c) BY <2>1, EndingKeepsRegistration
  <2>2. CASE R!Acceptable(req[c].inv) /\ R!Moves(c, "claimed") /\ UNCHANGED <<account, inv, told>>
    <3> DEFINE n == [req[c] EXCEPT !.phase = "claimed"]
    <3>0. req[c].op = "accept" /\ R!Free(c, req[c].inv) BY <1>3 DEF R!Claim, R!Is
        <3>2. req[c].inv \in R!Invitations BY <1>r, <3>0 DEF Standing
    <3>p. req[c] # R!Idle BY <3>0 DEF R!Idle
    <3>n. /\ n \in Requests /\ n.op = "accept" /\ n.phase = "claimed"
          /\ n.inv = req[c].inv /\ n.role = req[c].role
      BY <1>0, <1>r, <3>0, <3>p, PhaseMoves
    <3>1. Standing(n)
      <4> HIDE DEF n
      <4> QED BY <2>2, <3>0, <3>n, <1>r DEF Standing, R!Acceptable, R!Pending
    <3>3. \A d \in Clients \ {c} : Apart(n, req[d])
      <4> HIDE DEF n
      <4> QED BY <1>f, <3>0, <3>2, <3>n
    <3>4. req' = [req EXCEPT ![c] = n] BY <2>2, <1>r DEF R!Moves
    <3> HIDE DEF n
    <3> QED BY <2>2, <3>1, <3>3, <3>4, RequestsMove
  <2> QED BY <1>3, <2>1, <2>2 DEF R!Claim
<1>4. ASSUME NEW k \in R!Invitations, R!Reissue(c, k) PROVE RegistrationInv'
  <2> DEFINE n == [op |-> "reissue", phase |-> "claimed", inv |-> k, role |-> inv[k].role]
  <2>0. inv[k].state = "pending" /\ R!Free(c, k) BY <1>4 DEF R!Reissue, R!Pending
  <2>1. inv[k].role \in R!Roles BY <2>0 DEF RegistrationInv, TablesStand
  <2>2. Standing(n) BY <1>0, <2>0, <2>1 DEF Standing, Requests
  <2>3. \A d \in Clients \ {c} : Apart(n, req[d]) BY <1>f, <2>0
  <2>4. req' = [req EXCEPT ![c] = n] /\ UNCHANGED <<account, inv, told>>
    BY <1>4 DEF R!Reissue
  <2> HIDE DEF n
  <2> QED BY <2>2, <2>3, <2>4, RequestsMove
<1> QED BY <1>1, <1>2, <1>3, <1>4 DEF R!Retire

\* Requests that insert a row wait for whoever has inserted its key.
LEMMA InsertsKeepRegistration ==
  ASSUME RegistrationInv, NEW c \in Clients, R!Mint(c) \/ R!Enrol(c)
  PROVE  RegistrationInv'
<1> DEFINE n == [req[c] EXCEPT !.phase = "written"]
<1>1. CASE R!Refuse(c) BY <1>1, EndingKeepsRegistration
<1>2. CASE ~R!Refuse(c)
  <2>0. /\ R!Moves(c, "written") /\ UNCHANGED <<account, inv, told>>
        /\ req[c].phase = "claimed"
        /\ \/ /\ req[c].op \in {"create", "reissue"} /\ R!Unborn # {}
              /\ ~\E d \in Clients \ {c} : R!Mints(d)
           \/ /\ req[c].op \in {"accept", "register"} /\ ~R!Exists
              /\ ~\E d \in Clients \ {c} : R!Enrols(d)
    BY <1>2 DEF R!Mint, R!Enrol, R!Taken, R!Waits, R!Others
  <2>r. req \in [Clients -> Requests] /\ Standing(req[c]) /\ req[c] \in Requests
    BY DEF RegistrationInv, RequestsStand, Standing
  <2>n. /\ n \in Requests /\ n.op = req[c].op /\ n.phase = "written"
        /\ n.inv = req[c].inv /\ n.role = req[c].role
    <3>1. req[c] # R!Idle BY <2>0 DEF R!Idle
    <3> QED BY <2>r, <3>1, PhaseMoves
  <2>1. req' = [req EXCEPT ![c] = n] BY <2>0, <2>r DEF R!Moves
  <2> HIDE DEF n
  <2>2. Standing(n)
    <3>1. CASE n.op \in {"create", "reissue"}
      <4>1. \E k \in R!Invitations : inv[k].state = "unborn"
        BY <2>0, <2>n, <3>1 DEF R!Unborn
      <4> QED BY <2>0, <2>r, <2>n, <3>1, <4>1 DEF Standing, Claiming, Minting, Enrolling
    <3>2. CASE n.op \in {"accept", "register"}
      <4>1. account = R!NoAccount BY <2>0, <2>n, <3>2 DEF R!Exists
      <4> QED BY <2>0, <2>r, <2>n, <3>2, <4>1 DEF Standing, Claiming, Minting, Enrolling
    <3> QED BY <2>0, <2>n, <3>1, <3>2
  <2>3. ASSUME NEW d \in Clients \ {c} PROVE Apart(n, req[d])
    <3>1. Apart(req[c], req[d]) BY DEF RegistrationInv, RequestsStand
    <3>2. ~(Claiming(n) /\ Claiming(req[d]) /\ n.inv = req[d].inv)
      BY <2>0, <2>n, <3>1 DEF Apart, Claiming
    <3>3. Minting(n) => ~Minting(req[d])
      BY <2>0, <2>n DEF Minting, R!Mints
    <3>4. Enrolling(n) => ~Enrolling(req[d])
      BY <2>0, <2>n DEF Enrolling, R!Enrols
    <3> QED BY <3>2, <3>3, <3>4 DEF Apart
  <2> QED BY <2>0, <2>1, <2>2, <2>3, RequestsMove
<1> QED BY <1>1, <1>2

\* What a request relies on survives a commit that ends no claimed invitation but its
\* own, takes the last number from nobody who needs it and the username from nobody.
LEMMA RequestsSurvive ==
  ASSUME RequestsStand,
         req' \in [Clients -> Requests],
         \A d \in Clients : req'[d] = req[d] \/ req'[d] = R!Idle,
         \A k \in R!Invitations : inv[k].state # "unborn" =>
           inv'[k].state # "unborn" /\ inv'[k].role = inv[k].role,
         \A d \in Clients : req'[d] # R!Idle =>
           /\ Claiming(req[d]) => inv'[req[d].inv].state = "pending"
           /\ Minting(req[d]) => \E k \in R!Invitations : inv'[k].state = "unborn"
           /\ Enrolling(req[d]) => account' = account
  PROVE  RequestsStand'
<1>i. Standing(R!Idle)' /\ \A r : Apart(R!Idle, r) /\ Apart(r, R!Idle)
  BY DEF Standing, Requests, R!Idle, Claiming, Minting, Enrolling, Apart
<1>1. ASSUME NEW d \in Clients PROVE Standing(req[d])'
  <2>1. CASE req'[d] = R!Idle
    BY <2>1 DEF Standing, Requests, R!Idle, Claiming, Minting, Enrolling
  <2>2. CASE req'[d] # R!Idle /\ req'[d] = req[d]
    BY <2>2 DEF RequestsStand, Standing, Claiming, Minting, Enrolling
  <2> QED BY <2>1, <2>2
<1>2. ASSUME NEW a \in Clients, NEW b \in Clients, a # b PROVE Apart(req[a], req[b])'
  <2>1. Apart(req'[a], req'[b])
    <3>1. Apart(req[a], req[b]) BY <1>2 DEF RequestsStand
    <3> QED BY <1>i, <3>1
  <2> QED BY <2>1 DEF Apart, Claiming, Minting, Enrolling
<1> QED BY <1>1, <1>2 DEF RequestsStand

LEMMA CommitMintKeepsRegistration ==
  ASSUME RegistrationInv, NEW c \in Clients, R!CommitMint(c)
  PROVE  RegistrationInv'
<1> DEFINE k1 == R!Next1
           r == req[c]
<1>0. /\ req \in [Clients -> Requests] /\ r \in Requests /\ Standing(r) /\ Minting(r)
      /\ req' = [req EXCEPT ![c] = R!Idle] /\ UNCHANGED <<account, told>>
      /\ inv' = [k \in R!Invitations |->
           IF k = k1 THEN [state |-> "pending", role |-> r.role, late |-> FALSE]
           ELSE IF k = r.inv THEN [inv[k] EXCEPT !.state = "revoked"] ELSE inv[k]]
  BY DEF RegistrationInv, RequestsStand, Standing, R!CommitMint, R!Ends, R!Mints, Minting
<1>1. k1 \in R!Invitations /\ inv[k1].state = "unborn"
  <2>1. R!Unborn # {} /\ R!Unborn \subseteq R!Invitations
    BY <1>0 DEF Standing, R!Unborn
  <2>2. \E k \in R!Unborn : \A j \in R!Unborn : k <= j BY <2>1, LeastInvitation
  <2>3. k1 \in R!Unborn BY <2>2 DEF R!Next1
  <2> QED BY <2>3 DEF R!Unborn
<1>2. r.role \in R!Roles BY <1>0 DEF Minting, Requests, R!Idle
<1>3. r.inv \in R!Invitations => inv[r.inv].state = "pending"
  BY <1>0 DEF Standing, Claiming, Minting
<1> HIDE DEF k1
<1>r. ASSUME NEW d \in Clients, d # c PROVE Apart(r, req[d]) /\ Standing(req[d])
  BY <1>r DEF RegistrationInv, RequestsStand
<1>p. /\ r.phase = "written" /\ req'[c] = R!Idle
      /\ \A d \in Clients \ {c} : req'[d] = req[d]
      /\ inv \in [R!Invitations -> Invited]
  BY <1>0 DEF Minting, RegistrationInv, TablesStand
<1> HIDE DEF r
<1>4. RequestsStand'
  <2>1. req' \in [Clients -> Requests] BY <1>0 DEF Requests
  <2>2. \A k \in R!Invitations : inv[k].state # "unborn" =>
          inv'[k].state # "unborn" /\ inv'[k].role = inv[k].role
    BY <1>0, <1>1, <1>p DEF Invited
  <2>3. ASSUME NEW d \in Clients, req'[d] # R!Idle
        PROVE  /\ Claiming(req[d]) => inv'[req[d].inv].state = "pending"
               /\ ~Minting(req[d]) /\ account' = account
    <3>1. d # c /\ Apart(r, req[d]) /\ Standing(req[d]) BY <1>p, <1>r, <2>3
    <3>2. ~Minting(req[d]) BY <1>0, <3>1 DEF Apart
    <3>3. ASSUME Claiming(req[d]) PROVE inv'[req[d].inv].state = "pending"
      <4> DEFINE k == req[d].inv
      <4>1. k \in R!Invitations /\ inv[k].state = "pending"
        BY <3>1, <3>3 DEF Standing, Claiming
      <4>2. k # k1 /\ k # r.inv BY <1>1, <1>p, <3>1, <3>3, <4>1 DEF Apart, Claiming
      <4> HIDE DEF k
      <4>3. inv'[k] = inv[k] BY <1>0, <4>1, <4>2
      <4> QED BY <4>1, <4>3 DEF k
    <3> QED BY <1>0, <3>2, <3>3
  <2>4. \A d \in Clients : req'[d] = req[d] \/ req'[d] = R!Idle BY <1>p
  <2> QED BY <2>1, <2>2, <2>3, <2>4, RequestsSurvive DEF RegistrationInv
<1>5. TablesStand'
  <2>1. inv' \in [R!Invitations -> Invited]
    BY <1>0, <1>1, <1>2, <1>p DEF Invited
  <2>2. ASSUME NEW k \in R!Invitations, inv'[k].state # "unborn"
        PROVE  inv'[k].role \in R!Roles
    <3>1. CASE k = k1 BY <1>0, <1>2, <3>1
    <3>2. CASE k # k1
      <4>1. inv'[k].role = inv[k].role BY <1>0, <1>p, <3>2 DEF Invited
      <4>2. inv[k].state # "unborn" BY <1>0, <1>3, <2>2, <3>2
      <4> QED BY <4>1, <4>2 DEF RegistrationInv, TablesStand
    <3> QED BY <3>1, <3>2
  <2>3. account.via \in R!Invitations => inv'[account.via] = inv[account.via]
    BY <1>0, <1>1, <1>3 DEF RegistrationInv, TablesStand
  <2> QED BY <1>0, <2>1, <2>2, <2>3 DEF RegistrationInv, TablesStand
<1>6. InvitationsStand'
  <2>1. \A k \in R!Invitations : inv'[k].state = "accepted" => inv'[k] = inv[k]
    BY <1>0, <1>1, <1>p DEF Invited
  <2>2. \A k \in told : k \in R!Invitations /\ inv'[k] = inv[k]
    BY <1>0, <1>1, <1>3 DEF RegistrationInv, TablesStand, InvitationsStand,
       R!InvitationsStand, R!RevokedStaysOut
  <2>3. R!AcceptedMeansAccount /\ R!RevokedStaysOut
    BY DEF RegistrationInv, InvitationsStand, R!InvitationsStand
  <2>4. R!AcceptedMeansAccount' BY <1>0, <2>1, <2>3 DEF R!AcceptedMeansAccount
  <2>5. R!RevokedStaysOut' BY <1>0, <2>2, <2>3 DEF R!RevokedStaysOut
  <2> QED BY <2>4, <2>5 DEF InvitationsStand, R!InvitationsStand
<1> QED BY <1>4, <1>5, <1>6 DEF RegistrationInv

LEMMA CommitEnrolKeepsRegistration ==
  ASSUME RegistrationInv, NEW c \in Clients, R!CommitEnrol(c)
  PROVE  RegistrationInv'
<1> DEFINE r == req[c]
<1>0. /\ req \in [Clients -> Requests] /\ r \in Requests /\ Standing(r) /\ Enrolling(r)
      /\ req' = [req EXCEPT ![c] = R!Idle] /\ told' = told
      /\ account' = [via |-> IF r.op = "accept" THEN r.inv ELSE R!Himself, role |-> r.role]
      /\ inv' = [k \in R!Invitations |->
           IF k = r.inv THEN [inv[k] EXCEPT !.state = "accepted"] ELSE inv[k]]
  BY DEF RegistrationInv, RequestsStand, Standing, R!CommitEnrol, R!Ends, R!Enrols, Enrolling
<1>1. account = R!NoAccount BY <1>0 DEF Standing
<1>2. /\ r.role \in R!Roles /\ r.op \in {"accept", "register"} /\ r.phase = "written"
      /\ r.op = "accept" => /\ r.inv \in R!Invitations /\ inv[r.inv].state = "pending"
                            /\ inv[r.inv].role = r.role
      /\ r.op = "register" => r.inv \notin R!Invitations
  <2>1. 0 \notin R!Invitations BY RegistrationAssumption DEF R!BoundAssumption, R!Invitations
  <2>2. r # R!Idle BY <1>0 DEF Enrolling, R!Idle
  <2>3. r.role \in R!Roles BY <1>0, <2>2 DEF Requests
  <2> QED BY <1>0, <2>1, <2>3 DEF Enrolling, Standing, Claiming
<1>r. ASSUME NEW d \in Clients, d # c PROVE Apart(r, req[d]) /\ Standing(req[d])
  BY <1>r DEF RegistrationInv, RequestsStand
<1>p. /\ req'[c] = R!Idle /\ \A d \in Clients \ {c} : req'[d] = req[d]
      /\ inv \in [R!Invitations -> Invited]
      /\ R!Himself \notin R!Invitations /\ 0 \notin R!Invitations
  <2>1. R!Himself \notin R!Invitations /\ 0 \notin R!Invitations
    BY RegistrationAssumption DEF R!BoundAssumption, R!Invitations, R!Himself
  <2> QED BY <1>0, <2>1 DEF RegistrationInv, TablesStand
<1> HIDE DEF r
<1>4. RequestsStand'
  <2>1. req' \in [Clients -> Requests] BY <1>0 DEF Requests
  <2>2. \A k \in R!Invitations : inv[k].state # "unborn" =>
          inv'[k].state # "unborn" /\ inv'[k].role = inv[k].role
    BY <1>0, <1>p DEF Invited
  <2>3. ASSUME NEW d \in Clients, req'[d] # R!Idle
        PROVE  /\ Claiming(req[d]) => inv'[req[d].inv].state = "pending"
               /\ Minting(req[d]) => \E k \in R!Invitations : inv'[k].state = "unborn"
               /\ ~Enrolling(req[d])
    <3>1. d # c /\ Apart(r, req[d]) /\ Standing(req[d]) BY <1>p, <1>r, <2>3
    <3>2. ~Enrolling(req[d]) BY <1>0, <3>1 DEF Apart
    <3>3. ASSUME Claiming(req[d]) PROVE inv'[req[d].inv].state = "pending"
      <4> DEFINE k == req[d].inv
      <4>1. k \in R!Invitations /\ inv[k].state = "pending"
        BY <3>1, <3>3 DEF Standing, Claiming
      <4>2. k # r.inv BY <1>2, <3>1, <3>3, <4>1 DEF Apart, Claiming
      <4> HIDE DEF k
      <4>3. inv'[k] = inv[k] BY <1>0, <4>1, <4>2
      <4> QED BY <4>1, <4>3 DEF k
    <3>4. ASSUME Minting(req[d]) PROVE \E k \in R!Invitations : inv'[k].state = "unborn"
      <4>1. PICK k \in R!Invitations : inv[k].state = "unborn" BY <3>1, <3>4 DEF Standing
      <4>2. k # r.inv BY <1>2, <4>1
      <4>3. inv'[k] = inv[k] BY <1>0, <4>1, <4>2
      <4> QED BY <4>1, <4>3
    <3> QED BY <3>2, <3>3, <3>4
  <2>4. \A d \in Clients : req'[d] = req[d] \/ req'[d] = R!Idle BY <1>p
  <2> QED BY <2>1, <2>2, <2>3, <2>4, RequestsSurvive DEF RegistrationInv
<1>5. TablesStand'
  <2>1. inv' \in [R!Invitations -> Invited] BY <1>0, <1>p DEF Invited
  <2>2. \A k \in R!Invitations : inv'[k].state # "unborn" => inv'[k].role \in R!Roles
    BY <1>0, <1>2, <1>p DEF Invited, RegistrationInv, TablesStand
  <2>3. account'.via \in R!Invitations => inv'[account'.via].state \in {"accepted", "purged"}
    BY <1>0, <1>2, <1>p DEF Invited
  <2>4. account' \in [via : R!Invitations \cup {R!Himself}, role : R!Roles] \cup {R!NoAccount}
    BY <1>0, <1>2
  <2> QED BY <1>0, <2>1, <2>2, <2>3, <2>4 DEF RegistrationInv, TablesStand
<1>6. InvitationsStand'
  <2>1. \A k \in R!Invitations : inv[k].state # "accepted"
    BY <1>1, <1>p DEF R!NoAccount, RegistrationInv, InvitationsStand, R!InvitationsStand,
       R!AcceptedMeansAccount
  <2>2. \A k \in R!Invitations : inv'[k].state = "accepted" => k = r.inv
    BY <1>0, <2>1
  <2>3. r.inv \in R!Invitations => account' = [via |-> r.inv, role |-> inv'[r.inv].role]
    BY <1>0, <1>2, <1>p DEF Invited
  <2>4. \A k \in told : /\ k \in R!Invitations /\ k # r.inv
                        /\ inv[k].state \in {"revoked", "purged"}
    BY <1>2 DEF RegistrationInv, TablesStand, InvitationsStand, R!InvitationsStand,
       R!RevokedStaysOut
  <2>5. \A k \in told : inv'[k] = inv[k] /\ account'.via # k
    BY <1>0, <1>2, <1>p, <2>4
  <2> QED BY <1>0, <2>2, <2>3, <2>4, <2>5 DEF InvitationsStand, R!InvitationsStand,
             R!AcceptedMeansAccount, R!RevokedStaysOut
<1> QED BY <1>4, <1>5, <1>6 DEF RegistrationInv

\* Revocation, expiry and retention end what no request has claimed.
LEMMA EndsKeepRegistration ==
  ASSUME RegistrationInv, NEW k \in R!Invitations, R!Revoke(k) \/ R!Expire(k) \/ R!Purge(k)
  PROVE  RegistrationInv'
<1>p. inv \in [R!Invitations -> Invited] BY DEF RegistrationInv, TablesStand
<1>0. /\ UNCHANGED <<account, req>> /\ inv[k].state # "unborn"
      /\ inv' = [inv EXCEPT ![k] = inv'[k]] /\ inv'[k] \in Invited
      /\ inv'[k].role = inv[k].role /\ told \subseteq told' /\ told' \subseteq told \cup {k}
      /\ \/ inv'[k].state = inv[k].state
         \/ /\ inv'[k].state \in {"revoked", "purged"}
            /\ \A c \in Clients : ~R!Claims(c, k)
            /\ inv'[k].state = "revoked" => inv[k].state \in {"pending", "revoked"}
      /\ k \in told' => k \in told \/ inv'[k].state = "revoked"
  <2>1. CASE R!Revoke(k) BY <1>p, <2>1 DEF R!Revoke, Invited
  <2>2. CASE R!Expire(k) BY <1>p, <2>2 DEF R!Expire, R!Pending, Invited
  <2>3. CASE R!Purge(k) BY <1>p, <2>3 DEF R!Purge, R!Pending, Invited
  <2> QED BY <2>1, <2>2, <2>3
<1>1. \A j \in R!Invitations \ {k} : inv'[j] = inv[j] BY <1>0, <1>p
<1>2. RequestsStand'
  <2>1. \A j \in R!Invitations : inv[j].state # "unborn" =>
          inv'[j].state # "unborn" /\ inv'[j].role = inv[j].role
    BY <1>0, <1>1
  <2>2. ASSUME NEW d \in Clients
        PROVE  /\ Claiming(req[d]) => inv'[req[d].inv].state = "pending"
               /\ Minting(req[d]) => \E j \in R!Invitations : inv'[j].state = "unborn"
    <3>1. Standing(req[d]) BY DEF RegistrationInv, RequestsStand
    <3>2. ASSUME Claiming(req[d]) PROVE inv'[req[d].inv].state = "pending"
      <4>1. req[d].inv \in R!Invitations /\ inv[req[d].inv].state = "pending"
        BY <3>1, <3>2 DEF Standing, Claiming
      <4>2. CASE req[d].inv = k
        BY <1>0, <3>2, <4>1, <4>2 DEF Claiming, R!Claims
      <4> QED BY <1>1, <4>1, <4>2
    <3>3. ASSUME Minting(req[d]) PROVE \E j \in R!Invitations : inv'[j].state = "unborn"
      <4>1. PICK j \in R!Invitations : inv[j].state = "unborn" BY <3>1, <3>3 DEF Standing
      <4> QED BY <1>0, <1>1, <4>1
    <3> QED BY <3>2, <3>3
  <2> QED BY <1>0, <2>1, <2>2, RequestsSurvive DEF RegistrationInv, RequestsStand
<1>3. TablesStand'
  <2>1. inv' \in [R!Invitations -> Invited] BY <1>0, <1>p
  <2>2. \A j \in R!Invitations : inv'[j].state # "unborn" => inv'[j].role \in R!Roles
    BY <1>0, <1>1 DEF RegistrationInv, TablesStand
  <2>3. account.via \in R!Invitations => inv'[account.via].state \in {"accepted", "purged"}
    BY <1>0, <1>1 DEF RegistrationInv, TablesStand
  <2> QED BY <1>0, <2>1, <2>2, <2>3 DEF RegistrationInv, TablesStand
<1>4. InvitationsStand'
  <2>1. \A j \in R!Invitations : inv'[j].state = "accepted" =>
          account = [via |-> j, role |-> inv'[j].role]
    BY <1>0, <1>1 DEF RegistrationInv, InvitationsStand, R!InvitationsStand,
       R!AcceptedMeansAccount
  <2>2. \A j \in told : inv[j].state \in {"revoked", "purged"} /\ account.via # j /\ j \in R!Invitations
    BY DEF RegistrationInv, TablesStand, InvitationsStand, R!InvitationsStand, R!RevokedStaysOut
  <2>3. ASSUME NEW j \in told'
        PROVE  inv'[j].state \in {"revoked", "purged"} /\ account.via # j
    <3>1. CASE j # k BY <1>0, <1>1, <2>2, <3>1
    <3>2. CASE j = k /\ k \in told BY <1>0, <2>2, <3>2
    <3>3. CASE j = k /\ k \notin told
      <4>1. inv'[k].state = "revoked" BY <1>0, <3>3
      <4>2. inv[k].state \in {"pending", "revoked"} BY <1>0, <4>1
      <4>3. account.via # k BY <4>2 DEF RegistrationInv, TablesStand
      <4> QED BY <3>3, <4>1, <4>3
    <3> QED BY <3>1, <3>2, <3>3
  <2> QED BY <1>0, <2>1, <2>3 DEF InvitationsStand, R!InvitationsStand,
             R!AcceptedMeansAccount, R!RevokedStaysOut
<1> QED BY <1>2, <1>3, <1>4 DEF RegistrationInv

\* An accepted invitation is the account of its username, with the role it gave, and a
\* revoked one never admits anybody, for any callers and any number of invitations.
THEOREM AcceptedInvitationsAreAccounts == R!Spec => []InvitationsStand
<1>1. R!Init => RegistrationInv
  <2> SUFFICES ASSUME R!Init PROVE RegistrationInv OBVIOUS
  <2>1. 0 \notin R!Invitations /\ R!NoAccount.via = 0
    BY RegistrationAssumption DEF R!BoundAssumption, R!Invitations, R!NoAccount
  <2>2. TablesStand BY <2>1 DEF R!Init, TablesStand, Invited
  <2>3. RequestsStand
    BY DEF R!Init, RequestsStand, Standing, Apart, Requests, R!Idle, Claiming, Minting, Enrolling
  <2>4. InvitationsStand
    BY DEF R!Init, InvitationsStand, R!InvitationsStand, R!AcceptedMeansAccount, R!RevokedStaysOut
  <2> QED BY <2>2, <2>3, <2>4 DEF RegistrationInv
<1>2. RegistrationInv /\ [R!Next]_(R!vars) => RegistrationInv'
  <2> SUFFICES ASSUME RegistrationInv, [R!Next]_(R!vars) PROVE RegistrationInv' OBVIOUS
  <2>1. ASSUME NEW c \in Clients, R!Step(c) PROVE RegistrationInv'
    BY <2>1, AsksKeepRegistration, ClaimsKeepRegistration, InsertsKeepRegistration,
       CommitMintKeepsRegistration, CommitEnrolKeepsRegistration DEF R!Step
  <2>2. CASE UNCHANGED R!vars
    BY <2>2 DEF R!vars, RegistrationInv, TablesStand, RequestsStand, InvitationsStand,
       Standing, Apart, Claiming, Minting, Enrolling,
       R!InvitationsStand, R!AcceptedMeansAccount, R!RevokedStaysOut
  <2> QED BY <2>1, <2>2, EndsKeepRegistration DEF R!Next
<1>3. RegistrationInv => InvitationsStand BY DEF RegistrationInv
<1> QED BY <1>1, <1>2, <1>3, PTL DEF R!Spec
===============================================================================
