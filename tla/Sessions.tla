---- MODULE Sessions ----
(***************************************************************************)
(* AuthService, for one user: the lockout of the account, then logging in, *)
(* rotating a refresh token, logging out and changing the password.        *)
(* login reads the user once, and the failed attempts that are stored are  *)
(* those that were read and one more.  A token is checked in the table and *)
(* then in Redis, revoked in the table and then in Redis, and only then    *)
(* replaced.  login does not look at is_active; refresh does.              *)
(***************************************************************************)
EXTENDS Requests

(***************************************************************************)
(* The lockout.                                                            *)
(***************************************************************************)

CONSTANTS
  MaxFailedAttempts,  \* MAX_FAILED_ATTEMPTS
  MaxFailures         \* bound: wrong passwords in a row

ASSUME LockoutAssumption ==
  /\ MaxFailedAttempts \in Nat \ {0}
  /\ MaxFailures \in Nat

VARIABLES
  attempts,      \* failed_attempts of the user
  lockedUntil,   \* whether locked_until is in the future
  loginReq,      \* the request of each client
  failures,      \* wrong passwords since the last right one
  wasLocked,     \* the account was locked since then
  failuresMixed  \* a login stored attempts over attempts it had not seen

lockoutVars == <<attempts, lockedUntil, loginReq, failures, wasLocked, failuresMixed>>

LockoutInit ==
  /\ attempts = 0
  /\ lockedUntil = FALSE
  /\ loginReq = [c \in Clients |-> Idle]
  /\ failures = 0
  /\ wasLocked = FALSE
  /\ failuresMixed = FALSE

\* login reads the user, and the password is checked against what was read.
ReadUser(c) ==
  /\ loginReq[c] = Idle
  /\ ~lockedUntil
  /\ \E op \in {"fail", "reset"} :
       loginReq' = [loginReq EXCEPT ![c] = [op |-> op, seen |-> attempts, stale |-> FALSE]]
  /\ UNCHANGED <<attempts, lockedUntil, failures, wasLocked, failuresMixed>>

\* Mutant: the account is locked one attempt late.
LocksLate(n) == n > MaxFailedAttempts

\* The attempts that lock the account.
Locks(n) == n >= MaxFailedAttempts

\* A wrong password: one more than the attempts that were read.
CountFailure(c) ==
  /\ loginReq[c].op = "fail"
  /\ failures < MaxFailures /\ loginReq[c].seen < MaxFailures
  /\ attempts' = loginReq[c].seen + 1
  /\ lockedUntil' = (lockedUntil \/ Locks(attempts'))
  /\ wasLocked' = (wasLocked \/ Locks(attempts'))
  /\ failures' = failures + 1
  /\ failuresMixed' = (failuresMixed \/ loginReq[c].stale)
  /\ loginReq' = Overtake(loginReq, c, Idle, LAMBDA d : TRUE)

\* The right password resets attempts and lock, also when a second factor is then asked
\* for or is wrong.
ResetAttempts(c) ==
  /\ loginReq[c].op = "reset"
  /\ attempts' = 0
  /\ lockedUntil' = FALSE
  /\ failures' = 0
  /\ wasLocked' = FALSE
  /\ failuresMixed' = FALSE
  /\ loginReq' = Overtake(loginReq, c, Idle, LAMBDA d : TRUE)

\* lockedUntil passes.  The failed attempts stay.
UnlockByTime ==
  /\ lockedUntil
  /\ lockedUntil' = FALSE
  /\ UNCHANGED <<attempts, loginReq, failures, wasLocked, failuresMixed>>

\* The process dies.
DropLogin(c) ==
  /\ loginReq[c] # Idle
  /\ loginReq' = [loginReq EXCEPT ![c] = Idle]
  /\ UNCHANGED <<attempts, lockedUntil, failures, wasLocked, failuresMixed>>

LockoutNext ==
  \/ UnlockByTime
  \/ \E c \in Clients :
       \/ ReadUser(c)
       \/ CountFailure(c)
       \/ ResetAttempts(c)
       \/ DropLogin(c)

LockoutSpec == LockoutInit /\ [][LockoutNext]_lockoutVars

LockoutTypeOK ==
  /\ {attempts, failures} \subseteq 0..MaxFailures
  /\ {lockedUntil, wasLocked, failuresMixed} \subseteq BOOLEAN
  /\ loginReq \in [Clients -> {Idle} \cup
       [op : {"fail", "reset"}, seen : 0..MaxFailures, stale : BOOLEAN]]

\* The failed attempts are the wrong passwords since the last right one, and enough of them
\* have locked the account, unless two logins had read the same number
\* (AuthService.login).
FailuresAreCounted ==
  \/ failuresMixed
  \/ /\ attempts = failures
     /\ failures >= MaxFailedAttempts => wasLocked

(***************************************************************************)
(* The sessions, of a user who is let in.                                  *)
(***************************************************************************)

CONSTANTS
  Tokens,            \* rows of sys.refresh_tokens
  MaxPasswordChanges  \* bound: changes and resets of the password

ASSUME SessionsAssumption == MaxPasswordChanges \in Nat

VARIABLES
  active,      \* is_active of the user
  passwords,   \* how often the password was changed or reset
  changedAt,   \* which of these passwords the last changePassword set
  token,       \* each refresh token
  blacklist,   \* tokens on the blacklist in Redis
  sessionReq,  \* the request of each client
  reused       \* tokens two refreshes had found valid before either blacklisted it

sessionVars ==
  <<active, passwords, changedAt, token, blacklist, sessionReq, reused>>

NoToken == [status |-> "none", parent |-> NoRow, password |-> 0, late |-> FALSE]

SessionsInit ==
  /\ active = TRUE
  /\ passwords = 0
  /\ changedAt = 0
  /\ token = [t \in Tokens |-> NoToken]
  /\ blacklist = {}
  /\ sessionReq = [c \in Clients |-> Idle]
  /\ reused = {}

\* A request: the token it works on and the password it was let in by.
SessionReq(op, kind, row, password) ==
  [op |-> op, kind |-> kind, row |-> row, password |-> password, stale |-> FALSE]

Continue(c, op) == sessionReq' = [sessionReq EXCEPT ![c].op = op]

\* login has read the user and found the password right.
LogIn(c) ==
  /\ sessionReq[c] = Idle
  /\ sessionReq' = [sessionReq EXCEPT ![c] = SessionReq("issue", "login", NoRow, passwords)]
  /\ UNCHANGED <<active, passwords, changedAt, token, blacklist, reused>>

\* The row has not been revoked and has not expired.
Usable(t) == token[t].status = "live"

\* refresh, and blacklistToken on logout, look the token up.
FindToken(c) ==
  /\ sessionReq[c] = Idle
  /\ \E t \in Tokens, kind \in {"refresh", "logout"} :
       /\ Usable(t)
       /\ sessionReq' = [sessionReq EXCEPT ![c] =
            SessionReq(IF kind = "refresh" THEN "check" ELSE "revoke", kind, t, token[t].password)]
  /\ UNCHANGED <<active, passwords, changedAt, token, blacklist, reused>>

\* Mutant: the check in Redis is left out.
AcceptedAlways(t) == TRUE

\* refresh asks Redis as well.
Accepted(t) == t \notin blacklist

CheckBlacklist(c) ==
  /\ sessionReq[c].op = "check"
  /\ Accepted(sessionReq[c].row)
  /\ Continue(c, "revoke")
  /\ UNCHANGED <<active, passwords, changedAt, token, blacklist, reused>>

RevokeToken(c) ==
  /\ sessionReq[c].op = "revoke"
  /\ token' = [token EXCEPT ![sessionReq[c].row].status = "revoked"]
  /\ Continue(c, "blacklist")
  /\ UNCHANGED <<active, passwords, changedAt, blacklist, reused>>

\* Refreshes of a token that have passed both checks of it.
PastChecks(t) ==
  {d \in Clients : /\ sessionReq[d].row = t
                   /\ sessionReq[d].kind = "refresh"
                   /\ sessionReq[d].op \in {"revoke", "blacklist", "load", "issue"}}

BlacklistToken(c) ==
  /\ sessionReq[c].op = "blacklist"
  /\ LET r == sessionReq[c]
     IN /\ blacklist' = blacklist \cup {r.row}
        /\ sessionReq' = Overtake(sessionReq, c,
             IF r.kind = "refresh" THEN [r EXCEPT !.op = "load"] ELSE Idle,
             LAMBDA d : d \in PastChecks(r.row))
  /\ UNCHANGED <<active, passwords, changedAt, token, reused>>

\* The user must be active; otherwise the token has been revoked for nothing.
LoadUser(c) ==
  /\ sessionReq[c].op = "load"
  /\ active
  /\ Continue(c, "issue")
  /\ UNCHANGED <<active, passwords, changedAt, token, blacklist, reused>>

\* generateTokens stores the new refresh token.
IssueToken(c) ==
  /\ sessionReq[c].op = "issue"
  /\ LET r == sessionReq[c]
     IN /\ \E t \in Tokens :
             /\ token[t] = NoToken
             /\ token' = [token EXCEPT ![t] =
                  [status |-> "live", parent |-> r.row, password |-> r.password,
                   late |-> r.password < changedAt]]
        /\ reused' = IF r.stale THEN reused \cup {r.row} ELSE reused
  /\ sessionReq' = [sessionReq EXCEPT ![c] = Idle]
  /\ UNCHANGED <<active, passwords, changedAt, blacklist>>

\* expiresAt passes.
ExpireToken ==
  /\ \E t \in Tokens :
       /\ token[t].status = "live"
       /\ token' = [token EXCEPT ![t].status = "expired"]
  /\ UNCHANGED <<active, passwords, changedAt, blacklist, sessionReq, reused>>

\* changePassword reads the user and checks the current password.
ReadPassword(c) ==
  /\ sessionReq[c] = Idle
  /\ passwords < MaxPasswordChanges
  /\ sessionReq' = [sessionReq EXCEPT ![c] = SessionReq("change", "change", NoRow, passwords)]
  /\ UNCHANGED <<active, passwords, changedAt, token, blacklist, reused>>

\* Mutant: only the password is changed.
RevokedByNothing(t) == FALSE

\* The tokens updateMany revokes: revokedAt is null.
RevokedByChange(t) == token[t].status = "live"

ChangePassword(c) ==
  /\ sessionReq[c].op = "change"
  /\ passwords < MaxPasswordChanges
  /\ passwords' = passwords + 1
  /\ changedAt' = passwords + 1
  /\ token' = [t \in Tokens |->
       IF RevokedByChange(t) THEN [token[t] EXCEPT !.status = "revoked"] ELSE token[t]]
  /\ sessionReq' = [sessionReq EXCEPT ![c] = Idle]
  /\ UNCHANGED <<active, blacklist, reused>>

\* UsersService.update sets a password, is_active or both, softDelete clears is_active: both
\* leave the tokens alone.
UpdateUser ==
  /\ \E next \in BOOLEAN, reset \in {0, 1} :
       /\ next # active \/ reset = 1
       /\ passwords + reset <= MaxPasswordChanges
       /\ active' = next
       /\ passwords' = passwords + reset
  /\ UNCHANGED <<changedAt, token, blacklist, sessionReq, reused>>

\* A request is refused or fails, or its process dies.
DropSessionRequest(c) ==
  /\ sessionReq[c] # Idle
  /\ sessionReq' = [sessionReq EXCEPT ![c] = Idle]
  /\ UNCHANGED <<active, passwords, changedAt, token, blacklist, reused>>

SessionsNext ==
  \/ ExpireToken
  \/ UpdateUser
  \/ \E c \in Clients :
       \/ LogIn(c)
       \/ FindToken(c)
       \/ CheckBlacklist(c)
       \/ RevokeToken(c)
       \/ BlacklistToken(c)
       \/ LoadUser(c)
       \/ IssueToken(c)
       \/ ReadPassword(c)
       \/ ChangePassword(c)
       \/ DropSessionRequest(c)

SessionsSpec == SessionsInit /\ [][SessionsNext]_sessionVars

SessionRequests ==
  [op : {"issue", "check", "revoke", "blacklist", "load", "change"},
   kind : {"login", "refresh", "logout", "change"}, row : Tokens \cup {NoRow},
   password : 0..MaxPasswordChanges, stale : BOOLEAN]

SessionsTypeOK ==
  /\ active \in BOOLEAN
  /\ {passwords, changedAt} \subseteq 0..MaxPasswordChanges
  /\ token \in [Tokens -> [status : {"none", "live", "revoked", "expired"}, parent : Tokens \cup {NoRow},
                           password : 0..MaxPasswordChanges, late : BOOLEAN]]
  /\ blacklist \subseteq Tokens
  /\ sessionReq \in [Clients -> {Idle} \cup SessionRequests]
  /\ reused \subseteq Tokens \cup {NoRow}

\* A refresh token is replaced by one other token, unless two refreshes passed both checks
\* before either had put it on the blacklist (AuthService.refresh).
TokenRotatesOnce ==
  \A t, u \in Tokens :
    t # u /\ token[t].parent = token[u].parent /\ token[t].parent # NoRow
      => token[t].parent \in reused

\* A session that was opened with an older password than the user has set with
\* changePassword is over: its refresh token is revoked, unless a request was under way and
\* stored a new one after the change.  A password that UsersService.update sets ends no
\* session (changePassword).
OldSessionsEnd ==
  \A t \in Tokens :
    token[t].status = "live" /\ token[t].password < changedAt => token[t].late
====
