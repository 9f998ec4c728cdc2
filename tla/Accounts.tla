------------------------------ MODULE Accounts ------------------------------
(***************************************************************************)
(* Users, administrators and sessions: the tables users and sessions, the  *)
(* login transaction RecordUserLogin, completeLogin around it, logouts,    *)
(* and the handlers that promote and demote administrators.                *)
(*                                                                         *)
(* RecordUserLogin runs in a deferred transaction.  In SQLite's WAL mode   *)
(* it sees the database as of its first SELECT, takes the only write lock  *)
(* with its first write, and is refused that with SQLITE_BUSY_SNAPSHOT     *)
(* when anybody else has committed a change in between.  Every other       *)
(* statement is a transaction of its own.                                  *)
(*                                                                         *)
(* Abstractions: an account is its OIDC subject; names and e-mail          *)
(* addresses are not told apart; the rows that are older than accounts     *)
(* stand for one row, since one transaction claims them all.               *)
(***************************************************************************)
EXTENDS Integers, FiniteSets

CONSTANTS
  Subjects,         \* identities that the identity provider vouches for
  Requests,         \* goroutines that serve HTTP requests
  Tokens,           \* session tokens picoshare.NewSessionToken can draw
  SessionLifetime,  \* sessionLifetime, in units of the clock
  MaxTime,          \* BOUND: the last instant of the clock
  NULL              \* SQL's NULL

ASSUME ConstantsAssumption ==
  /\ NULL \notin Subjects \cup Requests \cup Tokens
  /\ NULL \notin [user: Subjects, expires: Nat]
  /\ SessionLifetime \in Nat \ {0}
  /\ MaxTime \in Nat

VARIABLES
  now,          \* the clock
  members,      \* table users: the subjects that have a row
  admins,       \* those whose row has is_admin set
  legacyOwner,  \* owner_user_id of the rows that predate accounts
  sessions,     \* table sessions: token -> row, NULL where there is no row
  req,          \* the local state of every request goroutine
  writer,       \* the request whose transaction holds the write lock
  drawn         \* history: the session tokens drawn so far

users == <<members, admins, legacyOwner>>

vars == <<now, users, sessions, req, writer, drawn>>

Session == [user: Subjects, expires: Nat]

(***************************************************************************)
(* What a request is about to do.  "snapshot" and "locked": first write    *)
(* and commit of RecordUserLogin; "oldSession", "newSession": the rest of  *)
(* completeLogin; "logout": authDelete; "grant", "revoke": the store call  *)
(* of a handler that requireAdmin let pass; "reason": the second statement *)
(* of RevokeAdmin; "refused": answer with LastAdminError.                  *)
(***************************************************************************)
Op == {"idle", "snapshot", "locked", "oldSession", "newSession", "logout",
       "grant", "revoke", "reason", "refused"}

\* found, first: what the transaction read; stale: somebody has committed
\* since.  sole is history: subject was the only administrator at some moment
\* of the demotion.
Request == [op: Op, subject: Subjects \cup {NULL}, cookie: Tokens \cup {NULL},
            found: BOOLEAN, first: BOOLEAN, stale: BOOLEAN, sole: BOOLEAN]

Idle == [op |-> "idle", subject |-> NULL, cookie |-> NULL, found |-> FALSE,
         first |-> FALSE, stale |-> FALSE, sole |-> FALSE]

TypeOK ==
  /\ now \in 0..MaxTime
  /\ members \subseteq Subjects
  /\ admins \subseteq members
  /\ legacyOwner \in Subjects \cup {NULL}
  /\ sessions \in [Tokens -> Session \cup {NULL}]
  /\ req \in [Requests -> Request]
  /\ writer \in Requests \cup {NULL}
  /\ drawn \subseteq Tokens

\* Nobody has logged in since accounts were introduced.
Init ==
  /\ now = 0
  /\ members = {}
  /\ admins = {}
  /\ legacyOwner = NULL
  /\ sessions = [t \in Tokens |-> NULL]
  /\ req = [r \in Requests |-> Idle]
  /\ writer = NULL
  /\ drawn = {}

-----------------------------------------------------------------------------
(***************************************************************************)
(* SQLite                                                                  *)
(***************************************************************************)

\* The state of the requests after r commits a change and goes on as next:
\* every snapshot taken before is out of date.  (So it is here after a
\* statement that affected no rows, which only makes a login fail that may
\* fail in any case.)
Committed(r, next) ==
  [q \in Requests |->
     IF q = r THEN next
     ELSE IF req[q].op = "snapshot" THEN [req[q] EXCEPT !.stale = TRUE]
     ELSE req[q]]

\* A statement outside any transaction waits for the write lock.
LockIsFree == writer = NULL

\* Mutant: the transaction reads what is committed, as if it had no snapshot.
MayLock_AnySnapshot(r) == LockIsFree

MayLock(r) == LockIsFree /\ ~req[r].stale

Answer(r) == req' = [req EXCEPT ![r] = Idle]

-----------------------------------------------------------------------------
(***************************************************************************)
(* Logins and logouts.  A browser sends the cookie it has: any token drawn *)
(* so far, or none.                                                        *)
(***************************************************************************)
Cookies == drawn \cup {NULL}

\* oidcCallbackGet has verified the identity; RecordUserLogin runs its SELECTs.
LoginReads(r, s, cookie) ==
  /\ req[r].op = "idle"
  /\ req' = [req EXCEPT ![r] = [Idle EXCEPT !.op = "snapshot", !.subject = s,
                                            !.cookie = cookie,
                                            !.found = s \in members,
                                            !.first = members = {}]]
  /\ UNCHANGED <<now, users, sessions, writer, drawn>>

\* Its first INSERT or UPDATE obtains the lock.
LoginWrites(r) ==
  /\ req[r].op = "snapshot"
  /\ MayLock(r)
  /\ writer' = r
  /\ req' = [req EXCEPT ![r].op = "locked"]
  /\ UNCHANGED <<now, users, sessions, drawn>>

\* The COMMIT: a new account, made administrator and given the rows without
\* an owner if it is the first; nothing that matters here for an old one.
LoginCommits(r) ==
  LET s == req[r].subject
      isAdmin == ~req[r].found /\ req[r].first
  IN  /\ req[r].op = "locked"
      /\ writer' = NULL
      /\ members' = members \cup {s}
      /\ admins' = IF isAdmin THEN admins \cup {s} ELSE admins
      /\ legacyOwner' =
           IF isAdmin /\ legacyOwner = NULL THEN s ELSE legacyOwner
      /\ req' = Committed(r, [Idle EXCEPT !.op = "oldSession", !.subject = s,
                                          !.cookie = req[r].cookie])
      /\ UNCHANGED <<now, sessions, drawn>>

\* Mutant: the deferred tx.Rollback is missing.
WriterAfterRollback_Leaked(r) == writer

WriterAfterRollback(r) == IF writer = r THEN NULL ELSE writer

\* SQLITE_BUSY_SNAPSHOT, SQLITE_BUSY or any other error: the transaction is
\* rolled back and the login answered with 500.
LoginFails(r) ==
  /\ req[r].op \in {"snapshot", "locked"}
  /\ writer' = WriterAfterRollback(r)
  /\ Answer(r)
  /\ UNCHANGED <<now, users, sessions, drawn>>

\* completeLogin revokes the session of the cookie, and goes on if it fails.
RevokeOldSession(r) ==
  /\ req[r].op = "oldSession"
  /\ \/ /\ req[r].cookie # NULL
        /\ LockIsFree
        /\ sessions' = [sessions EXCEPT ![req[r].cookie] = NULL]
        /\ req' = Committed(r, [req[r] EXCEPT !.op = "newSession"])
     \/ /\ req' = [req EXCEPT ![r].op = "newSession"]
        /\ UNCHANGED sessions
  /\ UNCHANGED <<now, users, writer, drawn>>

\* InsertSession; the answer sets the cookie.  NewSessionToken draws 256 random
\* bits: never a token twice.
InsertSession(r, t) ==
  /\ req[r].op = "newSession"
  /\ LockIsFree
  /\ t \notin drawn
  /\ sessions' = [sessions EXCEPT ![t] = [user |-> req[r].subject,
                                          expires |-> now + SessionLifetime]]
  /\ drawn' = drawn \cup {t}
  /\ req' = Committed(r, Idle)
  /\ UNCHANGED <<now, users, writer>>

InsertSessionFails(r) ==
  /\ req[r].op = "newSession"
  /\ Answer(r)
  /\ UNCHANGED <<now, users, sessions, writer, drawn>>

\* A DELETE /api/auth arrives; loadSession changes nothing.
Logout(r, cookie) ==
  /\ req[r].op = "idle"
  /\ req' = [req EXCEPT ![r] = [Idle EXCEPT !.op = "logout",
                                            !.cookie = cookie]]
  /\ UNCHANGED <<now, users, sessions, writer, drawn>>

\* authDelete's DeleteSession.  Its failure is only logged.
AuthDelete(r) ==
  /\ req[r].op = "logout"
  /\ \/ /\ req[r].cookie # NULL
        /\ LockIsFree
        /\ sessions' = [sessions EXCEPT ![req[r].cookie] = NULL]
        /\ req' = Committed(r, Idle)
     \/ Answer(r) /\ UNCHANGED sessions
  /\ UNCHANGED <<now, users, writer, drawn>>

-----------------------------------------------------------------------------
(***************************************************************************)
(* Administrators                                                          *)
(***************************************************************************)

\* GetSessionUser finds a user: the session exists and has not expired.
Usable(t) == sessions[t] # NULL /\ sessions[t].expires > now

\* loadSession and requireAdmin let a request pass; memberRevokeAdminPut
\* refuses to demote the viewer himself.
RequireAdmin(r, cookie, target, op) ==
  /\ req[r].op = "idle"
  /\ Usable(cookie)
  /\ sessions[cookie].user \in admins
  /\ op \in {"grant", "revoke"}
  /\ op = "revoke" => target # sessions[cookie].user
  /\ req' = [req EXCEPT ![r] = [Idle EXCEPT !.op = op, !.subject = target,
                                            !.cookie = cookie]]
  /\ UNCHANGED <<now, users, sessions, writer, drawn>>

\* Whoever is demoted at this moment notices that he is the last one.
NoteSole(requests) ==
  [r \in Requests |->
     IF requests[r].op = "reason" /\ admins' = {requests[r].subject}
     THEN [requests[r] EXCEPT !.sole = TRUE] ELSE requests[r]]

\* Mutant: an id that is not in the table gets a row.
Granted_Anyone(s) == admins \cup {s}

\* UPDATE users SET is_admin = 1 WHERE id = :id
Granted(s) == admins \cup ({s} \cap members)

GrantAdmin(r) ==
  /\ req[r].op = "grant"
  /\ LockIsFree
  /\ admins' = Granted(req[r].subject)
  /\ req' = NoteSole(Committed(r, Idle))
  /\ UNCHANGED <<now, members, legacyOwner, sessions, writer, drawn>>

\* Mutant: all users are counted instead of the administrators.
MayRevoke_CountsUsers(s) == s \in admins /\ Cardinality(members) > 1

\* The WHERE clause of RevokeAdmin.
MayRevoke(s) == s \in admins /\ Cardinality(admins) > 1

\* RevokeAdmin's UPDATE: rows were affected, or the reason is to be found.
RevokeAdmin(r) ==
  LET s == req[r].subject
  IN  /\ req[r].op = "revoke"
      /\ LockIsFree
      /\ IF MayRevoke(s)
         THEN /\ admins' = admins \ {s}
              /\ req' = NoteSole(Committed(r, Idle))
         ELSE /\ req' = [req EXCEPT ![r].op = "reason",
                                    ![r].sole = admins = {s}]
              /\ UNCHANGED admins
      /\ UNCHANGED <<now, members, legacyOwner, sessions, writer, drawn>>

\* RevokeAdmin's SELECT: no such user, not an administrator, or the last one.
RevokeReason(r) ==
  /\ req[r].op = "reason"
  /\ IF req[r].subject \in admins
     THEN req' = [req EXCEPT ![r].op = "refused"]
     ELSE Answer(r)
  /\ UNCHANGED <<now, users, sessions, writer, drawn>>

\* respondToMemberStoreError
AnswerLastAdmin(r) ==
  /\ req[r].op = "refused"
  /\ Answer(r)
  /\ UNCHANGED <<now, users, sessions, writer, drawn>>

\* One of the statements fails.
MemberStoreFails(r) ==
  /\ req[r].op \in {"grant", "revoke", "reason"}
  /\ Answer(r)
  /\ UNCHANGED <<now, users, sessions, writer, drawn>>

-----------------------------------------------------------------------------
(***************************************************************************)
(* Everything else                                                         *)
(***************************************************************************)

\* Mutant: the purge looks one unit of time ahead.
ExpiredSessions_TooEarly ==
  {t \in Tokens : sessions[t] # NULL /\ sessions[t].expires <= now + 1}

ExpiredSessions ==
  {t \in Tokens : sessions[t] # NULL /\ sessions[t].expires <= now}

\* Purge's deleteExpiredSessions.
DeleteExpiredSessions ==
  /\ LockIsFree
  /\ ExpiredSessions # {}
  /\ sessions' = [t \in Tokens |->
                    IF t \in ExpiredSessions THEN NULL ELSE sessions[t]]
  /\ req' = Committed(NULL, Idle)
  /\ UNCHANGED <<now, users, writer, drawn>>

\* An upload, a download or any other request commits a change of its own.
OtherWrite ==
  /\ LockIsFree
  /\ req' = Committed(NULL, Idle)
  /\ UNCHANGED <<now, users, sessions, writer, drawn>>

\* The process dies and starts again: open transactions are rolled back.
Restart ==
  /\ req' = [r \in Requests |-> Idle]
  /\ writer' = NULL
  /\ UNCHANGED <<now, users, sessions, drawn>>

\* BOUND: the clock stops at MaxTime.
Tick ==
  /\ now < MaxTime
  /\ now' = now + 1
  /\ UNCHANGED <<users, sessions, req, writer, drawn>>

LoginStep(r) ==
  \/ \E s \in Subjects, cookie \in Cookies : LoginReads(r, s, cookie)
  \/ LoginWrites(r)
  \/ LoginCommits(r)
  \/ LoginFails(r)
  \/ RevokeOldSession(r)
  \/ \E t \in Tokens : InsertSession(r, t)
  \/ InsertSessionFails(r)
  \/ \E cookie \in Cookies : Logout(r, cookie)
  \/ AuthDelete(r)

MemberStep(r) ==
  \/ \E cookie \in drawn, target \in Subjects, op \in {"grant", "revoke"} :
       RequireAdmin(r, cookie, target, op)
  \/ GrantAdmin(r)
  \/ RevokeAdmin(r)
  \/ RevokeReason(r)
  \/ AnswerLastAdmin(r)
  \/ MemberStoreFails(r)

Next ==
  \/ \E r \in Requests : LoginStep(r) \/ MemberStep(r)
  \/ DeleteExpiredSessions
  \/ OtherWrite
  \/ Restart
  \/ Tick

Spec == Init /\ [][Next]_vars

\* The login that holds the write lock gives it back.
TransactionEnds ==
  \E r \in Requests : writer = r /\ (LoginCommits(r) \/ LoginFails(r))

(***************************************************************************)
(* The scheduler starts purges again and again.  One may find the database *)
(* locked, fail or be cut off by a crash, but its deletion of sessions is  *)
(* carried out in the end if it is possible again and again.  A login that *)
(* has written goes on to its COMMIT or its rollback: it waits for nobody. *)
(* Clients, the clock and crashes are under no obligation.                 *)
(***************************************************************************)
FairSpec ==
  /\ Spec
  /\ SF_vars(DeleteExpiredSessions)
  /\ WF_vars(TransactionEnds)

-----------------------------------------------------------------------------
(***************************************************************************)
(* Properties                                                              *)
(***************************************************************************)

\* Once somebody has an account there is an administrator, although several
\* of them may demote each other at the same time (RevokeAdmin).
SomeAdministrator == members # {} => admins # {}

Directory == INSTANCE UserDirectory WITH
  members <- members, admins <- admins, legacyOwner <- legacyOwner

\* Overlapping, aborted and interrupted logins, promotions and demotions
\* have the effect of some sequence of atomic ones: in particular, no two
\* users become the first one (isFirstUser), and the rows without an owner
\* are claimed once, by him.
ImplementsDirectory == Directory!Spec

\* A session that GetSessionUser still accepts ends only by a logout or a
\* new login with the same cookie, and never by a purge.
SessionsEndByTheirHolder ==
  [][\A t \in Tokens :
       Usable(t) /\ sessions'[t] = NULL =>
         \E r \in Requests : /\ req[r].op \in {"logout", "oldSession"}
                             /\ req[r].cookie = t]_vars

\* Under FairSpec: a session that GetSessionUser no longer accepts is deleted
\* in the end (cleanup.go: Purge deletes expired sessions), although purges
\* fail, wait for the write lock that logins take from them, and the process
\* crashes.  None is unusable and kept: GetSessionUser and
\* deleteExpiredSessions draw the same line.
ExpiredSessionsGo ==
  \A t \in Tokens :
    sessions[t] # NULL /\ ~Usable(t) ~> sessions[t] = NULL

(***************************************************************************)
(* What the repository says of itself and the code does not do             *)
(***************************************************************************)

\* store.go: "LastAdminError occurs when an operation would leave PicoShare
\* with no administrators", so at some moment of it the user to be demoted
\* was the only one.
LastAdminErrorIsTrue ==
  \A r \in Requests : req[r].op = "refused" => req[r].sole

=============================================================================
