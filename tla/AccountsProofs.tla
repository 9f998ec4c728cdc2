--------------------------- MODULE AccountsProofs ---------------------------
(***************************************************************************)
(* Theorems about Accounts, for any number of identities, requests and     *)
(* session tokens.  The argument: a login that holds the write lock has    *)
(* read the table users as it is now, so its COMMIT is one atomic login.   *)
(***************************************************************************)
EXTENDS Accounts, FiniteSetTheorems, TLAPS

\* Somebody inherited the rows without an owner exactly when somebody has an
\* account, and then there is an administrator.
Founded ==
  /\ legacyOwner = NULL <=> members = {}
  /\ members # {} => admins # {}

\* What a login has read is still true, unless it knows better.
Current(r) ==
  req[r].op = "locked" \/ (req[r].op = "snapshot" /\ ~req[r].stale) =>
    /\ req[r].found <=> req[r].subject \in members
    /\ req[r].first <=> members = {}

RequestState(r) ==
  /\ req[r].op \notin {"idle", "logout"} => req[r].subject \in Subjects
  /\ req[r].op = "locked" => writer = r
  /\ Current(r)

Inv ==
  /\ TypeOK
  /\ Founded
  /\ \A r \in Requests : RequestState(r)

-----------------------------------------------------------------------------
\* The request is where it was, and its snapshot may have become outdated.
Undisturbed(r) ==
  /\ req'[r] \in Request
  /\ req'[r].op = req[r].op
  /\ req'[r].subject = req[r].subject
  /\ req'[r].found <=> req[r].found
  /\ req'[r].first <=> req[r].first
  /\ req[r].stale => req'[r].stale

\* Every request that read the table users knows that it has changed.
Outdated(r) == Undisturbed(r) /\ (req'[r].op = "snapshot" => req'[r].stale)

LEMMA IdleIsARequest == Idle \in Request /\ Idle.op = "idle"
BY DEF Idle, Request, Op

\* A commit outdates the snapshots of all other requests.
LEMMA CommitOutdates ==
  ASSUME TypeOK, NEW r, NEW next \in Request, req' = Committed(r, next)
  PROVE  /\ req' \in [Requests -> Request]
         /\ \A q \in Requests : q # r => Outdated(q)
         /\ r \in Requests => req'[r] = next
<1>1. ASSUME NEW q \in Requests
      PROVE  [req[q] EXCEPT !.stale = TRUE] \in Request
  BY DEF TypeOK, Request
<1> QED
  BY <1>1 DEF TypeOK, Committed, Outdated, Undisturbed, Request

\* The note that a request makes of being the last administrator's changes
\* nothing else.
LEMMA NotesOutdate ==
  ASSUME TypeOK, NEW r \in Requests, req' = NoteSole(Committed(r, Idle))
  PROVE  /\ req' \in [Requests -> Request]
         /\ \A q \in Requests : q # r => Outdated(q)
         /\ req'[r] = Idle
<1>1. \A q \in Requests : req[q] \in Request
  BY DEF TypeOK
<1>2. req'[r] = Idle
  BY IdleIsARequest DEF NoteSole, Committed
<1>3. ASSUME NEW q \in Requests, q # r
      PROVE  req'[q] \in Request /\ Outdated(q)
  <2>1. CASE req[q].op = "snapshot"
    <3>1. req'[q] = [req[q] EXCEPT !.stale = TRUE]
      BY <1>1, <1>3, <2>1 DEF NoteSole, Committed, Request
    <3> QED
      BY <1>1, <3>1 DEF Outdated, Undisturbed, Request
  <2>2. CASE req[q].op # "snapshot" /\ req'[q] # req[q]
    <3>1. req'[q] = [req[q] EXCEPT !.sole = TRUE]
      BY <1>1, <1>3, <2>2 DEF NoteSole, Committed
    <3> QED
      BY <1>1, <2>2, <3>1 DEF Outdated, Undisturbed, Request
  <2>3. CASE req[q].op # "snapshot" /\ req'[q] = req[q]
    BY <1>1, <2>3 DEF Outdated, Undisturbed
  <2> QED
    BY <2>1, <2>2, <2>3
<1>4. req' \in [Requests -> Request]
  BY <1>2, <1>3, IdleIsARequest DEF NoteSole
<1> QED
  BY <1>2, <1>3, <1>4

-----------------------------------------------------------------------------
(***************************************************************************)
(* Steps that leave the table users alone                                  *)
(***************************************************************************)

\* Enough to know is what becomes of the one request that moves.
LEMMA UsersUntouched ==
  ASSUME Inv, UNCHANGED users, NEW r,
         r \in Requests => req'[r] \in Request /\ RequestState(r)',
         \A q \in Requests : q # r =>
           Undisturbed(q) /\ (req[q].op = "locked" => writer' = writer),
         req' \in [Requests -> Request],
         now' \in 0..MaxTime, drawn' \subseteq Tokens,
         sessions' \in [Tokens -> Session \cup {NULL}],
         writer' \in Requests \cup {NULL}
  PROVE  Inv'
<1>1. TypeOK' /\ Founded'
  BY DEF Inv, TypeOK, Founded, users
<1>2. ASSUME NEW q \in Requests, q # r PROVE RequestState(q)'
  <2>1. req[q] \in Request /\ req'[q] \in Request
    BY DEF Inv, TypeOK
  <2> QED
    BY <1>2, <2>1 DEF Inv, RequestState, Current, Undisturbed, users, Request
<1> QED
  BY <1>1, <1>2 DEF Inv

\* The request that moves is the only one that changes.
LEMMA RequestMoves ==
  ASSUME Inv, UNCHANGED <<now, users, sessions, writer, drawn>>,
         NEW r \in Requests, NEW next \in Request,
         req' = [req EXCEPT ![r] = next], RequestState(r)'
  PROVE  Inv'
<1>1. /\ req' \in [Requests -> Request]
      /\ req'[r] = next
      /\ \A q \in Requests : q # r => Undisturbed(q)
  BY DEF Inv, TypeOK, Undisturbed
<1> QED
  BY <1>1, UsersUntouched DEF Inv, TypeOK

\* A login, a logout or a management request arrives, or RevokeAdmin is done.
LEMMA RequestsMove ==
  ASSUME Inv, NEW r \in Requests,
         \/ \E s \in Subjects, cookie \in Cookies : LoginReads(r, s, cookie)
         \/ InsertSessionFails(r)
         \/ \E cookie \in Cookies : Logout(r, cookie)
         \/ \E cookie \in drawn, target \in Subjects,
               op \in {"grant", "revoke"} : RequireAdmin(r, cookie, target, op)
         \/ RevokeReason(r)
         \/ AnswerLastAdmin(r)
         \/ MemberStoreFails(r)
  PROVE  Inv'
<1>1. /\ req \in [Requests -> Request] /\ req[r] \in Request
      /\ drawn \subseteq Tokens
  BY DEF Inv, TypeOK
<1>2. ASSUME NEW s \in Subjects, NEW cookie \in Cookies, LoginReads(r, s, cookie)
      PROVE  Inv'
  <2> DEFINE next == [Idle EXCEPT !.op = "snapshot", !.subject = s,
                                  !.cookie = cookie, !.found = s \in members,
                                  !.first = members = {}]
  <2>1. /\ next \in Request /\ next.op = "snapshot" /\ next.subject = s
        /\ next.found <=> s \in members
        /\ next.first <=> members = {}
    <3>1. ASSUME NEW found \in BOOLEAN, NEW first \in BOOLEAN
          PROVE  LET new == [Idle EXCEPT !.op = "snapshot", !.subject = s,
                                         !.cookie = cookie, !.found = found,
                                         !.first = first]
                 IN  /\ new \in Request /\ new.op = "snapshot"
                     /\ new.subject = s
                     /\ new.found = found
                     /\ new.first = first
      BY <1>1 DEF Idle, Request, Op, Cookies
    <3>2. (s \in members) \in BOOLEAN /\ (members = {}) \in BOOLEAN
      OBVIOUS
    <3> QED
      BY <3>1, <3>2, Zenon
  <2>2. req' = [req EXCEPT ![r] = next]
    BY <1>2 DEF LoginReads
  <2> HIDE DEF next
  <2>3. RequestState(r)'
    BY <1>1, <1>2, <2>1, <2>2 DEF RequestState, Current, LoginReads, users
  <2> QED
    BY <1>2, <2>1, <2>2, <2>3, RequestMoves DEF LoginReads
<1>3. ASSUME Answer(r), UNCHANGED <<now, users, sessions, writer, drawn>>
      PROVE  Inv'
  <2>1. RequestState(r)'
    BY <1>1, <1>3, IdleIsARequest DEF RequestState, Current, Answer
  <2> QED
    BY <1>3, <2>1, IdleIsARequest, RequestMoves DEF Answer
<1>4. ASSUME NEW cookie \in Cookies, Logout(r, cookie)
      PROVE  Inv'
  <2> DEFINE next == [Idle EXCEPT !.op = "logout", !.cookie = cookie]
  <2>1. next \in Request /\ next.op = "logout"
    BY <1>1 DEF Idle, Request, Op, Cookies
  <2>2. req' = [req EXCEPT ![r] = next]
    BY <1>4 DEF Logout
  <2> HIDE DEF next
  <2>3. RequestState(r)'
    BY <1>1, <2>1, <2>2 DEF RequestState, Current
  <2> QED
    BY <1>4, <2>1, <2>2, <2>3, RequestMoves DEF Logout
<1>5. ASSUME NEW cookie \in drawn, NEW target \in Subjects,
             NEW op \in {"grant", "revoke"},
             RequireAdmin(r, cookie, target, op)
      PROVE  Inv'
  <2> DEFINE next == [Idle EXCEPT !.op = op, !.subject = target,
                                  !.cookie = cookie]
  <2>1. next \in Request /\ next.op = op /\ next.subject = target
    BY <1>1 DEF Idle, Request, Op
  <2>2. req' = [req EXCEPT ![r] = next]
    BY <1>5 DEF RequireAdmin
  <2> HIDE DEF next
  <2>3. RequestState(r)'
    BY <1>1, <2>1, <2>2 DEF RequestState, Current
  <2> QED
    BY <1>5, <2>1, <2>2, <2>3, RequestMoves DEF RequireAdmin
<1>6. ASSUME RevokeReason(r), req[r].subject \in admins
      PROVE  Inv'
  <2> DEFINE next == [req[r] EXCEPT !.op = "refused"]
  <2>1. next \in Request /\ next.op = "refused" /\ next.subject = req[r].subject
    BY <1>1 DEF Request, Op
  <2>2. req' = [req EXCEPT ![r] = next]
    BY <1>1, <1>6 DEF RevokeReason
  <2>3. req[r].subject \in Subjects
    BY <1>6 DEF Inv, TypeOK
  <2> HIDE DEF next
  <2>4. RequestState(r)'
    BY <1>1, <2>1, <2>2, <2>3 DEF RequestState, Current
  <2> QED
    BY <1>6, <2>1, <2>2, <2>4, RequestMoves DEF RevokeReason
<1> QED
  BY <1>2, <1>3, <1>4, <1>5, <1>6
  DEF InsertSessionFails, RevokeReason, AnswerLastAdmin, MemberStoreFails

\* A login takes the write lock only when what it read is current.
LEMMA LoginWritesKeepsInv ==
  ASSUME Inv, NEW r \in Requests, LoginWrites(r)
  PROVE  Inv'
<1> DEFINE next == [req[r] EXCEPT !.op = "locked"]
<1>1. /\ req \in [Requests -> Request] /\ req[r] \in Request
      /\ req[r].op = "snapshot" /\ ~req[r].stale /\ writer = NULL
      /\ UNCHANGED <<now, users, sessions, drawn>> /\ writer' = r
  BY DEF Inv, TypeOK, LoginWrites, MayLock, LockIsFree
<1>2. /\ next \in Request /\ next.op = "locked"
      /\ next.subject = req[r].subject
      /\ next.found <=> req[r].found
      /\ next.first <=> req[r].first
  BY <1>1 DEF Request, Op
<1>3. req' = [req EXCEPT ![r] = next]
  BY <1>1 DEF LoginWrites
<1> HIDE DEF next
<1>4. RequestState(r)'
  BY <1>1, <1>2, <1>3 DEF Inv, RequestState, Current, users
<1>5. \A q \in Requests : q # r =>
        Undisturbed(q) /\ (req[q].op = "locked" => writer' = writer)
  BY <1>1, <1>3, ConstantsAssumption DEF Inv, RequestState, Undisturbed
<1>6. req' \in [Requests -> Request] /\ req'[r] \in Request
  BY <1>1, <1>2, <1>3
<1> QED
  BY <1>1, <1>4, <1>5, <1>6, UsersUntouched DEF Inv, TypeOK

\* A rollback releases the lock if the login has it.
LEMMA LoginFailsKeepsInv ==
  ASSUME Inv, NEW r \in Requests, LoginFails(r)
  PROVE  Inv'
<1>1. /\ req \in [Requests -> Request] /\ req' = [req EXCEPT ![r] = Idle]
      /\ UNCHANGED <<now, users, sessions, drawn>>
      /\ writer' = IF writer = r THEN NULL ELSE writer
  BY DEF Inv, TypeOK, LoginFails, WriterAfterRollback, Answer
<1>2. RequestState(r)'
  BY <1>1, IdleIsARequest DEF RequestState, Current
<1>3. \A q \in Requests : q # r =>
        Undisturbed(q) /\ (req[q].op = "locked" => writer' = writer)
  BY <1>1 DEF Inv, RequestState, Undisturbed
<1>4. req' \in [Requests -> Request] /\ req'[r] \in Request
  BY <1>1, IdleIsARequest
<1> QED
  BY <1>1, <1>2, <1>3, <1>4, UsersUntouched DEF Inv, TypeOK

\* The statements that change sessions only, or nothing modelled here.
LEMMA SessionStatements ==
  ASSUME Inv,
         \/ \E r \in Requests : RevokeOldSession(r) \/ AuthDelete(r)
         \/ \E r \in Requests, t \in Tokens : InsertSession(r, t)
         \/ DeleteExpiredSessions
         \/ OtherWrite
  PROVE  Inv'
<1>0. req \in [Requests -> Request] /\ TypeOK /\ (LockIsFree <=> writer = NULL)
  BY DEF Inv, TypeOK, LockIsFree
<1>1. ASSUME NEW r, NEW next \in Request, req' = Committed(r, next),
             r \in Requests =>
               next.op \notin {"snapshot", "locked"}
                 /\ (next.op # "idle" => next.subject \in Subjects),
             UNCHANGED <<now, users, writer>>, drawn' \subseteq Tokens,
             sessions' \in [Tokens -> Session \cup {NULL}]
      PROVE  Inv'
  <2>1. /\ req' \in [Requests -> Request]
        /\ \A q \in Requests : q # r => Undisturbed(q)
        /\ r \in Requests => req'[r] = next
    BY <1>0, <1>1, CommitOutdates DEF Outdated
  <2>2. r \in Requests => req'[r] \in Request /\ RequestState(r)'
    BY <1>1, <2>1 DEF RequestState, Current
  <2> QED
    BY <1>1, <2>1, <2>2, UsersUntouched DEF Inv, TypeOK
<1>2. ASSUME NEW r \in Requests, RevokeOldSession(r) PROVE Inv'
  <2> DEFINE next == [req[r] EXCEPT !.op = "newSession"]
  <2>1. next \in Request /\ next.op = "newSession"
        /\ next.subject = req[r].subject /\ req[r].subject \in Subjects
    BY <1>0, <1>2 DEF Request, Op, RevokeOldSession, Inv, RequestState
  <2>2. CASE /\ req[r].cookie # NULL
             /\ sessions' = [sessions EXCEPT ![req[r].cookie] = NULL]
             /\ req' = Committed(r, next)
    <3>1. sessions' \in [Tokens -> Session \cup {NULL}]
      BY <1>0, <2>2 DEF TypeOK
    <3> QED
      BY <1>0, <1>1, <1>2, <2>1, <2>2, <3>1 DEF RevokeOldSession, TypeOK
  <2>3. CASE req' = [req EXCEPT ![r].op = "newSession"] /\ UNCHANGED sessions
    <3>1. req' = [req EXCEPT ![r] = next]
      BY <1>0, <2>3
    <3> HIDE DEF next
    <3>2. RequestState(r)'
      BY <1>0, <2>1, <3>1 DEF RequestState, Current
    <3> QED
      BY <1>2, <2>1, <2>3, <3>1, <3>2, RequestMoves DEF RevokeOldSession
  <2> QED
    BY <1>2, <2>2, <2>3 DEF RevokeOldSession
<1>3. ASSUME NEW r \in Requests, AuthDelete(r) PROVE Inv'
  <2>1. CASE /\ req[r].cookie # NULL
             /\ sessions' = [sessions EXCEPT ![req[r].cookie] = NULL]
             /\ req' = Committed(r, Idle)
    <3>1. sessions' \in [Tokens -> Session \cup {NULL}]
      BY <1>0, <2>1 DEF TypeOK
    <3> QED
      BY <1>0, <1>1, <1>3, <2>1, <3>1, IdleIsARequest DEF AuthDelete, TypeOK
  <2>2. CASE Answer(r) /\ UNCHANGED sessions
    <3>1. RequestState(r)'
      BY <1>0, <2>2, IdleIsARequest DEF RequestState, Current, Answer
    <3> QED
      BY <1>3, <2>2, <3>1, IdleIsARequest, RequestMoves DEF Answer, AuthDelete
  <2> QED
    BY <1>3, <2>1, <2>2 DEF AuthDelete
<1>4. ASSUME NEW r \in Requests, NEW t \in Tokens, InsertSession(r, t)
      PROVE  Inv'
  <2>1. req[r].subject \in Subjects
    BY <1>4 DEF InsertSession, Inv, RequestState
  <2>2. now + SessionLifetime \in Nat
    BY <1>0, ConstantsAssumption DEF TypeOK
  <2>3. sessions' \in [Tokens -> Session \cup {NULL}]
    BY <1>0, <1>4, <2>1, <2>2 DEF TypeOK, InsertSession, Session
  <2> QED
    BY <1>0, <1>1, <1>4, <2>3, IdleIsARequest DEF InsertSession, TypeOK
<1>5. ASSUME DeleteExpiredSessions PROVE Inv'
  <2>1. sessions' \in [Tokens -> Session \cup {NULL}]
    BY <1>0, <1>5 DEF TypeOK, DeleteExpiredSessions
  <2> QED
    BY <1>0, <1>1, <1>5, <2>1, IdleIsARequest, ConstantsAssumption
    DEF DeleteExpiredSessions, TypeOK
<1>6. ASSUME OtherWrite PROVE Inv'
  BY <1>0, <1>1, <1>6, IdleIsARequest, ConstantsAssumption
  DEF OtherWrite, TypeOK
<1> QED
  BY <1>2, <1>3, <1>4, <1>5, <1>6

-----------------------------------------------------------------------------
(***************************************************************************)
(* Steps that change the table users                                       *)
(***************************************************************************)

\* The COMMIT of a login acts on the table it has read.
LEMMA LoginCommitsAtOnce ==
  ASSUME Inv, NEW r \in Requests, LoginCommits(r)
  PROVE  /\ Inv'
         /\ Directory!FirstLogin(req[r].subject) \/ Directory!Join(req[r].subject)
<1> DEFINE s == req[r].subject
           next == [Idle EXCEPT !.op = "oldSession", !.subject = s,
                                !.cookie = req[r].cookie]
<1>1. /\ req[r] \in Request /\ s \in Subjects /\ writer = r
      /\ req[r].found <=> s \in members
      /\ req[r].first <=> members = {}
  BY DEF Inv, TypeOK, RequestState, Current, LoginCommits
<1>2. next \in Request /\ next.op = "oldSession" /\ next.subject = s
  BY <1>1 DEF Idle, Request, Op
<1>3. /\ req' = Committed(r, next) /\ members' = members \cup {s}
      /\ writer' = NULL /\ UNCHANGED <<now, sessions, drawn>>
  BY DEF LoginCommits
<1> HIDE DEF next
<1>4. /\ req' \in [Requests -> Request] /\ req'[r] = next
      /\ \A q \in Requests : q # r => Outdated(q)
  BY <1>2, <1>3, CommitOutdates DEF Inv
<1>5. ASSUME members = {} PROVE Directory!FirstLogin(s)
  <2>1. /\ legacyOwner = NULL /\ admins = {}
        /\ legacyOwner' = s /\ admins' = {s} /\ members' = {s}
    BY <1>1, <1>5 DEF LoginCommits, Inv, Founded, TypeOK
  <2> QED
    BY <1>5, <2>1 DEF Directory!FirstLogin
<1>6. ASSUME members # {} PROVE Directory!Join(s)
  <2>1. UNCHANGED <<admins, legacyOwner>>
    BY <1>1, <1>6 DEF LoginCommits
  <2> QED
    BY <1>3, <1>6, <2>1 DEF Directory!Join
<1>7. TypeOK' /\ Founded'
  <2>1. CASE members = {}
    <3>1. /\ legacyOwner = NULL /\ admins = {}
          /\ legacyOwner' = s /\ admins' = {s} /\ members' = {s}
      BY <1>1, <2>1 DEF LoginCommits, Inv, Founded, TypeOK
    <3> QED
      BY <1>1, <1>3, <1>4, <3>1, ConstantsAssumption DEF Inv, TypeOK, Founded
  <2>2. CASE members # {}
    <3>1. UNCHANGED <<admins, legacyOwner>>
      BY <1>1, <2>2 DEF LoginCommits
    <3> QED
      BY <1>1, <1>3, <1>4, <2>2, <3>1 DEF Inv, TypeOK, Founded
  <2> QED
    BY <2>1, <2>2
<1>8. ASSUME NEW q \in Requests PROVE RequestState(q)'
  <2>1. CASE q = r
    BY <1>1, <1>2, <1>4, <2>1 DEF RequestState, Current
  <2>2. CASE q # r
    <3>1. /\ req'[q].op # "locked" /\ req'[q].subject = req[q].subject
          /\ req'[q].op = req[q].op
          /\ req'[q].op = "snapshot" => req'[q].stale
      BY <1>1, <1>4, <2>2 DEF Inv, RequestState, Outdated, Undisturbed
    <3> QED
      BY <3>1 DEF Inv, RequestState, Current
  <2> QED
    BY <2>1, <2>2
<1> QED
  BY <1>5, <1>6, <1>7, <1>8 DEF Inv

\* Promotions and demotions leave the rest of the table alone.
LEMMA AdminsChange ==
  ASSUME Inv, NEW r \in Requests, req' = NoteSole(Committed(r, Idle)),
         admins' \subseteq members, members # {} => admins' # {},
         UNCHANGED <<now, members, legacyOwner, sessions, writer, drawn>>
  PROVE  Inv'
<1>1. /\ req' \in [Requests -> Request] /\ req'[r] = Idle
      /\ \A q \in Requests : q # r => Outdated(q)
  BY NotesOutdate DEF Inv
<1>2. TypeOK' /\ Founded'
  BY <1>1 DEF Inv, TypeOK, Founded
<1>3. ASSUME NEW q \in Requests PROVE RequestState(q)'
  <2>1. CASE q = r
    BY <1>1, <2>1, IdleIsARequest DEF RequestState, Current
  <2>2. CASE q # r
    BY <1>1, <2>2
    DEF Inv, RequestState, Current, Outdated, Undisturbed
  <2> QED
    BY <2>1, <2>2
<1> QED
  BY <1>2, <1>3 DEF Inv

\* GrantAdmin's UPDATE affects users only.
LEMMA GrantAdminAtOnce ==
  ASSUME Inv, NEW r \in Requests, GrantAdmin(r)
  PROVE  Inv' /\ (Directory!Grant(req[r].subject) \/ UNCHANGED users)
<1>1. /\ admins' = admins \cup ({req[r].subject} \cap members)
      /\ admins \subseteq members
      /\ UNCHANGED <<now, members, legacyOwner, sessions, writer, drawn>>
  BY DEF Inv, TypeOK, GrantAdmin, Granted
<1>2. Inv'
  BY <1>1, AdminsChange DEF GrantAdmin, Inv, Founded
<1>3. Directory!Grant(req[r].subject) \/ UNCHANGED users
  BY <1>1 DEF Directory!Grant, users
<1> QED
  BY <1>2, <1>3

\* The count in RevokeAdmin's WHERE clause: somebody else is administrator.
LEMMA MayRevokeLeavesOne ==
  ASSUME NEW s, MayRevoke(s)
  PROVE  admins \ {s} # {}
<1>1. admins # {s}
  BY FS_Singleton DEF MayRevoke
<1> QED
  BY <1>1 DEF MayRevoke

\* RevokeAdmin's UPDATE demotes at once, or changes nothing.
LEMMA RevokeAdminAtOnce ==
  ASSUME Inv, NEW r \in Requests, RevokeAdmin(r)
  PROVE  Inv' /\ (Directory!Revoke(req[r].subject) \/ UNCHANGED users)
<1> DEFINE s == req[r].subject
<1>1. CASE MayRevoke(s)
  <2>1. /\ admins' = admins \ {s} /\ admins' # {}
        /\ req' = NoteSole(Committed(r, Idle))
        /\ UNCHANGED <<now, members, legacyOwner, sessions, writer, drawn>>
    BY <1>1, MayRevokeLeavesOne DEF RevokeAdmin
  <2>2. Inv'
    BY <2>1, AdminsChange DEF Inv, TypeOK
  <2> QED
    BY <2>1, <2>2 DEF Directory!Revoke
<1>2. CASE ~MayRevoke(s)
  <2> DEFINE next == [req[r] EXCEPT !.op = "reason", !.sole = admins = {s}]
  <2>1. req \in [Requests -> Request] /\ req[r] \in Request /\ s \in Subjects
    BY DEF Inv, TypeOK, RequestState, RevokeAdmin
  <2>2. next \in Request /\ next.op = "reason" /\ next.subject = s
    <3>1. ASSUME NEW sole \in BOOLEAN
          PROVE  LET new == [req[r] EXCEPT !.op = "reason", !.sole = sole]
                 IN  new \in Request /\ new.op = "reason" /\ new.subject = s
      BY <2>1 DEF Request, Op
    <3>2. (admins = {s}) \in BOOLEAN
      OBVIOUS
    <3> QED
      BY <3>1, <3>2, Zenon
  <2>3. /\ req' = [req EXCEPT ![r] = next]
        /\ UNCHANGED <<now, users, sessions, writer, drawn>>
    BY <1>2, <2>1 DEF RevokeAdmin, users
  <2> HIDE DEF next
  <2>4. RequestState(r)'
    BY <2>1, <2>2, <2>3 DEF RequestState, Current
  <2> QED
    BY <2>2, <2>3, <2>4, RequestMoves
<1> QED
  BY <1>1, <1>2

-----------------------------------------------------------------------------
(***************************************************************************)
(* Theorems                                                                *)
(***************************************************************************)

\* A database without users satisfies the invariant.
LEMMA InitInv == Init => Inv
BY ConstantsAssumption
DEF Init, Inv, TypeOK, Founded, RequestState, Current, Request, Idle, Op

\* Every step preserves the invariant, and is a step of the directory or
\* leaves the table users alone.
LEMMA NextInv ==
  ASSUME Inv, [Next]_vars
  PROVE  Inv' /\ (Directory!Next \/ UNCHANGED users)
<1>1. ASSUME NEW r \in Requests, LoginStep(r)
      PROVE  Inv' /\ (Directory!Next \/ UNCHANGED users)
  <2>1. CASE LoginCommits(r)
    <3>1. req[r].subject \in Subjects
      BY <2>1 DEF Inv, RequestState, LoginCommits
    <3> QED
      BY <2>1, <3>1, LoginCommitsAtOnce DEF Directory!Next
  <2>2. CASE ~LoginCommits(r)
    <3>1. UNCHANGED users
      BY <1>1, <2>2
      DEF LoginStep, LoginReads, LoginWrites, LoginFails, RevokeOldSession,
          InsertSession, InsertSessionFails, Logout, AuthDelete
    <3>2. Inv'
      BY <1>1, <2>2, RequestsMove, LoginWritesKeepsInv, LoginFailsKeepsInv,
         SessionStatements DEF LoginStep
    <3> QED
      BY <3>1, <3>2
  <2> QED
    BY <2>1, <2>2
<1>2. ASSUME NEW r \in Requests, MemberStep(r)
      PROVE  Inv' /\ (Directory!Next \/ UNCHANGED users)
  <2>1. CASE GrantAdmin(r) \/ RevokeAdmin(r)
    <3>1. req[r].subject \in Subjects
      BY <2>1 DEF Inv, RequestState, GrantAdmin, RevokeAdmin
    <3> QED
      BY <2>1, <3>1, GrantAdminAtOnce, RevokeAdminAtOnce DEF Directory!Next
  <2>2. CASE ~(GrantAdmin(r) \/ RevokeAdmin(r))
    <3>1. UNCHANGED users
      BY <1>2, <2>2
      DEF MemberStep, RequireAdmin, RevokeReason, AnswerLastAdmin,
          MemberStoreFails
    <3>2. Inv'
      BY <1>2, <2>2, RequestsMove DEF MemberStep
    <3> QED
      BY <3>1, <3>2
  <2> QED
    BY <2>1, <2>2
<1>3. ASSUME DeleteExpiredSessions \/ OtherWrite
      PROVE  Inv' /\ UNCHANGED users
  BY <1>3, SessionStatements DEF DeleteExpiredSessions, OtherWrite
<1>4. ASSUME Restart PROVE Inv' /\ UNCHANGED users
  BY <1>4, IdleIsARequest
  DEF Restart, Inv, TypeOK, Founded, RequestState, Current, users
<1>5. ASSUME Tick \/ UNCHANGED vars PROVE Inv' /\ UNCHANGED users
  <2>1. now' \in 0..MaxTime
    BY <1>5, ConstantsAssumption DEF Tick, vars, Inv, TypeOK
  <2>2. UNCHANGED <<users, sessions, req, writer, drawn>>
    BY <1>5 DEF Tick, vars
  <2> QED
    BY <2>1, <2>2 DEF Inv, TypeOK, Founded, RequestState, Current, users
<1> QED
  BY <1>1, <1>2, <1>3, <1>4, <1>5 DEF Next

\* The inductive invariant, from which the theorems below follow.
LEMMA InvIsInvariant == Spec => []Inv
<1>1. Inv /\ [Next]_vars => Inv'
  BY NextInv
<1> QED
  BY <1>1, InitInv, PTL DEF Spec

\* The tables, the requests and the lock keep the types declared; in
\* particular, administrators have accounts.
THEOREM TypeCorrect == Spec => []TypeOK
<1>1. Inv => TypeOK
  BY DEF Inv
<1> QED
  BY <1>1, InvIsInvariant, PTL

\* Whatever demotions RevokeAdmin runs at the same time, an administrator is
\* left as soon as there is a user.
THEOREM AdministratorRemains == Spec => []SomeAdministrator
<1>1. Inv => SomeAdministrator
  BY DEF Inv, Founded, SomeAdministrator
<1> QED
  BY <1>1, InvIsInvariant, PTL

\* The transactions of RecordUserLogin, GrantAdmin and RevokeAdmin have the
\* effect of atomic operations: the first user is unique, and claims alone.
THEOREM DirectoryImplemented == Spec => ImplementsDirectory
<1>1. Init => Directory!Init
  BY DEF Init, Directory!Init
<1>2. Inv /\ [Next]_vars => [Directory!Next]_(Directory!vars)
  BY NextInv DEF users, Directory!vars
<1> QED
  BY <1>1, <1>2, InvIsInvariant, PTL DEF Spec, ImplementsDirectory, Directory!Spec

\* Purges delete only sessions that GetSessionUser refuses; usable ones end by
\* authDelete or completeLogin with their own cookie.
THEOREM HoldersEndSessions == Spec => SessionsEndByTheirHolder
<1>1. Inv /\ [Next]_vars =>
        [\A t \in Tokens :
           Usable(t) /\ sessions'[t] = NULL =>
             \E r \in Requests : /\ req[r].op \in {"logout", "oldSession"}
                                 /\ req[r].cookie = t]_vars
  <2> SUFFICES ASSUME Inv, [Next]_vars, NEW t \in Tokens, Usable(t),
                      sessions'[t] = NULL
               PROVE  \E r \in Requests :
                        /\ req[r].op \in {"logout", "oldSession"}
                        /\ req[r].cookie = t
    OBVIOUS
  <2>1. /\ sessions \in [Tokens -> Session \cup {NULL}] /\ now \in Nat
        /\ sessions[t] # NULL
    BY ConstantsAssumption DEF Inv, TypeOK, Usable
  <2>2. ASSUME NEW r \in Requests, LoginStep(r)
        PROVE  req[r].op \in {"logout", "oldSession"} /\ req[r].cookie = t
    <3>1. ~\E u \in Tokens : InsertSession(r, u)
      <4>1. SUFFICES ASSUME NEW u \in Tokens, InsertSession(r, u) PROVE FALSE
        OBVIOUS
      <4>2. req[r].subject \in Subjects /\ now + SessionLifetime \in Nat
        BY <2>1, <4>1, ConstantsAssumption DEF Inv, RequestState, InsertSession
      <4>3. [user |-> req[r].subject, expires |-> now + SessionLifetime]
              \in [user: Subjects, expires: Nat]
        BY <4>2
      <4> QED
        BY <2>1, <4>1, <4>3, ConstantsAssumption DEF InsertSession
    <3> QED
      BY <2>1, <2>2, <3>1
      DEF LoginStep, LoginReads, LoginWrites, LoginCommits, LoginFails,
          RevokeOldSession, InsertSessionFails, Logout, AuthDelete
  <2>3. ASSUME NEW r \in Requests, MemberStep(r) PROVE UNCHANGED sessions
    BY <2>3
    DEF MemberStep, RequireAdmin, GrantAdmin, RevokeAdmin, RevokeReason,
        AnswerLastAdmin, MemberStoreFails
  <2>4. ~DeleteExpiredSessions
    <3>1. SUFFICES ASSUME DeleteExpiredSessions PROVE FALSE
      OBVIOUS
    <3>2. sessions[t].expires \in Nat /\ sessions[t].expires > now
      BY <2>1 DEF Session, Usable
    <3>3. t \notin ExpiredSessions
      BY <2>1, <3>2 DEF ExpiredSessions
    <3> QED
      BY <2>1, <3>1, <3>3 DEF DeleteExpiredSessions
  <2>5. ASSUME OtherWrite \/ Restart \/ Tick \/ UNCHANGED vars
        PROVE  UNCHANGED sessions
    BY <2>5 DEF OtherWrite, Restart, Tick, vars
  <2> QED
    BY <2>1, <2>2, <2>3, <2>4, <2>5 DEF Next
<1> QED
  BY <1>1, InvIsInvariant, PTL DEF Spec, SessionsEndByTheirHolder

-----------------------------------------------------------------------------
(***************************************************************************)
(* Sessions that have expired go.  FairSpec's fairness is taken with the   *)
(* guard of each step in the place of ENABLED, about which tlapm cannot    *)
(* reason: the purge is possible when the lock is free and a session has   *)
(* expired, and by Inv whoever holds the lock can commit or roll back.     *)
(***************************************************************************)
PurgesAreFair ==
  []<>(LockIsFree /\ ExpiredSessions # {}) => []<><<DeleteExpiredSessions>>_vars

LocksAreReturned == <>[](~LockIsFree) => []<><<TransactionEnds>>_vars

GuardsSuffice ==
  /\ LockIsFree /\ ExpiredSessions # {} => ENABLED <<DeleteExpiredSessions>>_vars
  /\ ~LockIsFree => ENABLED <<TransactionEnds>>_vars

\* So these two are what FairSpec says.
LEMMA FairSpecIsFair ==
  FairSpec /\ []GuardsSuffice => PurgesAreFair /\ LocksAreReturned
BY PTL DEF FairSpec, GuardsSuffice, PurgesAreFair, LocksAreReturned

\* The request that holds the lock is in its transaction, so that it can end
\* it; and the rows of sessions are under tokens that have been drawn.
Bookkeeping ==
  /\ writer # NULL => writer \in Requests /\ req[writer].op = "locked"
  /\ \A t \in Tokens : sessions[t] # NULL => t \in drawn

\* Statements of others leave the holder of the lock alone.
LEMMA HolderUndisturbed ==
  ASSUME Inv, Bookkeeping, writer # NULL, [Next]_vars, writer' # NULL
  PROVE  writer' = writer /\ req'[writer].op = "locked"
<1>0. /\ req \in [Requests -> Request] /\ writer \in Requests
      /\ req[writer].op = "locked"
  BY DEF Inv, TypeOK, Bookkeeping
<1>1. ASSUME NEW r \in Requests, LoginStep(r)
      PROVE  writer' = writer /\ req'[writer].op = "locked"
  <2>1. r # writer
    <3>1. CASE r = writer
      BY <1>0, <1>1, <3>1
      DEF LoginStep, LoginReads, LoginWrites, LoginCommits, LoginFails,
          WriterAfterRollback, RevokeOldSession, InsertSession,
          InsertSessionFails, Logout, AuthDelete
    <3> QED
      BY <3>1
  <2>2. ~\E t \in Tokens : InsertSession(r, t)
    BY DEF InsertSession, LockIsFree
  <2>3. ~LoginWrites(r) /\ ~LoginCommits(r)
    BY <1>0, <2>1 DEF LoginWrites, MayLock, LockIsFree, LoginCommits
  <2> QED
    BY <1>0, <1>1, <2>1, <2>2, <2>3
    DEF LoginStep, LoginReads, LoginFails, WriterAfterRollback,
        RevokeOldSession, LockIsFree, InsertSessionFails, Logout, AuthDelete,
        Answer
<1>2. ASSUME NEW r \in Requests, MemberStep(r)
      PROVE  writer' = writer /\ req'[writer].op = "locked"
  <2>1. r # writer
    BY <1>0, <1>2
    DEF MemberStep, RequireAdmin, GrantAdmin, RevokeAdmin, RevokeReason,
        AnswerLastAdmin, MemberStoreFails
  <2> QED
    BY <1>0, <1>2, <2>1
    DEF MemberStep, RequireAdmin, GrantAdmin, RevokeAdmin, LockIsFree,
        RevokeReason, AnswerLastAdmin, MemberStoreFails, Answer
<1>3. ~DeleteExpiredSessions /\ ~OtherWrite /\ ~Restart
  BY DEF DeleteExpiredSessions, OtherWrite, Restart, LockIsFree
<1>4. ASSUME Tick \/ UNCHANGED vars
      PROVE  writer' = writer /\ req'[writer].op = "locked"
  BY <1>0, <1>4 DEF Tick, vars
<1> QED
  BY <1>1, <1>2, <1>3, <1>4 DEF Next

\* Only LoginWrites takes it.
LEMMA HolderIsNew ==
  ASSUME Inv, [Next]_vars, writer = NULL, writer' # NULL
  PROVE  writer' \in Requests /\ req'[writer'].op = "locked"
<1>1. ASSUME NEW r \in Requests, LoginWrites(r)
      PROVE  writer' \in Requests /\ req'[writer'].op = "locked"
  <2>1. req \in [Requests -> Request] /\ req[r] \in Request
    BY DEF Inv, TypeOK
  <2> QED
    BY <1>1, <2>1 DEF LoginWrites, Request
<1>2. ASSUME NEW r \in Requests, LoginStep(r), ~LoginWrites(r)
      PROVE  writer' = NULL
  BY <1>2
  DEF LoginStep, LoginReads, LoginCommits, LoginFails, WriterAfterRollback,
      RevokeOldSession, InsertSession, InsertSessionFails, Logout, AuthDelete
<1>3. ASSUME NEW r \in Requests, MemberStep(r) PROVE writer' = NULL
  BY <1>3
  DEF MemberStep, RequireAdmin, GrantAdmin, RevokeAdmin, RevokeReason,
      AnswerLastAdmin, MemberStoreFails
<1>4. ASSUME \/ DeleteExpiredSessions \/ OtherWrite \/ Restart \/ Tick
             \/ UNCHANGED vars
      PROVE  writer' = NULL
  BY <1>4 DEF DeleteExpiredSessions, OtherWrite, Restart, Tick, vars
<1> QED
  BY <1>1, <1>2, <1>3, <1>4 DEF Next

\* What a step does to a row of sessions.
LEMMA RowsOfSessions ==
  ASSUME Inv, [Next]_vars, NEW t \in Tokens
  PROVE  /\ drawn \subseteq drawn' /\ now <= now'
         /\ \/ sessions'[t] \in {sessions[t], NULL}
            \/ t \notin drawn /\ t \in drawn'
<1>1. /\ sessions \in [Tokens -> Session \cup {NULL}] /\ now \in Nat
  BY ConstantsAssumption DEF Inv, TypeOK
<1>2. ASSUME NEW r \in Requests, LoginStep(r)
      PROVE  /\ drawn \subseteq drawn' /\ now' = now
             /\ \/ sessions'[t] \in {sessions[t], NULL}
                \/ t \notin drawn /\ t \in drawn'
  BY <1>1, <1>2
  DEF LoginStep, LoginReads, LoginWrites, LoginCommits, LoginFails,
      RevokeOldSession, InsertSession, InsertSessionFails, Logout, AuthDelete
<1>3. ASSUME NEW r \in Requests, MemberStep(r)
      PROVE  UNCHANGED <<now, sessions, drawn>>
  BY <1>3
  DEF MemberStep, RequireAdmin, GrantAdmin, RevokeAdmin, RevokeReason,
      AnswerLastAdmin, MemberStoreFails
<1>4. ASSUME DeleteExpiredSessions
      PROVE  sessions'[t] \in {sessions[t], NULL} /\ UNCHANGED <<now, drawn>>
  BY <1>1, <1>4 DEF DeleteExpiredSessions
<1>5. ASSUME OtherWrite \/ Restart \/ Tick \/ UNCHANGED vars
      PROVE  UNCHANGED <<sessions, drawn>> /\ now <= now'
  BY <1>1, <1>5 DEF OtherWrite, Restart, Tick, vars
<1> QED
  BY <1>1, <1>2, <1>3, <1>4, <1>5 DEF Next

LEMMA BookkeepingHolds == Spec => []Bookkeeping
<1>1. Init => Bookkeeping
  BY DEF Init, Bookkeeping
<1>2. Inv /\ Bookkeeping /\ [Next]_vars => Bookkeeping'
  <2> SUFFICES ASSUME Inv, Bookkeeping, [Next]_vars PROVE Bookkeeping'
    OBVIOUS
  <2>1. writer' # NULL => writer' \in Requests /\ req'[writer'].op = "locked"
    BY HolderUndisturbed, HolderIsNew DEF Bookkeeping
  <2>2. \A t \in Tokens : sessions'[t] # NULL => t \in drawn'
    BY RowsOfSessions DEF Bookkeeping
  <2> QED
    BY <2>1, <2>2 DEF Bookkeeping
<1> QED
  BY <1>1, <1>2, InvIsInvariant, PTL DEF Spec

\* deleteExpiredSessions gets every session that GetSessionUser no longer
\* accepts, although logins take the write lock from it and purges fail.
THEOREM ExpiredSessionsAreDeleted ==
  Spec /\ PurgesAreFair /\ LocksAreReturned => ExpiredSessionsGo
<1> SUFFICES ASSUME NEW t \in Tokens
             PROVE  Spec /\ PurgesAreFair /\ LocksAreReturned =>
                      (sessions[t] # NULL /\ ~Usable(t) ~> sessions[t] = NULL)
  BY DEF ExpiredSessionsGo
<1> DEFINE Unusable == sessions[t] # NULL /\ ~Usable(t)
           Gone == sessions[t] = NULL
           SomeExpired == ExpiredSessions # {}
<1>1. Inv /\ Bookkeeping /\ Unusable /\ [Next]_vars => Unusable' \/ Gone'
  <2> SUFFICES ASSUME Inv, Bookkeeping, Unusable, [Next]_vars, ~Gone'
               PROVE  Unusable'
    OBVIOUS
  <2>1. sessions'[t] = sessions[t] /\ now <= now'
    BY RowsOfSessions DEF Bookkeeping
  <2>2. sessions[t].expires \in Nat /\ now \in Nat /\ now' \in Int
    <3>1. sessions[t] \in Session /\ now \in Nat
      BY ConstantsAssumption DEF Inv, TypeOK
    <3>2. now' \in Int
      BY <3>1, NextInv, ConstantsAssumption DEF Inv, TypeOK
    <3> QED
      BY <3>1, <3>2 DEF Session
  <2> QED
    BY <2>1, <2>2 DEF Usable
<1>2. Inv /\ Unusable /\ <<DeleteExpiredSessions>>_vars => Gone'
  <2> SUFFICES ASSUME Inv, Unusable, DeleteExpiredSessions PROVE Gone'
    OBVIOUS
  <2>1. t \in ExpiredSessions
    <3>1. sessions[t] \in Session /\ now \in Nat
      BY ConstantsAssumption DEF Inv, TypeOK
    <3>2. sessions[t].expires \in Nat /\ sessions[t].expires <= now
      BY <3>1 DEF Session, Usable
    <3> QED
      BY <3>2 DEF ExpiredSessions
  <2> QED
    BY <2>1 DEF DeleteExpiredSessions
<1>3. Inv /\ Unusable => SomeExpired
  <2> SUFFICES ASSUME Inv, Unusable PROVE SomeExpired
    OBVIOUS
  <2>1. sessions[t] \in Session /\ now \in Nat
    BY ConstantsAssumption DEF Inv, TypeOK
  <2>2. sessions[t].expires \in Nat /\ sessions[t].expires <= now
    BY <2>1 DEF Session, Usable
  <2> QED
    BY <2>2 DEF ExpiredSessions
<1>4. <<TransactionEnds>>_vars => LockIsFree'
  BY DEF TransactionEnds, LoginCommits, LoginFails, WriterAfterRollback,
         LockIsFree
<1> HIDE DEF Unusable, Gone, SomeExpired
<1>5. Spec /\ PurgesAreFair /\ LocksAreReturned => (Unusable ~> Gone)
  BY <1>1, <1>2, <1>3, <1>4, InvIsInvariant, BookkeepingHolds, PTL
  DEF Spec, PurgesAreFair, LocksAreReturned, SomeExpired
<1> QED
  BY <1>5 DEF Unusable, Gone

=============================================================================
