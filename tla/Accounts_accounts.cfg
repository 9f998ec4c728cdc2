\* Two requests race for the first login, log in and out with two session
\* tokens and promote and demote each other while sessions expire, purges
\* fail and the process crashes; no symmetry, which is unsound for liveness.
SPECIFICATION FairSpec
CONSTANTS
  NULL = NULL
  Subjects = {s1, s2}
  Requests = {r1, r2}
  Tokens = {t1, t2}
  SessionLifetime = 1
  MaxTime = 1
INVARIANTS
  TypeOK
  SomeAdministrator
PROPERTIES
  ImplementsDirectory
  SessionsEndByTheirHolder
  ExpiredSessionsGo
