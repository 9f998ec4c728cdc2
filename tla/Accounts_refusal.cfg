\* A demotion and a promotion of the same user, by one administrator in two
\* tabs.
SPECIFICATION Spec
CONSTANTS
  NULL = NULL
  Subjects = {s1, s2}
  Requests = {r1, r2}
  Tokens = {t1}
  SessionLifetime = 1
  MaxTime = 0
SYMMETRY Symmetry
INVARIANTS
  LastAdminErrorIsTrue
