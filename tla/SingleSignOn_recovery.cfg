\* The recovery that the docs describe: reset, restart, visit /setup.
SPECIFICATION Spec
CONSTANTS
  NULL = NULL
  Issuers = {i1}
  ClientIDs <- MCClientIDs
  Secrets <- MCSecrets
  Character <- MCCharacter
  Requests = {r1}
  Resets = {p1}
  Tokens = {t1, t2, t3}
INVARIANTS
  PrintedTokenIsGood
