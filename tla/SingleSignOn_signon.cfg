\* Two requests set up, change the settings and log in while the settings are
\* reset beside the running server; no symmetry, which is unsound for liveness.
SPECIFICATION FairSpec
CONSTANTS
  NULL = NULL
  Issuers = {i1}
  ClientIDs <- MCClientIDs
  Secrets <- MCSecrets
  Character <- MCCharacter
  Requests = {r1, r2}
  Resets = {p1}
  Tokens = {t1, t2}
INVARIANTS
  TypeOK
  SpentTokensAreRefused
  SetupIsPossible
  ProviderFitsSettings
PROPERTIES
  LoginsEnd
