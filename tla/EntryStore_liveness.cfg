\* The collector against the requests of a user and an administrator, changing
\* settings, failing purges and crashes; no symmetry, which is unsound for
\* liveness.
SPECIFICATION FairSpec
CONSTANTS
  NULL = NULL
  Users = {u1, u2}
  Admins = {u2}
  EntryIDs = {e1}
  GuestLinkIDs = {}
  Requests = {r1}
  MaxChunks = 2
  MaxTime = 2
  NeverExpire = 9
  Lifetimes = {1}
  Caps = {}
  Retentions = {1}
  CountLimits = {NULL}
PROPERTIES
  ExpiredEventuallyRemoved
  LeftoversEventuallyPurged
  HistoryKept
  OnlyExpiryOrManagerRemoves
  EntriesArePlainFiles
