\* A download that ends after the entry has been deleted.
SPECIFICATION FairSpec
CONSTANTS
  NULL = NULL
  Users = {u1}
  Admins = {}
  EntryIDs = {e1}
  GuestLinkIDs = {}
  Requests = {r1, r2}
  MaxChunks = 1
  MaxTime = 0
  NeverExpire = 9
  Lifetimes = {}
  Caps = {}
  Retentions = {}
  CountLimits = {NULL}
PROPERTIES
  OrphanedDownloadsEventuallyCleared
