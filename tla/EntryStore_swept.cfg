\* One upload of two chunks against one collection.
SPECIFICATION Spec
CONSTANTS
  NULL = NULL
  Users = {u1}
  Admins = {}
  EntryIDs = {e1}
  GuestLinkIDs = {}
  Requests = {r1}
  MaxChunks = 2
  MaxTime = 0
  NeverExpire = 9
  Lifetimes = {}
  Caps = {}
  Retentions = {}
  CountLimits = {NULL}
SYMMETRY Symmetry
INVARIANTS
  StoredFileComplete
