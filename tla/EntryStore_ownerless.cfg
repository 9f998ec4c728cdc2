\* One guest upload while the owner deletes the link.
SPECIFICATION Spec
CONSTANTS
  NULL = NULL
  Users = {u1}
  Admins = {}
  EntryIDs = {e1}
  GuestLinkIDs = {l1}
  Requests = {r1, r2}
  MaxChunks = 1
  MaxTime = 0
  NeverExpire = 9
  Lifetimes = {}
  Caps = {}
  Retentions = {}
  CountLimits = {NULL}
SYMMETRY Symmetry
INVARIANTS
  EveryEntryHasOwner
