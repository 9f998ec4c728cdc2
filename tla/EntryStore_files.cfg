\* Two requests upload, download, edit and delete a file of up to two chunks,
\* for a user or through a guest link for one file, while the link is disabled
\* and deleted, the collector purges and the process crashes; the clock passes
\* the file's expiration time.
SPECIFICATION Spec
CONSTANTS
  NULL = NULL
  Users = {u1}
  Admins = {}
  EntryIDs = {e1}
  GuestLinkIDs = {l1}
  Requests = {r1, r2}
  MaxChunks = 2
  MaxTime = 2
  NeverExpire = 9
  Lifetimes = {1}
  Caps = {}
  Retentions = {}
  CountLimits = {1}
SYMMETRY Symmetry
INVARIANTS
  TypeOK
  StoredFileIntact
  NoStrayChunks
  NoSilentTruncation
  GuestUploadOwner
  GuestOvershootBounded
PROPERTIES
  StoredFileStable
  NoResurrection
