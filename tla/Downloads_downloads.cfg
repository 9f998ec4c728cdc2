\* A manager and a stranger read one file of one to three chunks while it is
\* written, swept, protected and deleted.  After a failed upload nothing happens,
\* so deadlock is not checked.
SPECIFICATION DownloadsSpec
CONSTANTS
  ChunkSize = 2
  Sizes = {1, 4, 5}
  Readers = {v1, v2}
  Managers = {v1}
  Passphrases = {p1}
  NULL = NULL
INVARIANTS AccessTypeOK DeliveredIsFile WholeFileOrError PopulateAdvances RedirectsEnd
  PassphraseKeepsStrangersOut
PROPERTIES ImplementsPlainFile
CHECK_DEADLOCK FALSE
