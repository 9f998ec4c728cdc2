--------------------------- MODULE DownloadsProofs ---------------------------
(***************************************************************************)
(* Theorems about Downloads, for any number of visitors, managers and      *)
(* passphrases.  Every step of Downloads is a step of FileChunks or leaves *)
(* the file alone, so what FileChunksProofs shows of files and readers     *)
(* holds behind the handlers too.                                          *)
(***************************************************************************)
EXTENDS Downloads, FileChunksProofs

\* Only a visitor without the right to read is sent to the unlock page, and
\* only one with it is sent back.
WellRedirected(v) ==
  visit[v].hops = 0 \/
    /\ visit[v].hops = 1
    /\ visit[v].page = IF NeedsNoUnlock(v) THEN "download" ELSE "unlock"

VisitInv ==
  /\ passphrase \in Passphrases \cup {NULL}
  /\ visit \in [Readers -> Visit]
  /\ cache \subseteq Kept
  /\ \A kept \in cache : kept.answer # "redirect"
  /\ upload \notin {"stored", "removed"} => \A v \in Readers : visit[v].hops = 0
  /\ \A v \in Readers : WellRedirected(v)

-----------------------------------------------------------------------------
\* The file and its readers take the steps of FileChunks.
LEMMA StepsOfFileChunks == [DownloadsNext]_allVars => [Next]_vars
<1>1. ASSUME NEW v \in Readers, VisitorStep(v)
      PROVE  [Next]_vars
  <2>1. UNCHANGED vars \/ ReadEntryFile(v)
    BY <1>1 DEF VisitorStep, Navigate, EntryGet, EntryPreviewGet, EntryUnlockGet,
       EntryUnlockPost, EntryNotFound, AnswerFromCache, ServeEntryContent,
       Redirect, AnswerPage
  <2> QED
    BY <2>1 DEF Next
<1>2. ASSUME NEW p, EntryPost(p) \/ EntryPut(p)
      PROVE  [Next]_vars
  BY <1>2 DEF EntryPost, EntryPut, Next
<1>3. UNCHANGED allVars => UNCHANGED vars
  BY DEF allVars
<1> QED
  BY <1>1, <1>2, <1>3 DEF DownloadsNext, Next

LEMMA FileChunksHolds == DownloadsSpec => Spec
<1>1. DownloadsInit => Init
  BY DEF DownloadsInit
<1> QED
  BY <1>1, StepsOfFileChunks, PTL DEF DownloadsSpec, Spec

-----------------------------------------------------------------------------
LEMMA VisitInit == DownloadsInit => VisitInv
<1> SUFFICES ASSUME DownloadsInit PROVE VisitInv
  OBVIOUS
<1>1. NoVisit \in Visit /\ NoVisit.hops = 0
  BY DEF NoVisit, Visit
<1> QED
  BY <1>1 DEF DownloadsInit, VisitInv, WellRedirected

\* Nobody's page changes but v's.
LEMMA OneVisit ==
  ASSUME VisitInv, NEW v \in Readers, NEW x \in Visit,
         visit' = [visit EXCEPT ![v] = x],
         UNCHANGED <<passphrase, upload>>,
         cache' \subseteq Kept, \A kept \in cache' : kept.answer # "redirect",
         upload \notin {"stored", "removed"} => x.hops = 0,
         x.hops = 0 \/
           (x.hops = 1 /\ x.page = IF NeedsNoUnlock(v) THEN "download" ELSE "unlock")
  PROVE  VisitInv'
<1>1. \A u \in Readers : visit'[u] = IF u = v THEN x ELSE visit[u]
  BY DEF VisitInv
<1>2. visit' \in [Readers -> Visit]
  BY DEF VisitInv
<1>3. \A u \in Readers : WellRedirected(u)'
  BY <1>1 DEF VisitInv, WellRedirected, NeedsNoUnlock, Protected,
     CanBypassPassphrase
<1>4. upload' \notin {"stored", "removed"} =>
        \A u \in Readers : visit'[u].hops = 0
  BY <1>1 DEF VisitInv
<1> QED
  BY <1>2, <1>3, <1>4 DEF VisitInv

\* A visit that begins anew, or ends.
LEMMA NoHops ==
  ASSUME VisitInv, NEW v \in Readers, NEW x \in Visit, x.hops = 0,
         visit' = [visit EXCEPT ![v] = x], UNCHANGED <<passphrase, upload>>,
         cache' \subseteq Kept, \A kept \in cache' : kept.answer # "redirect"
  PROVE  VisitInv'
BY OneVisit

LEMMA NoVisitIsVisit == NoVisit \in Visit /\ NoVisit.hops = 0
BY DEF NoVisit, Visit

\* The cache keeps the content of a page, never a redirect.
LEMMA ServeEntryContentKeepsVisitInv ==
  ASSUME VisitInv, NEW v \in Readers, NEW page \in Page, NEW guess,
         ServeEntryContent(v, page, guess)
  PROVE  VisitInv'
<1>1. [page |-> page, answer |-> "content"] \in Kept
      /\ [page |-> page, answer |-> "content"].answer # "redirect"
  BY DEF Kept
<1>2. cache' \subseteq Kept /\ \A kept \in cache' : kept.answer # "redirect"
  BY <1>1 DEF ServeEntryContent, Keep, VisitInv
<1> QED
  BY <1>2, NoHops, NoVisitIsVisit DEF ServeEntryContent, ReadEntryFile

LEMMA AnswerPageKeepsVisitInv ==
  ASSUME VisitInv, NEW v \in Readers, AnswerPage(v)
  PROVE  VisitInv'
BY NoHops, NoVisitIsVisit DEF AnswerPage, VisitInv, vars

\* A redirect carries no-store, whichever handler it comes from; and it is
\* the first one.
LEMMA RedirectKeepsVisitInv ==
  ASSUME VisitInv, NEW v \in Readers, NEW page \in Page \ {"preview"},
         visit[v].page = page, Redirect(v, page), GetEntryMetadata,
         IF page = "download" THEN ~NeedsNoUnlock(v) ELSE NeedsNoUnlock(v)
  PROVE  VisitInv'
<1> DEFINE to == IF page = "download" THEN "unlock" ELSE "download"
           x == [visit[v] EXCEPT !.page = to, !.hops = visit[v].hops + 1]
<1>1. visit[v] \in Visit /\ WellRedirected(v)
  BY DEF VisitInv
<1>2. visit[v].hops = 0
  BY <1>1 DEF WellRedirected, Page
<1>3. x \in Visit /\ x.page = to /\ x.hops = 1
  <2>1. to \in Page /\ visit[v].hops + 1 = 1
    BY <1>2 DEF Page
  <2> HIDE DEF to
  <2>2. x = [visit[v] EXCEPT !.page = to, !.hops = 1]
    BY <2>1
  <2> HIDE DEF x
  <2> QED
    BY <1>1, <2>1, <2>2 DEF Visit
<1>4. visit' = [visit EXCEPT ![v] = x] /\ UNCHANGED <<passphrase, upload>>
  BY DEF Redirect, Follow, vars
<1>5. cache' = cache
  BY DEF Redirect, Keep, NoStore, NeedsNoUnlock, Page
<1>6. to = IF NeedsNoUnlock(v) THEN "download" ELSE "unlock"
  OBVIOUS
<1>7. upload = "stored"
  BY DEF GetEntryMetadata
<1> HIDE DEF x, to
<1>8. cache' \subseteq Kept /\ \A kept \in cache' : kept.answer # "redirect"
  BY <1>5 DEF VisitInv
<1> QED
  BY <1>3, <1>4, <1>6, <1>7, <1>8, OneVisit

LEMMA NavigateKeepsVisitInv ==
  ASSUME VisitInv, NEW v \in Readers, NEW page \in Page, Navigate(v, page)
  PROVE  VisitInv'
<1> DEFINE x == [visit[v] EXCEPT !.page = page]
<1>1. visit[v] \in Visit /\ visit[v].hops = 0
  BY NoVisitIsVisit DEF Navigate
<1>2. x \in Visit /\ x.hops = 0
  BY <1>1 DEF Visit
<1>3. visit' = [visit EXCEPT ![v] = x] /\ UNCHANGED <<passphrase, upload, cache>>
  BY DEF Navigate, vars
<1> HIDE DEF x
<1> QED
  BY <1>2, <1>3, NoHops DEF VisitInv

LEMMA AnswerFromCacheKeepsVisitInv ==
  ASSUME VisitInv, NEW v \in Readers, AnswerFromCache(v)
  PROVE  VisitInv'
<1>1. visit' = [visit EXCEPT ![v] = NoVisit]
      /\ UNCHANGED <<passphrase, upload, cache>>
  BY DEF AnswerFromCache, VisitInv, vars
<1> QED
  BY <1>1, NoHops, NoVisitIsVisit DEF VisitInv

LEMMA VisitorStepKeepsVisitInv ==
  ASSUME VisitInv, NEW v \in Readers, VisitorStep(v)
  PROVE  VisitInv'
<1>1. CASE \E page \in Page : Navigate(v, page)
  BY <1>1, NavigateKeepsVisitInv
<1>2. CASE EntryGet(v)
  BY <1>2, RedirectKeepsVisitInv, ServeEntryContentKeepsVisitInv
  DEF EntryGet, NeedsNoUnlock, Page
<1>3. CASE EntryPreviewGet(v)
  BY <1>3, AnswerPageKeepsVisitInv, ServeEntryContentKeepsVisitInv
  DEF EntryPreviewGet, Page
<1>4. CASE EntryUnlockGet(v)
  BY <1>4, RedirectKeepsVisitInv, AnswerPageKeepsVisitInv
  DEF EntryUnlockGet, Page
<1>5. ASSUME NEW guess, EntryUnlockPost(v, guess)
      PROVE  VisitInv'
  BY <1>5, RedirectKeepsVisitInv, AnswerPageKeepsVisitInv,
     ServeEntryContentKeepsVisitInv DEF EntryUnlockPost, Page
<1>6. CASE EntryNotFound(v)
  BY <1>6, AnswerPageKeepsVisitInv DEF EntryNotFound
<1>7. CASE AnswerFromCache(v)
  BY <1>7, AnswerFromCacheKeepsVisitInv
<1> QED
  BY <1>1, <1>2, <1>3, <1>4, <1>5, <1>6, <1>7 DEF VisitorStep

\* A new passphrase, or none: counting begins again.
LEMMA EntryPutKeepsVisitInv ==
  ASSUME VisitInv, NEW p \in Passphrases \cup {NULL}, EntryPut(p)
  PROVE  VisitInv'
<1>1. \A v \in Readers : visit[v] \in Visit
  BY DEF VisitInv
<1>2. \A v \in Readers : [visit[v] EXCEPT !.hops = 0] \in Visit
                         /\ [visit[v] EXCEPT !.hops = 0].hops = 0
  BY <1>1 DEF Visit
<1>3. visit' \in [Readers -> Visit] /\ \A v \in Readers : visit'[v].hops = 0
  BY <1>2 DEF EntryPut
<1> QED
  BY <1>3 DEF EntryPut, SetPassphrase, VisitInv, WellRedirected

\* The file moves; nobody has visited it before it is stored.
LEMMA FileMovesKeepsVisitInv ==
  ASSUME VisitInv, [Next]_vars, UNCHANGED <<visit, cache>>,
         passphrase' \in Passphrases \cup {NULL},
         \/ passphrase' = passphrase
         \/ upload \notin {"stored", "removed"}
  PROVE  VisitInv'
<1>1. upload \in {"stored", "removed"} => upload' \in {"stored", "removed"}
  BY DEF Next, WriterStep, NewWriter, Write, Close, InsertEntry, UploadFails,
     DeleteOrphanedRows, DeleteEntry, ReadEntryFile, ReaderStep, GetChunkSize,
     GetFileLength, NewReaderFails, ServeContent, NextRange, ReadBuffer,
     PopulateBuffer, ServeContentReturns, vars
<1>2. \A v \in Readers : WellRedirected(v)'
  BY DEF VisitInv, WellRedirected, NeedsNoUnlock, Protected, CanBypassPassphrase
<1> QED
  BY <1>1, <1>2 DEF VisitInv

LEMMA VisitNext ==
  ASSUME VisitInv, [DownloadsNext]_allVars
  PROVE  VisitInv'
<1>1. [Next]_vars
  BY StepsOfFileChunks
<1>2. CASE UNCHANGED accessVars
  BY <1>1, <1>2, FileMovesKeepsVisitInv DEF accessVars, VisitInv
<1>3. ASSUME NEW p \in Passphrases \cup {NULL}, EntryPost(p)
      PROVE  VisitInv'
  <2>1. upload = "closed"
    BY <1>3 DEF EntryPost, InsertEntry
  <2> QED
    BY <1>1, <1>3, <2>1, FileMovesKeepsVisitInv DEF EntryPost, SetPassphrase
<1>4. ASSUME NEW p \in Passphrases \cup {NULL}, EntryPut(p)
      PROVE  VisitInv'
  BY <1>4, EntryPutKeepsVisitInv
<1>5. ASSUME NEW v \in Readers, VisitorStep(v)
      PROVE  VisitInv'
  BY <1>5, VisitorStepKeepsVisitInv
<1> QED
  BY <1>2, <1>3, <1>4, <1>5 DEF DownloadsNext, allVars

LEMMA VisitInvariance == DownloadsSpec => []VisitInv
BY VisitInit, VisitNext, PTL DEF DownloadsSpec

-----------------------------------------------------------------------------
\* Whatever is open to everybody, in the table or in the cache, is or was the
\* content of a file that its owner stored without a passphrase.
PublicInv ==
  /\ wasPublic \in BOOLEAN
  /\ upload \notin {"stored", "removed"} => cache = {}
  /\ upload = "stored" /\ ~Protected => wasPublic
  /\ cache # {} => wasPublic
  /\ leaked = FALSE

\* A handler serves managers, those with the passphrase, and a file without
\* one; the cache keeps the content of the last only.
LEMMA ServingKeepsPublicInv ==
  ASSUME PublicInv, NEW v \in Readers, NEW page \in Page, NEW guess,
         GetEntryMetadata, ServeEntryContent(v, page, guess),
         \/ ~Protected \/ v \in Managers
         \/ guess # NULL /\ guess = passphrase
  PROVE  PublicInv'
<1>1. UNCHANGED <<upload, passphrase, wasPublic>> /\ upload = "stored"
  BY DEF ServeEntryContent, ReadEntryFile, GetsContent, GetEntryMetadata
<1>2. cache' = cache \/ ~Protected
  BY DEF ServeEntryContent, Keep, NoStore
<1>3. leaked' = FALSE
  BY DEF ServeEntryContent, GetsContent, GetEntryMetadata, PublicInv
<1> QED
  BY <1>1, <1>2, <1>3 DEF PublicInv, Protected

LEMMA PublicNext ==
  ASSUME VisitInv, PublicInv, [DownloadsNext]_allVars
  PROVE  PublicInv'
<1>1. ASSUME NEW v \in Readers, VisitorStep(v)
      PROVE  PublicInv'
  <2>1. ASSUME UNCHANGED <<vars, passphrase, cache, history>>
        PROVE  PublicInv'
    BY <2>1 DEF PublicInv, Protected, vars, history
  <2>2. CASE \E page \in Page : Navigate(v, page)
    BY <2>1, <2>2 DEF Navigate
  <2>3. CASE AnswerPage(v)
    BY <2>1, <2>3 DEF AnswerPage
  <2>4. ASSUME NEW page \in {"download", "unlock", "post"}, Redirect(v, page),
               page = "download" => Protected
        PROVE  PublicInv'
    BY <2>1, <2>4 DEF Redirect, Keep, NoStore
  <2>5. CASE EntryGet(v)
    BY <2>4, <2>5, ServingKeepsPublicInv
    DEF EntryGet, CanBypassPassphrase, Page
  <2>6. CASE EntryPreviewGet(v)
    BY <2>3, <2>6, ServingKeepsPublicInv
    DEF EntryPreviewGet, CanBypassPassphrase, Page
  <2>7. CASE EntryUnlockGet(v)
    BY <2>3, <2>4, <2>7 DEF EntryUnlockGet
  <2>8. ASSUME NEW guess \in Passphrases \cup {NULL}, EntryUnlockPost(v, guess)
        PROVE  PublicInv'
    <3>1. ASSUME ~NeedsNoUnlock(v), guess = passphrase
          PROVE  guess # NULL
      BY <3>1 DEF NeedsNoUnlock, Protected
    <3> QED
      BY <2>3, <2>4, <2>8, <3>1, ServingKeepsPublicInv
      DEF EntryUnlockPost, Page
  <2>9. CASE EntryNotFound(v)
    BY <2>3, <2>9 DEF EntryNotFound
  <2>10. CASE AnswerFromCache(v)
    <3>1. cache # {} /\ UNCHANGED <<vars, passphrase, cache>>
          /\ \/ UNCHANGED history
             \/ GetsContent(v, NULL)
      BY <2>10 DEF AnswerFromCache
    <3>2. UNCHANGED history
      BY <3>1 DEF GetsContent, PublicInv, history
    <3> QED
      BY <2>1, <3>1, <3>2
  <2> QED
    BY <1>1, <2>2, <2>5, <2>6, <2>7, <2>8, <2>9, <2>10 DEF VisitorStep
<1>2. ASSUME NEW p \in Passphrases \cup {NULL}, EntryPost(p) \/ EntryPut(p)
      PROVE  PublicInv'
  <2>1. /\ passphrase' = p /\ wasPublic' = (wasPublic \/ p = NULL)
        /\ leaked' = leaked /\ cache' = cache
        /\ upload' = "stored" /\ (upload' # upload => cache = {})
    BY <1>2
    DEF EntryPost, EntryPut, SetPassphrase, InsertEntry, PublicInv, vars
  <2> QED
    BY <2>1 DEF PublicInv, Protected
<1>3. ASSUME UNCHANGED accessVars,
             WriterStep \/ (\E v \in Readers : ReaderStep(v)) \/ UNCHANGED vars
      PROVE  PublicInv'
  <2>1. /\ upload' = "stored" => upload = "stored"
        /\ upload \in {"stored", "removed"} => upload' \in {"stored", "removed"}
    BY <1>3
    DEF WriterStep, NewWriter, Write, Close, UploadFails, DeleteOrphanedRows,
        DeleteEntry, ReaderStep, GetChunkSize, GetFileLength, NewReaderFails,
        ServeContent, NextRange, ReadBuffer, PopulateBuffer,
        ServeContentReturns, vars
  <2> QED
    BY <1>3, <2>1 DEF PublicInv, Protected, accessVars, history
<1> QED
  BY <1>1, <1>2, <1>3 DEF DownloadsNext, allVars

LEMMA PublicInvariance == DownloadsSpec => []PublicInv
<1>1. DownloadsInit => PublicInv
  BY DEF DownloadsInit, Init, PublicInv
<1> QED
  BY <1>1, PublicNext, VisitInvariance, PTL DEF DownloadsSpec

-----------------------------------------------------------------------------
\* Rows, readers, visits and the cache keep their types.
THEOREM AccessTypeCorrect == DownloadsSpec => []AccessTypeOK
<1>1. TypeOK /\ VisitInv /\ PublicInv => AccessTypeOK
  BY DEF VisitInv, PublicInv, AccessTypeOK
<1> QED
  BY FileChunksHolds, TypeCorrect, VisitInvariance, PublicInvariance, <1>1, PTL

\* entryGet and entryUnlockGet never send a visitor in a circle.
THEOREM NoRedirectLoop == DownloadsSpec => []RedirectsEnd
<1>1. VisitInv => RedirectsEnd
  BY DEF VisitInv, RedirectsEnd, WellRedirected
<1> QED
  BY VisitInvariance, <1>1, PTL

\* Before a file has been stored without a passphrase, only managers and those
\* who submit the passphrase get its content, from handlers and from caches.
THEOREM StrangersStayOut == DownloadsSpec => []PassphraseKeepsStrangersOut
<1>1. PublicInv => PassphraseKeepsStrangersOut
  BY DEF PublicInv, PassphraseKeepsStrangersOut
<1> QED
  BY <1>1, PublicInvariance, PTL

\* Behind the handlers, too, clients get the bytes that were announced.
THEOREM DeliveredToVisitors == DownloadsSpec => []DeliveredIsFile
BY FileChunksHolds, Delivered, PTL

\* A visitor who asked for the whole file gets all of it or an error.
THEOREM WholeFilesToVisitors == DownloadsSpec => []WholeFileOrError
BY FileChunksHolds, WholeFiles, PTL

\* No visitor's reader slices out of bounds or turns in circles (populateBuffer).
THEOREM VisitorsAdvance == DownloadsSpec => []PopulateAdvances
BY FileChunksHolds, ReadingAdvances, PTL

\* Whatever visitors, managers and the purge do, the file that is served is a
\* plain sequence of bytes.
THEOREM VisitorsSeePlainFile == DownloadsSpec => ImplementsPlainFile
BY FileChunksHolds, Refinement, PTL

=============================================================================
