------------------------------ MODULE Downloads ------------------------------
(***************************************************************************)
(* Who gets to read a file: handlers/download.go in front of FileChunks.   *)
(* Visitors with different rights go through entryGet, entryPreviewGet,    *)
(* entryUnlockGet and entryUnlockPost, and follow the redirects between    *)
(* them, while the file's manager sets and removes its passphrase.         *)
(* Between them and the server is a cache that several visitors share and  *)
(* that keeps what it is not forbidden to keep by Cache-Control: no-store. *)
(***************************************************************************)
EXTENDS FileChunks

CONSTANTS
  Managers,     \* visitors that User.CanManageEntry holds for
  Passphrases   \* passphrases an entry may have

ASSUME ManagersAssumption == Managers \subseteq Readers

ASSUME PassphrasesAssumption == NULL \notin Passphrases

VARIABLES
  passphrase,   \* entries.download_passphrase, NULL if there is none
  visit,        \* the page each visitor asks for, and how he came there
  cache,        \* answers that the shared cache has kept
  wasPublic,    \* history: the file was stored without a passphrase once
  leaked        \* history: before that, a stranger got at the content

history == <<wasPublic, leaked>>

accessVars == <<passphrase, visit, cache, history>>
allVars == <<vars, accessVars>>

\* "unlock" is the page with the form, "post" its submission.
Page == {"download", "preview", "unlock", "post"}

\* hops: redirects followed since the passphrase was last changed.
Visit == [page: Page \cup {"none"}, hops: Nat]

NoVisit == [page |-> "none", hops |-> 0]

\* What a cache can keep for a GET of a page.
Kept == [page: Page, answer: {"content", "redirect"}]

AccessTypeOK ==
  /\ TypeOK
  /\ passphrase \in Passphrases \cup {NULL}
  /\ visit \in [Readers -> Visit]
  /\ cache \subseteq Kept
  /\ wasPublic \in BOOLEAN
  /\ leaked \in BOOLEAN

DownloadsInit ==
  /\ Init
  /\ passphrase = NULL
  /\ visit = [v \in Readers |-> NoVisit]
  /\ cache = {}
  /\ wasPublic = FALSE
  /\ leaked = FALSE

-----------------------------------------------------------------------------
SetPassphrase(p) ==
  /\ passphrase' = p
  /\ wasPublic' = (wasPublic \/ p = NULL)
  /\ UNCHANGED leaked

\* entryPost stores the file with a passphrase or without one.
EntryPost(p) ==
  /\ InsertEntry
  /\ SetPassphrase(p)
  /\ UNCHANGED <<visit, cache>>

\* entryPut: an empty passphrase removes the one that was there.
EntryPut(p) ==
  /\ upload = "stored"
  /\ p # passphrase
  /\ SetPassphrase(p)
  /\ visit' = [v \in Readers |-> [visit[v] EXCEPT !.hops = 0]]
  /\ UNCHANGED <<vars, cache>>

\* A visitor opens a link, or submits the form; nobody knows the link before
\* the upload has been answered.
Navigate(v, page) ==
  /\ upload \in {"stored", "removed"}
  /\ visit[v] = NoVisit
  /\ fr[v].at = "idle"
  /\ visit' = [visit EXCEPT ![v].page = page]
  /\ UNCHANGED <<vars, passphrase, cache, history>>

Protected == passphrase # NULL

\* Mutant: the header is set only when the visitor is sent away.
NoStore_OnlyRedirects(v, page) == Protected /\ v \notin Managers

\* Mutant: the unlock page may be kept, like any page of an open file.
NoStore_NotUnlock(v, page) == Protected

\* entryGet and entryPreviewGet set Cache-Control: no-store for an entry with
\* a passphrase, before they look at the visitor.
NoStore(v, page) == Protected \/ page \in {"unlock", "post"}

\* The cache keeps an answer, or not, if it may.
Keep(v, page, answer) ==
  \/ cache' = cache
  \/ /\ ~NoStore(v, page)
     /\ cache' = cache \cup {[page |-> page, answer |-> answer]}

\* canBypassPassphrase
CanBypassPassphrase(v) == v \in Managers

\* The content goes to v, who has submitted guess with the request, or NULL.
\* Whoever is no manager and submits no passphrase that fits is a stranger.
GetsContent(v, guess) ==
  /\ leaked' = \/ leaked
               \/ /\ ~wasPublic
                  /\ v \notin Managers
                  /\ guess = NULL \/ guess # passphrase
  /\ UNCHANGED wasPublic

\* Reading begins; serveEntryContent and writeEntryContent differ in the
\* record of the download only.
ServeEntryContent(v, page, guess) ==
  /\ ReadEntryFile(v)
  /\ visit' = [visit EXCEPT ![v] = NoVisit]
  /\ Keep(v, page, "content")
  /\ GetsContent(v, guess)
  /\ UNCHANGED passphrase

\* entryUnlockPath or entryDownloadPath, and the visitor goes there.
Follow(v, page) ==
  visit' = [visit EXCEPT ![v].page = IF page = "download" THEN "unlock"
                                     ELSE "download",
                         ![v].hops = @ + 1]

Redirect(v, page) ==
  /\ Follow(v, page)
  /\ Keep(v, page, "redirect")
  /\ UNCHANGED <<vars, passphrase, history>>

\* A page that ends the visit: not found, forbidden, or the form.
AnswerPage(v) ==
  /\ visit' = [visit EXCEPT ![v] = NoVisit]
  /\ UNCHANGED <<vars, passphrase, cache, history>>

EntryGet(v) ==
  /\ visit[v].page = "download"
  /\ GetEntryMetadata
  /\ IF Protected /\ ~CanBypassPassphrase(v)
     THEN Redirect(v, "download")
     ELSE ServeEntryContent(v, "download", NULL)

EntryPreviewGet(v) ==
  /\ visit[v].page = "preview"
  /\ GetEntryMetadata
  /\ IF Protected /\ ~CanBypassPassphrase(v)
     THEN AnswerPage(v)
     ELSE ServeEntryContent(v, "preview", NULL)

NeedsNoUnlock(v) == ~Protected \/ CanBypassPassphrase(v)

EntryUnlockGet(v) ==
  /\ visit[v].page = "unlock"
  /\ GetEntryMetadata
  /\ IF NeedsNoUnlock(v) THEN Redirect(v, "unlock")
     ELSE AnswerPage(v)

\* The visitor submits what he believes to be the passphrase; a wrong one is
\* answered with the form again.
EntryUnlockPost(v, guess) ==
  /\ visit[v].page = "post"
  /\ GetEntryMetadata
  /\ IF NeedsNoUnlock(v) THEN Redirect(v, "post")
     ELSE IF guess = passphrase THEN ServeEntryContent(v, "post", guess)
     ELSE AnswerPage(v)

EntryNotFound(v) ==
  /\ visit[v].page # "none"
  /\ ~GetEntryMetadata
  /\ AnswerPage(v)

\* The cache answers in the server's place.
AnswerFromCache(v) ==
  \E kept \in cache :
    /\ kept.page = visit[v].page
    /\ IF kept.answer = "redirect" THEN Follow(v, kept.page) /\ UNCHANGED history
       ELSE visit' = [visit EXCEPT ![v] = NoVisit] /\ GetsContent(v, NULL)
    /\ UNCHANGED <<vars, passphrase, cache>>

VisitorStep(v) ==
  \/ \E page \in Page : Navigate(v, page)
  \/ EntryGet(v)
  \/ EntryPreviewGet(v)
  \/ EntryUnlockGet(v)
  \/ \E guess \in Passphrases \cup {NULL} : EntryUnlockPost(v, guess)
  \/ EntryNotFound(v)
  \/ AnswerFromCache(v)

DownloadsNext ==
  \/ WriterStep /\ UNCHANGED accessVars
  \/ \E p \in Passphrases \cup {NULL} : EntryPost(p) \/ EntryPut(p)
  \/ \E v \in Readers : VisitorStep(v)
  \/ \E v \in Readers : ReaderStep(v) /\ UNCHANGED accessVars

DownloadsSpec == DownloadsInit /\ [][DownloadsNext]_allVars

-----------------------------------------------------------------------------
\* Until its owner stores it without a passphrase, nobody gets the content of a
\* file but its managers and those who submit the passphrase with the request:
\* not from a handler, whichever page is asked for, and not from a cache that
\* has answered a manager before (no-store of entryGet and entryPreviewGet).
PassphraseKeepsStrangersOut == ~leaked

\* entryGet and entryUnlockGet send visitors to each other.  Nobody is sent
\* twice unless the passphrase has changed in between, whatever a cache
\* has kept of the time before the change.
RedirectsEnd == \A v \in Readers : visit[v].hops <= 1

=============================================================================
