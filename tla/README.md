# A formal model of PicoShare

PicoShare is a file-sharing web server: a single Go process in front of one
SQLite database. Logged-in users upload files and hand out links; guests upload
through guest links; every file has an expiration time, and a garbage collector
purges what is no longer needed. The code is small and mostly sequential per
request. What makes it hard is that every request runs in its own goroutine,
that the handlers check in one statement and act in another, that an upload is
deliberately *not* a transaction, and that the collector and a crash may fall
anywhere in between. This directory models that part in TLA+, checks it with
TLC and proves the main results with TLAPS for every number of users, files,
links and requests.

All line references are to this repository, under `src/`.

## 1. Inventory

| Component | State it keeps | Operations | Correct when |
|---|---|---|---|
| **Uploads** (`handlers/upload.go`, `store/sqlite/entries.go`, `file/writer.go`) | tables `entries`, `entries_data`; per request: form, id, writer position | `entryPost`, `guestEntryPost`, `entryPut`; `InsertEntry`, `UpdateEntryMetadata` | a stored file has exactly its chunks; what failed leaves nothing behind for ever; an edit does not recreate a file |
| **Downloads** (`handlers/download.go`, `store/sqlite/downloads.go`, `file/reader.go`) | table `downloads`; per request: reader offset and length | `entryGet`, `entryUnlockPost`, `NewReader`, `Read`, `Seek`, `InsertEntryDownload` | what is served as complete is complete; history belongs to existing entries |
| **Ownership and deletion** (`handlers/ownership.go`, `handlers/delete.go`, `picoshare/user.go`) | none of its own | `manageableEntry`, `manageableGuestLink`, `DeleteEntry` | only owner or administrator removes a file before its time |
| **Guest links** (`handlers/guest_links.go`, `store/sqlite/guest_links.go`, `picoshare/guest_link.go`) | table `guest_links` | create, delete, enable, disable, `IsActive` | limits hold; uploads belong to the link's owner and outlive the link |
| **Settings** (`handlers/settings.go`, `store/sqlite/settings.go`) | table `settings` | `settingsPut`, `ReadSettings` | one row; cap and retention take effect on later operations |
| **Garbage collection** (`garbagecollect/`, `store/sqlite/cleanup.go`) | a mutex, `lastRun`; per run: the step and a cutoff | `StartAsync`, `Collect`, `Purge` | deletes what expired, nothing else, and does so in the end |
| **Users and administrators** (`store/sqlite/users.go`, `handlers/members.go`) | table `users` | `RecordUserLogin`, `GrantAdmin`, `RevokeAdmin` | first user, and only he, becomes administrator by login; never no administrator |
| **Sessions** (`store/sqlite/sessions.go`, `handlers/auth.go`) | table `sessions`, a cookie per browser | `completeLogin`, `authDelete`, `loadSession` | a logout or a new login ends the old session; an accepted session ends by nothing else, an expired one is deleted; a demotion takes effect on the next request |
| **Setup and OIDC settings** (`handlers/setup.go`, `store/sqlite/oidc_settings.go`, `cmd/picoshare/main.go`) | the single row of `oidc_settings`, with `setup_token_hash` | `setupPost`, `adminOIDCSettingsPut`, `ensureSetupToken`, `runResetOIDC` | configured at most once per token |
| **OIDC client** (`handlers/auth/oidcauth/`) | cached provider, login-state cookie | `Redirect`, `Callback`, `ensureProvider` | a login uses the provider of the settings it has read |
| **Passphrases** (`picoshare/passphrase.go`, `handlers/download.go`) | hash in `entries` | `entryUnlockPost` | contents only with the passphrase, or to its manager |
| **Lifetimes** (`picoshare/file_lifetime.go`, `handlers/parse/`, `picoshare/download_history_retention.go`; the pages in `handlers/views.go` that offer them) | none; between page and post, the browser | `settingsGet`, `uploadGet`, `guestUploadGet`; conversions between days, lifetimes and dates | forms show what is stored; what a page offers is accepted; what is stored is within the limits |
| **Disk usage** (`space/`, `systemInformationGet`) | none | `MeasureUsage`, `TotalSize`, `ReclaimableBytes` | no number wraps around; the page is answered |
| Other views, languages, HTTP plumbing, migrations, identifiers | none the properties tell apart | rendering, routing | see section 8 |

**How they interact.** Handlers call the store synchronously; the store is a
`*sql.DB`, a *pool* of connections, so statements of different requests
interleave freely. A statement is atomic; so is a transaction
(`DeleteEntry`, `DeleteGuestLink`, `deleteExpiredEntries`, `RecordUserLogin`).
Nothing holds a lock between a permission check and the store call it permits.
The collector runs in a goroutine of its own and on an administrator's demand,
under a mutex that the page for system information takes as well. `PRAGMA foreign_keys = 1` is executed once, by `New`, on
whichever pooled connection ran it (`store/sqlite/sqlite.go:46-50`); SQLite
keeps that setting per connection, so other connections do not enforce foreign
keys.

**What is hard.** Uploads race with the orphan sweep and with the deletion of
their guest link; downloads race with deletions; checks go stale before they
are used; a purge that fails, or a crash, cuts a sequence of statements short;
`users` is decided inside deferred transactions that may abort. Every such
place is a hazard with its line in `PROJECT.json`.

## 2. Modules

| Module | What it is |
|---|---|
| `EntryStore` | The core: tables `entries`, `entries_data`, `guest_links`, `downloads` and `settings`, the handlers that change them, the collector and crashes; each of its entries implements `PlainFile` |
| `MCEntryStore` | Symmetry sets for TLC; the instances are the `EntryStore_*.cfg` files |
| `EntryStoreProofs` | The inductive invariant of `EntryStore`, its theorems, the refinement, and that purges get through |
| `UserDirectory` | Abstract: who has an account, who is administrator, who inherited the older files; every change at once |
| `Accounts` | Tables `users` and `sessions`: the login transaction, logouts, promotions, demotions, the purge of sessions, crashes; implements `UserDirectory` |
| `MCAccounts` | Symmetry set for TLC; the instances are the `Accounts_*.cfg` files |
| `AccountsProofs` | The inductive invariant of `Accounts`, its theorems, and the refinement |
| `SingleSignOn` | The row of `oidc_settings`, the setup token, setup and the administrators' page, `-reset-oidc` beside the server, the cached provider and its mutex |
| `MCSingleSignOn` | Client ids and secrets for TLC; the instances are the `SingleSignOn_*.cfg` files |
| `SingleSignOnProofs` | The inductive invariant of `SingleSignOn`, its theorems, and that logins end |
| `GuestLimitProofs` | The upload limit of guest links, by counting uploads in flight; extends `EntryStoreProofs` |
| `PlainFile` | Abstract: one file is a sequence of bytes, a response announces a part of it and sends that part in order; a crash ends every response |
| `FileChunks` | Writer, rows of `entries_data`, `fileReader` and `http.ServeContent` in bytes; implements `PlainFile` |
| `FileChunksProofs` | The inductive invariant of `FileChunks`, its theorems, and the refinement |
| `Downloads` | Extends `FileChunks`: passphrases, the pages that ask for them, redirects, and a shared cache in front |
| `MCDownloads` | The instance for TLC, `Downloads_downloads.cfg` |
| `DownloadsProofs` | What `FileChunksProofs` shows, carried over to `Downloads`, and the theorems on access |
| `Lifetimes` | Settings page, upload pages, and what is posted from them later |
| `MCLifetimes` | Moments, links and expirations for TLC, `Lifetimes_lifetimes.cfg` |
| `LifetimesProofs` | Arithmetic of days, the inductive invariant of `Lifetimes`, its theorems |
| `Maintenance` | The collector's mutex and record, the scheduler's ticker, `cleanupPost`, the page for system information |
| `MCMaintenance` | File system statistics for TLC, `Maintenance_maintenance.cfg` |
| `MaintenanceProofs` | The inductive invariant of `Maintenance`, its theorems, and that everybody is answered |

### EntryStore and the code

| State | Code |
|---|---|
| `entries[e]` | the row of `entries` with id `e`, or `NULL`: guest link, owner, expiration |
| `entriesData[e]` | the `chunk_index` values stored for `e` in `entries_data` |
| `guestLinks[l]` | the row of `guest_links`, or `NULL` |
| `downloads` | rows of `downloads`: entry and time |
| `settings` | the single row of `settings` |
| `admins` | the rows of `users` with `is_admin = 1` |
| `req[r]` | the local variables of the goroutine that serves request `r`, and where it is: `op` |
| `gc` | the step of `Purge` in progress, and the cutoff it has computed |
| `now` | `time.Now`, in units of the shortest lifetime |
| `fate`, `sent`, `swept`, `retired`, `req[r].got`, `req[r].demoted`, `gc.periods` | history, read by no guard but the freshness of ids; `demoted`: a deletion's user has lost the role since the request began; `periods`: the retentions in force since the collection began |

An action is one atomic statement or transaction of SQLite, with the Go code
that runs around it up to the next one. A request that deletes a file is two
actions: `EntryDelete` (`manageableEntry`: load and check) and `DeleteEntry`
(the transaction). Between them `GrantAdmin` and `RevokeAdmin` may change the role
that `loadSession` has read. An upload is `EntryPost` or `GuestEntryPost` (what is checked
before the body is read), `BodyReceived`, one `WriteChunk` per flush of the
writer, and `InsertRow`; at any point it may fail instead. A download is
`EntryGet`, `OpenReader` (`NewReader` derives the length from the last chunk),
one `ReadChunk` per `populateBuffer`, `ServeContentReturns`, `RecordDownload`.
`Purge` is one action per statement or transaction. `Restart` is a crash: the
tables survive, the goroutines do not.

Chunks are indexes, not bytes; names, notes, content types, passphrases and the
text of answers are not told apart. A request that is refused changes nothing
and is not a step.

### Accounts and the code

| State | Code |
|---|---|
| `members`, `admins` | the rows of `users`, and those with `is_admin = 1` |
| `legacyOwner` | `owner_user_id` of the entries and guest links that predate accounts (`claimOwnerlessRows`) |
| `sessions[t]` | the row of `sessions` for token `t`, or `NULL`: user and expiration |
| `req[r]` | the goroutine of request `r`: where it is, its identity or target, its cookie, what its transaction has read (`found`, `first`), and whether its snapshot is out of date (`stale`) |
| `writer` | the request whose transaction holds SQLite's write lock |
| `drawn`, `req[r].sole` | history: the tokens handed out, and whether the user to be demoted was the only administrator at some moment |

`RecordUserLogin` is a *deferred* transaction in WAL mode, so it is three
actions: `LoginReads` (the snapshot), `LoginWrites` (the first write, which
needs the write lock and a snapshot nobody has outdated) and `LoginCommits`.
Any commit between the first two, even of an unrelated upload (`OtherWrite`),
makes the login fail with `SQLITE_BUSY_SNAPSHOT` and the answer 500. (The
comment at `users.go:102` says "that login simply retries"; no code does, so it
is the user who tries again, and the model lets him.) `completeLogin` goes on with
two more statements, `RevokeOldSession` and `InsertSession`. `RevokeAdmin` is
its UPDATE and, if that changed nothing, the SELECT for the reason
(`RevokeReason`). `requireAdmin` reads the session and the user in one step
before any of that, and what it read may be stale when the store is called.

### SingleSignOn and the code

| State | Code |
|---|---|
| `oidc` | the settings columns of the row of `oidc_settings`, or `NULL` before setup |
| `setupToken` | the token whose hash is in `setup_token_hash` |
| `server` | the server process: not running, between `NeedsSetup` and `GenerateSetupToken`, listening |
| `resets[p]` | a process `picoshare -reset-oidc`: before or after `ClearOIDCSettings` |
| `provider`, `holder` | `Client.provider`, known by the settings it was made from, and the holder of `Client.mu` |
| `req[r]` | the goroutine of request `r`: the settings it is to save or has read, the setup token it presented, the provider it was given |
| `drawn`, `spent`, `printed`, `cut` | history: tokens drawn, tokens that setup has used up, what a reset printed, whether a reset died half-way |

The docs run `-reset-oidc` with `docker exec`, beside the running server, so a
reset is a process of its own with two steps. `setupPost` and
`adminOIDCSettingsPut` are two steps each: the checks (the setup token, or the
stored secret in place of a blank one), and `UpdateOIDCSettings`. A login or
callback reads the settings first, then waits for the mutex, and then uses the
cached provider or asks the identity provider for discovery while it holds the
mutex. `settingsFingerprint` is modelled as what it is, a sequence of characters
with bars between the fields. Client ids and secrets are sequences of characters
that may hold bars too, as `NewOIDCClientID` and `NewOIDCClientSecret` accept them,
and in the instance two settings have the same fingerprint.

### FileChunks, Downloads and the code

| State | Code |
|---|---|
| `upload`, `size` | where `InsertEntry` is, and the length of the body |
| `written`, `buf` | the fields of `writer`; what earlier chunks left in the buffer stays there |
| `chunks[i]` | the row of `entries_data` with `chunk_index` *i*, with its bytes |
| `fr[r]` | the `fileReader` of goroutine `r` (`chunkSize`, `fileLength`, `offset`, `buf`), and the part that its response has announced and sent |
| `passphrase` | `entries.download_passphrase` |
| `visit[v]` | the page a visitor asks for, and how often he was redirected |
| `cache` | answers a shared cache may have kept, by `Cache-Control` |
| `swept`, `visit[v].hops`, `wasPublic`, `leaked` | history; `leaked`: a stranger got content of a file that was never stored without a passphrase |

Byte *i* of the upload is the number *i*, so a byte in the wrong place is seen.
`Write` takes pieces of any length, as `io.Copy` reads them; `Close` flushes the
rest. `NewReader` is two queries, `GetChunkSize` and `GetFileLength`, after the
query of `GetEntryMetadata`, and the file may be deleted between any two.
`ServeContent` seeks to the end, back to the beginning and into the range, as
`http.ServeContent` does, and then reads through `ReadBuffer` and
`PopulateBuffer`; the library's part is modelled from its documented use of an
`io.ReadSeeker` and marked external. `EntryStore` has the same life of a file
without the bytes, but with everything around it, and implements `PlainFile` as
well: chunks take the place of bytes (`StoredLength`, `ResponsesTo`), every
response is of the whole file, and a `Restart` is `PlainFile`'s `Crash`.

In `Downloads` a visitor is a reader that first goes through `entryGet`,
`entryPreviewGet`, `entryUnlockGet` or `entryUnlockPost`. Answers of status 404
are not offered to the cache: the handlers set no header on them, and a kept 404
delivers nothing.

### Lifetimes and the code

| State | Code |
|---|---|
| `row` | the row of `settings`: days, and `NULL` for no limit |
| `page` | what the browser shows: the fields of the settings page, or a list of dates one of which is preselected, and the moment it was rendered |
| `upload` | the upload it has posted, checked and not yet stored, or stored |
| `isAdmin` | whether the browser's user is an administrator |
| `fresh`, `upload.changed` | history: whether anything that the page, or the check, depended on has changed since |

Durations and moments are in a unit finer than a second, since `formatExpiration`
drops fractions and the comparisons do not; an hour and a second are constants.
`Days` is a conversion to `uint16`, the columns are written as `int16`, and both
keep their width. `FormOf` is `settingsGet`, `Payload` the script of the page,
`SettingsFromRequest` and `Stored` the way back to the row.

### Maintenance and the code

| State | Code |
|---|---|
| `call[t]` | what goroutine `t` does in `Collect`, `cleanupPost` or `systemInformationGet` |
| `holder`, `lastRun` | `Collector.mu` and `Collector.lastRun` |
| `purge` | the next statement of `Purge`, and whether one failed |
| `item[i]` | a piece of space: rows that some step of `Purge` will find, free pages, pages outside the database but still in its file (`"wal"`), or none of these |
| `incremental` | whether the database is in incremental auto-vacuum mode |
| `tick` | the channel of the scheduler's `time.Ticker`, which holds one tick |
| `overdue`, `answered`, `call[t].owed`, `call[t].since` | history |

What `Purge` does to files is in `EntryStore`, and to sessions in `Accounts`; here
a step frees what is due for it. `incremental_vacuum` takes free pages out of the
database if that is in incremental auto-vacuum mode, and otherwise does nothing and
succeeds (`AfterStep`); `enableIncrementalVacuum` tries to set the mode at each start
and may fail, for lack of room for its VACUUM. The file itself shrinks at a
checkpoint, which `Purge` leaves to Litestream if that is in use, and whose "busy"
result it ignores; so the checkpoint may do nothing.

### How the modules fit together

`Downloads` extends `FileChunks` and shares its variables: every step of a visitor
that starts to read is a step of both. The other state machines share no
variable. A login leaves `SingleSignOn` with an identity (`LoginEnds`) and enters
`Accounts` (`LoginReads`); `EntryStore` takes accounts as given and has promotions and demotions as single
steps, which `Accounts` has in detail; `Accounts` takes
everything the rest of the server writes as `OtherWrite`. `Accounts` and
`EntryStore` meet in `claimOwnerlessRows`, which touches rows older than accounts
only, and which `EntryStore` therefore does not have. `Lifetimes` and `EntryStore`
both have `settingsPut` and the check of the cap: `EntryStore` in whole lifetimes,
with the files that depend on it and with `entryPut`, which checks the cap too;
`Lifetimes` in time units, with the pages. `FileChunks` and `EntryStore` both have
uploads, sweeps and downloads: the one in bytes of one file, the other in chunk
indexes of all files.

## 3. What is checked

| Run | Instance | Properties |
|---|---|---|
| `files` | 2 requests, 1 id, files of up to 2 chunks, 1 guest link with limit 1, lifetime 1, clock 0..2 | `TypeOK`, `StoredFileIntact`, `NoStrayChunks`, `NoSilentTruncation`, `GuestUploadOwner`, `GuestOvershootBounded`, `StoredFileStable`, `NoResurrection` |
| `liveness` | two users, one of them administrator at first, 1 request, 1 id, retention of 1 or none, no cap, fair collector | `ExpiredEventuallyRemoved`, `LeftoversEventuallyPurged`, `HistoryKept`, `OnlyExpiryOrManagerRemoves`, `EntriesArePlainFiles` |
| `accounts` | 2 users, 2 requests, 2 session tokens, session lifetime 1, clock 0..1, fair purges | `TypeOK`, `SomeAdministrator`, `ImplementsDirectory`, `SessionsEndByTheirHolder`, `ExpiredSessionsGo` |
| `signon` | 2 requests, 1 reset process, 2 setup tokens, 2 client ids and 2 client secrets that give 3 fingerprints | `TypeOK`, `SpentTokensAreRefused`, `SetupIsPossible`, `ProviderFitsSettings`, `LoginsEnd` |
| `downloads` | chunks of 2 bytes, files of 1, 4 or 5 bytes, a manager and a stranger, 1 passphrase | `AccessTypeOK`, `DeliveredIsFile`, `WholeFileOrError`, `PopulateAdvances`, `ImplementsPlainFile`, `PassphraseKeepsStrangersOut`, `RedirectsEnd` |
| `lifetimes` | days of 96 units, 5 moments, default of 3 or 400 days, cap of 2, 31 or none, 4 link lifetimes | `TypeOK`, `SettingsFormIsFaithful`, `OfferedIsAccepted`, `UploadOffers`, `StoredWithinLimits` |
| `maintenance` | scheduler, one cleaner, one viewer, 1 piece of space that falls due as files or sessions, with and without incremental auto-vacuum, clock 1..2, 1 crash, 4-bit integers | `TypeOK`, `CleanupCovers`, `PageIsCurrent`, `CallsAnswered`, `EveryTickCollects` |
| `swept`, `ownerless`, `orphans`, `refusal`, `recovery` | expected violations, section 5 | one each |

**Why these bounds.** Every property of `EntryStore` speaks of one file or one
link, and actions on different files touch disjoint rows, so one id is the
hardest case that fits. Two requests put an upload and a download, a download
and a deletion, or two guest uploads in flight together with the collector and a
crash, which are actors of their own. With a limit of one file, two guest uploads
admitted together are an overshoot, of the one file that the bound allows; the
theorem `GuestOvershootStaysBounded` has it for all numbers of files and requests. Two chunks tell a
first, a last and a missing chunk apart.
`EntriesArePlainFiles` is evaluated on every step and too slow for `files`; the run
`liveness` has one request that meets the collector, the sweep and crashes, and
for several requests there is the theorem `EntriesImplementPlainFile`. With lifetime 1 and clock 0..2 a file
is fresh, exactly at, and past its expiration; retention 1 does the same for
the download history. The runs of `EntryStore` have
no caps, as none of their properties depends on how an expiration was limited; the
theorems are for all caps, and `lifetimes` is the run about them. For `Accounts`, two
requests let two logins or two demotions overlap, while the commit that outdates
both snapshots may come from `OtherWrite`, and
two users are enough for a race to be first and for mutual demotion; with lifetime
1 and clock 0..1 a session is fresh or exactly at its expiration. Liveness is what
keeps the run from three requests; the theorems are for any number. For `SingleSignOn`, two requests are two
saves, or a save against a login, or two logins with different settings; two
setup tokens allow a first start and a reset, or another start.
For `Downloads`, files of 1, 4 and 5 bytes end within a first chunk, with a full
one, and within a third one, so that a sweep can leave a last chunk alone or two
chunks; the two visitors differ in their rights, and ranges take all values. For
`Lifetimes`, caps lie on both sides of `DenseLifetimeCapThresholdDays`, defaults on
both sides of a year and of either cap, links are between two built-in lifetimes,
at one, at "never" and beyond it, and the moments are just after a page was made
and around the hour in which its shortest lifetime ceases to be accepted; a
second has two units, so that a fraction can be dropped. For `Maintenance`, three
goroutines and the one that holds it contend for the mutex; statistics fit, fit
only as numbers of blocks, or do not fit in `int64`, here 0..7.
The theorems of section 6 carry no such bound.

**What the properties say.** `StoredFileIntact`, `StoredFileStable` and
`NoStrayChunks` say together that `entries` and `entries_data` stay in step
although `InsertEntry` is no transaction. `NoSilentTruncation`: a download that
runs to its end delivered everything, whatever was deleted under it.
`NoResurrection`: a late `UpdateEntryMetadata` does not bring a file back.
`GuestUploadOwner`: ownership follows the link while there is one and stays
afterwards. `EntriesArePlainFiles`: a download finds a length that is the stored
one, sends the chunks in order, and is neither shortened nor mixed with another
file's chunks by whatever is uploaded, edited, deleted, purged or restarted around
it; it may break off. `GuestOvershootBounded`: the check of `max_file_uploads` is racy by
construction, but the overshoot is smaller than the number of requests.
`OnlyExpiryOrManagerRemoves`: "a change to a user's admin status takes effect on
their very next request" (`handlers/auth.go:139-140`), and not before it: one who is
demoted between `manageableEntry` and `DeleteEntry` still deletes what he was
permitted to, and nobody deletes who was not permitted during his request.
`HistoryKept`: a retention set to forever after `ReadRetention` comes too late for that
collection, which deletes up to the cutoff it has computed; the property says that
nothing goes but what some retention in force during the collection gives up, and so
nothing at all if history was to be kept forever throughout.

`SomeAdministrator`: two administrators who demote each other, each with a
permission that was read before, never leave none. `ImplementsDirectory`: the
deferred transactions, aborts and crashes of `Accounts` have the effect of the
atomic operations of `UserDirectory`: only one user is ever the first.
`SessionsEndByTheirHolder`: although `completeLogin` is
three statements, no session is taken from a user before it has expired, by the
purge or by somebody else's login or logout. `ExpiredSessionsGo`: and every session that
`GetSessionUser` no longer accepts is deleted, although logins take the write lock
from the purges, fail in the middle of their transaction and crash.

`ImplementsPlainFile`: rows, offsets and buffers behave like one sequence of bytes
that is announced at its true length, deleted at one moment, and never read past
a part's end; `DeliveredIsFile` says the same of each byte. Both are for uploads no
sweep has met. Of the others `WholeFileOrError` says what remains true: a damaged
file may be announced with the wrong length, but a response from its start
breaks off rather than ends as if it were whole, because the chunk looked for first
is the one that is gone. `PopulateAdvances`: the offset that `Seek` and
`populateBuffer` compute always lies inside the chunk that is found, damaged file
or not, so the slice cannot panic and `Read` cannot loop. `PassphraseKeepsStrangersOut`:
whoever is no manager and does not submit the passphrase gets nothing of a file that
has had one from the beginning, whichever page he asks for, and not from a cache that
answered a manager before: the header is set before the visitor's rights are looked
at. A file that was public for a time is not covered: what a cache kept then it may
go on to answer with, and no later header recalls it. `RedirectsEnd`: the two pages that redirect to each other agree
on who needs the form, and no kept redirect makes a circle with a fresh one.

`SettingsFormIsFaithful`: the settings page, saved untouched, changes nothing.
`OfferedIsAccepted` and `UploadOffers` relate the page's comparison in whole days
and its truncated dates to the post's comparison of moments, later.
`StoredWithinLimits` is what the check before the body is worth when the body has
arrived. `CleanupCovers`: an administrator who is told that the cleanup is done
knows that what was expired or orphaned when he asked is deleted, even if he waited
for the scheduler's purge, and that its pages and those that were free have left the
database, if it is in incremental auto-vacuum mode. Without that mode, after a failed
VACUUM, he is told the same and free pages stay (`store/sqlite/sqlite.go:100-106`).
That the *file* has shrunk is not promised in any mode: the checkpoint may be left to
Litestream or be blocked by a reader. `PageIsCurrent`: the page never shows a run older than one that
was reported before it was asked for. `TypeOK` of `Maintenance` contains that the
sizes on the page have not wrapped around.

## 4. Fairness

`FairSpec` asks for two things. `WF(Collect)`: `StartAsync`'s ticker fires again
and again (`garbagecollect/schedule.go`), every seven hours in
`cmd/picoshare/main.go`. `SF` of each step of `Purge`: a step may fail
(`PurgeFails`) or be cut off by a crash (`Restart`), and then the whole purge is
tried again at the next tick; strong fairness says that the database does not
fail for ever. Weak fairness would not do, since a failure disables the step.
Nothing is asked of clients, of the clock or of crashes: uploads may hang for
ever, and do in the liveness run.

`SingleSignOn`'s fairness is `WF` of the end of a discovery and of an exchange,
which `requestTimeout` (15 seconds) brings about, and `SF` of entering
`ensureProvider`'s mutex (`EnsureProviderIsFair`): Go's `sync.Mutex` hands itself to a waiter that has
starved for a millisecond, so nobody who waits is passed over for ever.
Discovery may fail every time, the settings may change all the time, and the
server may stop; a login still ends.

`Accounts` asks for `SF` of `deleteExpiredSessions`, which finds the write lock taken now
and then, for the reason given for `Purge` above, and for `WF` of the end of a
transaction that holds the lock (`TransactionEnds`): between its first write and its
COMMIT or deferred rollback `RecordUserLogin` waits for nobody. Logins may fail every
time.

`Maintenance` asks for `WF` of the statements of `Purge` and of the scheduler's loop,
for `SF` of taking the collector's mutex, for the same reason as above, and for the
measurements to return, if with an error. Purges may fail every time; callers are
answered all the same (`CallsAnswered`), and a tick that falls into a collection is
kept by the ticker's channel (`EveryTickCollects`).

## 5. Where the code and its documentation disagree

* **`swept`.** `deleteOrphanedRows` deletes the chunks of every id that has no
  row in `entries` (`store/sqlite/cleanup.go:110-141`). An upload in progress
  has none until its last statement. A purge that runs between two flushes
  deletes what was written so far; the upload then succeeds, is answered with
  200, and can never be downloaded. The comment speaks only of insertions that
  failed. `StoredFileIntact` therefore carries the exception `e \notin swept`,
  and the run shows that it is needed.
* **`ownerless`.** A guest link deleted while a file is uploaded through it
  leaves an entry without owner that names a missing link. Migration 019 says
  such entries only predate multi-user support. On the one connection that
  enforces foreign keys the INSERT fails instead; on all others it succeeds.
* **`orphans`.** A download recorded after its entry was deleted stays in
  `downloads` for ever unless a retention is set. `Purge` is documented to
  clear orphaned rows.
* **`refusal`.** `RevokeAdmin` reads the reason for a refusal in a second
  statement. If the user was no administrator at the first and is promoted
  before the second, the caller is told that he cannot remove the last
  administrator, though there were others all the time.
* **`recovery`.** `-reset-oidc` prints a setup token and asks for a restart; the
  restart finds no settings and draws another token, so the one printed is
  refused. Whoever is locked out has to look for the later one in the log.

More, which the models reach and no property of a run states. Two requests with the same setup token can
both be accepted when both were validated before either saved
(`handlers/setup.go:66`); those that arrive later are refused
(`SpentTokensAreRefused`). A save between the two statements of a reset leaves
the settings complete and a token outstanding (`cmd/picoshare/main.go:127`).
`settingsFingerprint` (`client.go:308`) gives the same fingerprint to client id
`a|b` with secret `c` and to client id `a` with secret `b|c`; a login that has read the
one may then get the provider of the other, although the comment says "so a settings
change invalidates the cache" (`client.go:305-307`). The run `signon` reaches this, and
`ProviderFitsSettings` has the exception `IsPlain`: it speaks of logins whose own
settings have no bars, whatever the settings of others. Without the exception TLC
finds it violated. `FileLifetime.LessThan` compares with `==`
(`picoshare/file_lifetime.go:59-61`), so "add it and sort the list"
(`handlers/views.go:630-631`) does not sort; nothing in the server depends on the
order. A guest link with a lifetime beyond that of `FileLifetimeInfinite` offers
"never" and then refuses it (`OfferedIsAccepted` has the exception). Of a swept file
of which only the last, shorter chunk is left, `getChunkSize` takes that chunk's
length for the chunk size (`file/reader.go:145`): the length announced is wrong, and
a range request may deliver bytes of another position without an error, which is
why `WholeFileOrError` speaks of responses from the start.

## 6. What is proved

Every property of a passing run is a theorem, for all values of the constants:
the safety properties and refinements of the specifications as they stand, and
the six liveness properties from fairness with its guards written out (see the
end of this section).

`EntryStoreProofs` proves the properties of `EntryStore` except
`GuestOvershootBounded`, which has a module of its own. The assumptions on the constants are the named ones of `EntryStore`: `NULL` is
none of the values, bounds are positive, lifetimes, caps, retentions and limits
are positive, and the never-expire date lies beyond the clock's last instant.

None of the invariants is inductive. Whether chunks are missing from a stored
file depends on where its upload was when a purge ran; whether a download is
whole depends on what can have become of its file in the meantime. The
inductive invariant `Inv` adds what relates the tables to the goroutines:

* `RowsAreStored`: a row exists exactly for uploads whose fate is `"stored"`;
* `NothingLeft`: unused ids and removed files have no chunks;
* `WriterState`: a writer at position *n* has written chunks 0..n-1, and a sweep
  can only have taken the first of them (so the last chunk is always there, and
  the reader computes the right length from it);
* `OneWriter`: no two requests write the same id;
* `ReaderState`: a request that reads or manages an id found it stored, and what
  it has delivered is exactly the chunks below its position;
* `LinksAreIssued`: links named anywhere exist or have been deleted, so a new
  link never inherits an upload.

There is one lemma per action or group of similar actions, one step per conjunct
it can disturb. `DeletersMayDelete`, inductive relative to `Inv`, carries the
argument of `OnlyManagersDeleteEarly`: an owner never changes while the row
stays, and who was admitted as administrator is one still or has been demoted since.
`CutoffWasInForce` carries that of `DownloadHistoryIsKept`: the cutoff was computed from a
retention in force after the collection began, and the clock has only moved on.

`EntriesImplementPlainFile` is the refinement of `PlainFile`, for all entries at
once and every number of them; `EachEntryIsAPlainFile` states it with `PlainFile`'s
own `Spec`, which has one more quantifier inside its box than TLC takes. The
argument has four parts. The length of a file is settled while it has a row
(`LengthIsSettled`) and never zero (`UploadsAreNotEmpty`), so that `FileOfStep` maps
every step of an upload, a deletion or a purge to `Store`, `Remove` or a stutter. A
download's own step is one of `Find`, `Announce`, `Send` and `End`
(`ResponseOfDownload`); `Inv` is needed here, to know that the chunk at the reader's
position is the next one. Steps of other requests and of the collector leave a
response alone (`ReadersAreLeftAlone`), unless a sweep takes the file out of the
claim, and a restart ends them all (`ResponsesEndAtRestart`). Finally no step moves
both the file and a response, which is what makes it *one* step of `PlainFile`.

`AccountsProofs` proves every property of the run `accounts`, and with `ImplementsDirectory` that `Accounts` implements
`UserDirectory`, from the one assumption `ConstantsAssumption`. Its inductive
invariant adds to the types:

* `Founded`: there is an administrator, and an heir of the older rows, exactly
  when somebody has an account;
* `RequestState`: what a request holds fits where it is; a transaction that has
  the lock is the writer, and what it read is still true (`Current`), since
  nobody else can commit while it holds the lock;
* a snapshot that is not marked stale is still true as well, which is what
  `MayLock` relies on when the lock is taken.

`Current` is why a second first user is impossible: the transaction that would
make him one read an empty table, and nobody has committed since.
`Bookkeeping`, which the liveness needs, says that the holder of the lock is in its
transaction. `MayRevokeLeavesOne` turns the count in the UPDATE's WHERE clause into the fact
that another administrator remains.

`SingleSignOnProofs` proves the properties of the run `signon`. The
invariant adds that an outstanding token has been drawn (so that a fresh one is
not spent) and that a request which is to save, or to discover, holds settings.
`ProvidersHaveTheFingerprint` is what the cache guarantees whatever is entered: the
provider a login uses and the settings it read have the same fingerprint, although
other logins have replaced the cached one since. `PlainLoginsUseTheirProvider` follows
without an assumption on what is entered: a fingerprint with as few bars as there are
fields to separate can come from one settings only, even among settings with bars
(`PlainFingerprintsDiffer`, from the positions of the bars). `MutexIsConsistent` (exactly the
login in discovery holds the mutex) is proved for the sake of liveness.

`GuestLimitProofs` counts: the files of a link and the uploads in flight through it
stay together below the limit plus the number of requests. Admission is the only
step that adds to the sum, and it sees fewer files than the limit and itself idle;
`InsertRow` turns a request into a file. This is inductive relative to `Inv`, which
excludes that a link just created has uploads. Counting needs
`FinitenessAssumption`: requests and ids are finitely many.

`FileChunksProofs` proves all of `FileChunks`, for every chunk size, every file size
and every way `io.Copy` may cut the body. The invariant has, besides the types:

* `WriterState`, `BufferHoldsRest`: where the writer is, and that the beginning of
  its buffer is the beginning of the next chunk;
* `RowsHoldFile`: a row holds the bytes of its place, and only the last is short;
* `NothingMissing`: no flushed row is missing, but those before a sweep, and then
  the first is;
* `Measured`: a reader's chunk size and length are those of the first and last row
  there is, hence the file's own unless it was swept;
* `Positioned`: offset, buffer and sent bytes of a response add up; of a swept file
  nothing is ever sent from the start.

The lemmas on `\div` and `%` are stated once, for any divisor. `Refinement` takes
each action of `FileChunks` to a step of `PlainFile` under `AbstractLength` and
`AbstractResponses`, or to a stutter; a reader's three queries are one `Find`, and a
sweep ends what `PlainFile` is told of the upload.

`DownloadsProofs` shows that each step of `Downloads` is a step of `FileChunks` or
leaves its variables alone, so that all of this holds behind passphrases and caches
too. `RedirectsEnd` needs two facts about a visitor who has been redirected: he is on
the page that will not send him on (`WellRedirected`), and no cache has kept a
redirect. `StrangersStayOut` needs that a cache keeps content of files only that are or
were public (`PublicInv`).

`LifetimesProofs` proves the safety properties of the run `lifetimes` for every length
of an hour, every cap, default and link lifetime that can be entered, and every
moment before the year 3000. The invariant keeps what the page was made from
(`MadeFrom`); the rest is arithmetic: `Days` undoes `NewFileLifetimeInDays` below
65536, what `settingsFromRequest` lets through survives the column types, what the
page computes survives the form, and the dates of a page exceed the check's limit
neither by the clock that runs nor by the fraction that is dropped.

`MaintenanceProofs` proves the safety properties of the run `maintenance`, for all
numbers of goroutines, pieces of space and crashes. The invariant says that a
purge that has not failed has settled what was owed at its steps so far: what is
owed to the caller who holds the mutex is due for a later step, or free, and then
`incremental_vacuum` is still to come or without effect. `PageIsCurrent` rests on `answered <= lastRun`, which holds whenever
the mutex is held or not.

**Liveness.** tlapm cannot reason about `ENABLED`, on which `WF` and `SF` depend. So
fairness is stated once more with the guard of each step in its place:
`PurgesAreFair` (`EntryStoreProofs`), `PurgesAreFair` and `LocksAreReturned`
(`AccountsProofs`), `CollectorIsFair` and `PagesAreFair`
(`MaintenanceProofs`), `LoginsAreFair` (`SingleSignOnProofs`). For instance
`SF_vars(Lock(t))` becomes: if time and again `t` waits and the mutex is free, then
time and again `t` takes it. The theorems have the form `Spec /\ PurgesAreFair =>
ExpiredEventuallyRemoved`.

That this is the fairness of `FairSpec` is the lemma `FairSpecIsFair` of each module:
`FairSpec /\ []GuardsSuffice` implies it. `GuardsSuffice` says that each guard
makes its step possible, which can be seen from the actions: each is its guard and
an assignment to every variable, one of which changes. It contains `ENABLED` and is
the only thing not proved. TLC, which knows `ENABLED`, checks the six properties
under `FairSpec` itself.

The arguments:

* `ExpiredFilesGo`, `LeftoversGo`: every purge that has begun leaves each of its steps
  by the next step, a failure or a crash (`CollectionMoves`), so that from
  anywhere the collector is at its beginning again and again, and by strong fairness at
  each step again and again (`PurgesGetThrough`). One execution of
  `DeleteExpiredEntries` or of `DeleteOrphanedRows` suffices, since a file that
  has expired stays so until it is edited or removed, and an upload that has failed
  never gets another chunk (`FailedForGood`).
* `EverybodyIsAnswered`, `EveryTickIsFollowed`: the holder of the mutex is in
  `Collect` and each step of it either moves on or returns (`CollectGoesOn`), so the
  mutex is free again and again (`MutexIsReleased`), so everybody who waits locks
  it (`EverybodyLocks`), and a caller leaves the places it goes through in order
  (`CallGoesOn`). A tick is kept until the scheduler takes it (`TickKept`), and
  `RolesAreKept` says which goroutine can be in which place.
* `ExpiredSessionsAreDeleted`: a session that is no longer accepted never is again, as
  no row changes in place. Whoever holds the write lock keeps it to himself
  (`HolderUndisturbed`) and gives it back, so it is free again and again, and by
  strong fairness the purge runs.
* `EveryLoginEnds`: as for `Maintenance`, with discovery in place of the purge. The mutex is held
  only by a login in discovery (`MutexIsConsistent`), which ends.

**Only model-checked**: that `FairSpec` as written, with `ENABLED`, implies the six
liveness properties. Liveness of `Downloads` and `Lifetimes` is not claimed: whether a
client reads on is not the server's to promise.

## 7. Plan

What is left, by what it would add.

1. The attempt cookie of a login (state, nonce and verifier between `Redirect` and
   `Callback`), and a composition of `SingleSignOn` with `Accounts`, in which only
   administrators change the settings.
2. `FileChunks` and `EntryStore` in one module, so that the sweep of the one is the
   collector of the other. That both implement `PlainFile` says already that they
   agree on what a client sees of a file.
3. The language of a page (`handlers/language.go`), a choice among a cookie, a
   header and the default.

## 8. Not modelled, and why

Pages other than the four in section 1 render what they read; routing, headers
other than `Cache-Control`, static files and translations hold no state that a
property here could depend on. `resolveLanguage` and `languagePut` choose among
translations per request and store one cookie. Schema
migrations run once, before anything else, on one connection. Random identifiers
are assumed fresh: `EntryStore` draws only unused ids. Cryptography (passphrase
hashes, OIDC tokens, cookies' contents) is the libraries'. SQLite itself is
assumed to do what it says: a statement is atomic, a transaction is isolated, and
a deferred transaction whose snapshot is out of date cannot become a writer.
Which status code a failed upload is answered with is not modelled, nor is the order
in which a page lists lifetimes. The attempt cookie of a login is not told apart.
