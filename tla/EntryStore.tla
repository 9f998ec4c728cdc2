----------------------------- MODULE EntryStore -----------------------------
(***************************************************************************)
(* The file store of PicoShare: the tables entries, entries_data,          *)
(* guest_links, downloads and settings, the HTTP handlers that read and    *)
(* change them, and the garbage collector that purges them.                *)
(*                                                                         *)
(* Every statement or transaction that SQLite runs atomically is one       *)
(* action; a handler that issues several of them is several actions, and   *)
(* the handlers of concurrent requests, the collector and a crash of the   *)
(* process interleave between them.  A request that a handler rejects      *)
(* (4xx) changes nothing and is a stuttering step.                         *)
(*                                                                         *)
(* Abstractions: a chunk is its index; a file is the number of its chunks; *)
(* file names, notes, content types and passphrases are not told apart;    *)
(* time passes in units of the shortest lifetime a client may ask for.     *)
(***************************************************************************)
EXTENDS Integers, FiniteSets

CONSTANTS
  Users,         \* logged-in users; accounts are never deleted
  Admins,        \* those who are administrators at first
  EntryIDs,      \* identifiers picoshare.NewEntryID can draw
  GuestLinkIDs,  \* identifiers generateGuestLinkID can draw
  Requests,      \* goroutines that serve HTTP requests
  MaxChunks,     \* BOUND: the longest file, in chunks
  MaxTime,       \* BOUND: the last instant of the clock
  NeverExpire,   \* picoshare.NeverExpire, a date nobody lives to see
  Lifetimes,     \* finite lifetimes a client or a guest link may ask for
  Caps,          \* caps an administrator may put on non-admin lifetimes
  Retentions,    \* periods for which he may keep the download history
  CountLimits,   \* values of max_file_uploads: positive, or NULL
  NULL           \* SQL's NULL

ASSUME SetsAssumption ==
  /\ Admins \subseteq Users
  /\ NULL \notin Users \cup EntryIDs \cup GuestLinkIDs \cup Nat

\* Ids are drawn from finitely many strings, and memory holds finitely many
\* goroutines.
ASSUME FinitenessAssumption == IsFiniteSet(EntryIDs) /\ IsFiniteSet(Requests)

ASSUME BoundsAssumption ==
  /\ MaxChunks \in Nat \ {0}
  /\ MaxTime \in Nat
  /\ NeverExpire \in Nat
  /\ NeverExpire > MaxTime

ASSUME InputsAssumption ==
  /\ Lifetimes \subseteq Nat \ {0}
  /\ Caps \subseteq Nat \ {0}
  /\ Retentions \subseteq Nat \ {0}
  /\ CountLimits \subseteq (Nat \ {0}) \cup {NULL}

VARIABLES
  now,          \* the clock
  entries,      \* table entries: id -> row, NULL where there is no row
  entriesData,  \* table entries_data: id -> indexes of the chunks stored
  guestLinks,   \* table guest_links: id -> row, NULL where there is no row
  downloads,    \* table downloads; equal rows are not told apart
  settings,     \* the single row of table settings
  admins,       \* table users: those with is_admin set
  req,          \* the local state of every request goroutine
  gc,           \* the local state of the collection in progress
  fate,         \* history: what became of the upload that drew an id
  sent,         \* history: how many chunks that upload had to store
  swept,        \* history: uploads whose chunks were purged while in flight
  retired       \* history: guest links that have been deleted

vars == <<now, entries, entriesData, guestLinks, downloads, settings, admins,
          req, gc, fate, sent, swept, retired>>

Row == [link: GuestLinkIDs \cup {NULL}, owner: Users \cup {NULL}, expires: Nat]

GuestLink == [owner: Users, isDisabled: BOOLEAN,
              maxFileUploads: CountLimits, urlExpires: Nat,
              maxFileLifetime: Lifetimes \cup {NULL}]

ASSUME RowsAssumption == NULL \notin Row \cup GuestLink

\* NULL: keep download history forever; do not cap lifetimes.
Settings == [retention: Retentions \cup {NULL}, maxLifetime: Caps \cup {NULL}]

(***************************************************************************)
(* What a request goroutine is about to do.  "body": receive the form of   *)
(* an admitted upload; "chunks": InsertEntry; "open", "serve", "record":   *)
(* the stages of a download; the others: one store call after its          *)
(* permission check.  Two fields are history: got, the chunks a download   *)
(* has delivered, and demoted, whether a deletion's user has lost the role *)
(* of an administrator since loadSession read it.                          *)
(***************************************************************************)
Op == {"idle", "body", "chunks", "open", "serve", "record", "delete", "put",
       "unlink", "enable", "disable"}

Request == [op: Op, id: EntryIDs \cup {NULL}, link: GuestLinkIDs \cup {NULL},
            user: Users \cup {NULL}, expires: Nat, next: Nat, total: Nat,
            got: SUBSET Nat, demoted: BOOLEAN]

Idle == [op |-> "idle", id |-> NULL, link |-> NULL, user |-> NULL,
         expires |-> 0, next |-> 0, total |-> 0, got |-> {},
         demoted |-> FALSE]

\* periods is history: the retentions that have been in force at some moment
\* since the collection began.
IdleGC == [step |-> "idle", cutoff |-> 0, periods |-> {}]

\* What has to be trimmed at all: nothing, if history is kept forever.
InForce(retention) == {retention} \ {NULL}

BeginsPurge(retention) ==
  [step |-> "expired", cutoff |-> 0, periods |-> InForce(retention)]

Fate == {"unused", "writing", "failed", "stored", "removed"}

GCStep == {"idle", "expired", "orphans", "history", "trim"}

Collection == [step: GCStep, cutoff: Int, periods: SUBSET Retentions]

TypeOK ==
  /\ now \in 0..MaxTime
  /\ entries \in [EntryIDs -> Row \cup {NULL}]
  /\ entriesData \in [EntryIDs -> SUBSET (0..MaxChunks - 1)]
  /\ guestLinks \in [GuestLinkIDs -> GuestLink \cup {NULL}]
  /\ downloads \subseteq [entry: EntryIDs, time: 0..MaxTime]
  /\ settings \in Settings
  /\ admins \subseteq Users
  /\ req \in [Requests -> Request]
  /\ gc \in Collection
  /\ fate \in [EntryIDs -> Fate]
  /\ sent \in [EntryIDs -> 0..MaxChunks]
  /\ swept \subseteq EntryIDs
  /\ retired \subseteq GuestLinkIDs

(***************************************************************************)
(* A fresh database, and the collection that StartAsync begins at once.    *)
(***************************************************************************)
Init ==
  /\ now = 0
  /\ entries = [e \in EntryIDs |-> NULL]
  /\ entriesData = [e \in EntryIDs |-> {}]
  /\ guestLinks = [l \in GuestLinkIDs |-> NULL]
  /\ downloads = {}
  /\ settings = [retention |-> NULL, maxLifetime |-> NULL]
  /\ admins = Admins
  /\ req = [r \in Requests |-> Idle]
  /\ gc = BeginsPurge(NULL)
  /\ fate = [e \in EntryIDs |-> "unused"]
  /\ sent = [e \in EntryIDs |-> 0]
  /\ swept = {}
  /\ retired = {}

-----------------------------------------------------------------------------
(***************************************************************************)
(* Lifetimes and permissions                                               *)
(***************************************************************************)

\* parse.Expiration accepts what is at least one unit in the future.
ParsedExpirations == {now + d : d \in Lifetimes} \cup {NeverExpire}

\* FileLifetime.ExpirationFromTime; NULL stands for FileLifetimeInfinite.
ExpirationFromTime(lifetime) ==
  IF lifetime = NULL THEN NeverExpire ELSE now + lifetime

\* enforceMaxFileLifetimeForUser
LifetimePermitted(user, expires) ==
  \/ user \in admins
  \/ settings.maxLifetime = NULL
  \/ /\ expires # NeverExpire
     /\ expires <= ExpirationFromTime(settings.maxLifetime)

\* GetEntryMetadata finds the entry: it has a row, the inner join with the
\* sizes of its chunks is not empty, and its guest link, if any, exists.
GetEntryMetadata(e) ==
  /\ entries[e] # NULL
  /\ entriesData[e] # {}
  /\ entries[e].link # NULL => guestLinks[entries[e].link] # NULL

\* Mutant: the session keeps the role that its user had at the login.
CanManageEntry_RoleOfLogin(user, e) ==
  user \in Admins \/ user = entries[e].owner

\* canManageEntry, with the role that loadSession reads at the start of every
\* request.  The entry is read after it; as its owner never changes, the two
\* reads may count as one.
CanManageEntry(user, e) == user \in admins \/ user = entries[e].owner

\* guestLinkFromRow's FilesUploaded: the entries that name the link now.
FilesUploaded(l) ==
  Cardinality({e \in EntryIDs : entries[e] # NULL /\ entries[e].link = l})

\* Mutant: the count that equals the limit is let through.
CanAcceptMoreFiles_OneTooMany(l) ==
  guestLinks[l].maxFileUploads # NULL =>
    FilesUploaded(l) <= guestLinks[l].maxFileUploads

CanAcceptMoreFiles(l) ==
  guestLinks[l].maxFileUploads # NULL =>
    FilesUploaded(l) < guestLinks[l].maxFileUploads

\* GuestLink.IsActive; IsExpired never holds of NeverExpire, which is > now.
IsActive(l) ==
  /\ now <= guestLinks[l].urlExpires
  /\ CanAcceptMoreFiles(l)
  /\ ~guestLinks[l].isDisabled

-----------------------------------------------------------------------------
(***************************************************************************)
(* Uploads                                                                 *)
(***************************************************************************)

\* The tables, and the rest of the state, as groups for UNCHANGED.
fileTables == <<entries, entriesData, downloads>>
configTables == <<guestLinks, settings, admins>>
history == <<fate, sent, swept, retired>>

Answer(r) == req' = [req EXCEPT ![r] = Idle]

\* entryPost, up to the call of insertFileFromRequest.
EntryPost(r, user, expires) ==
  /\ req[r].op = "idle"
  /\ expires \in ParsedExpirations
  /\ LifetimePermitted(user, expires)
  /\ req' = [req EXCEPT ![r] = [Idle EXCEPT !.op = "body", !.user = user,
                                            !.expires = expires]]
  /\ UNCHANGED <<now, fileTables, configTables, gc, history>>

\* parseGuestExpirationFromRequest: the link's maximum when the client names
\* no expiration, otherwise what it names when that is within the maximum.
GuestExpirations(l) ==
  LET longest == ExpirationFromTime(guestLinks[l].maxFileLifetime)
  IN  {longest} \cup {x \in ParsedExpirations : x <= longest}

\* guestEntryPost, up to the call of insertFileFromRequest.
GuestEntryPost(r, l, expires) ==
  /\ req[r].op = "idle"
  /\ guestLinks[l] # NULL
  /\ IsActive(l)
  /\ expires \in GuestExpirations(l)
  /\ req' = [req EXCEPT ![r] = [Idle EXCEPT !.op = "body", !.link = l,
                                            !.expires = expires]]
  /\ UNCHANGED <<now, fileTables, configTables, gc, history>>

\* insertFileFromRequest fails before InsertEntry: the client goes away, the
\* body exceeds the link's MaxFileBytes, or a field of the form is invalid.
BodyRejected(r) ==
  /\ req[r].op = "body"
  /\ Answer(r)
  /\ UNCHANGED <<now, fileTables, configTables, gc, history>>

\* The form is complete and valid (FileSizeFromInt64 refuses an empty file):
\* insertFileFromRequest draws an id and InsertEntry makes its writer.
BodyReceived(r, e, chunks) ==
  /\ req[r].op = "body"
  /\ fate[e] = "unused"
  /\ chunks \in 1..MaxChunks
  /\ req' = [req EXCEPT ![r].op = "chunks", ![r].id = e, ![r].next = 0,
                        ![r].total = chunks]
  /\ fate' = [fate EXCEPT ![e] = "writing"]
  /\ sent' = [sent EXCEPT ![e] = chunks]
  /\ UNCHANGED <<now, fileTables, configTables, gc, swept, retired>>

\* Mutant: flush counts the bytes it is about to write.
ChunkIndex_AfterWrite(r) == req[r].next + 1

\* writer.flush: idx := w.written / len(w.buf)
ChunkIndex(r) == req[r].next

\* One writer.flush, called by Write for a full chunk and by Close for the
\* rest: a statement of its own, outside any transaction.
WriteChunk(r) ==
  /\ req[r].op = "chunks"
  /\ req[r].next < req[r].total
  /\ entriesData' = [entriesData EXCEPT ![req[r].id] = @ \cup {ChunkIndex(r)}]
  /\ req' = [req EXCEPT ![r].next = @ + 1]
  /\ UNCHANGED <<now, entries, downloads, configTables, gc, history>>

\* Mutant: Close is never called, so the last chunk stays in the buffer.
AllFlushed_WithoutClose(r) == req[r].next >= req[r].total - 1

AllFlushed(r) == req[r].next = req[r].total

\* Mutant: a guest upload is stored with the owner of the request, who is
\* nobody.
InsertedOwner_OfRequest(r) == req[r].user

\* The CASE of InsertEntry's INSERT: a guest upload takes the owner of its
\* link, and the subquery yields NULL when the link has gone.
InsertedOwner(r) ==
  IF req[r].link = NULL THEN req[r].user
  ELSE IF guestLinks[req[r].link] = NULL THEN NULL
  ELSE guestLinks[req[r].link].owner

\* InsertEntry's INSERT INTO entries, and the handler's answer.
InsertRow(r) ==
  /\ req[r].op = "chunks"
  /\ AllFlushed(r)
  /\ entries' = [entries EXCEPT ![req[r].id] =
                    [link |-> req[r].link, owner |-> InsertedOwner(r),
                     expires |-> req[r].expires]]
  /\ fate' = [fate EXCEPT ![req[r].id] = "stored"]
  /\ Answer(r)
  /\ UNCHANGED <<now, entriesData, downloads, configTables, gc, sent, swept,
                 retired>>

\* A flush or the INSERT fails: InsertEntry returns and cleans nothing up.
InsertFails(r) ==
  /\ req[r].op = "chunks"
  /\ fate' = [fate EXCEPT ![req[r].id] = "failed"]
  /\ Answer(r)
  /\ UNCHANGED <<now, fileTables, configTables, gc, sent, swept, retired>>

-----------------------------------------------------------------------------
(***************************************************************************)
(* Downloads                                                               *)
(***************************************************************************)

\* entryGet or a correct entryUnlockPost, up to serveEntryContent.
EntryGet(r, e) ==
  /\ req[r].op = "idle"
  /\ GetEntryMetadata(e)
  /\ req' = [req EXCEPT ![r] = [Idle EXCEPT !.op = "open", !.id = e]]
  /\ UNCHANGED <<now, fileTables, configTables, gc, history>>

\* file.NewReader: the length of the file follows from its last chunk.
OpenReader(r) ==
  LET chunks == entriesData[req[r].id]
  IN  /\ req[r].op = "open"
      /\ \E last \in chunks :
           /\ \A c \in chunks : c <= last
           /\ req' = [req EXCEPT ![r].op = "serve", ![r].next = 0,
                                 ![r].total = last + 1, ![r].got = {}]
      /\ UNCHANGED <<now, fileTables, configTables, gc, history>>

GoesToRecord(r) == [Idle EXCEPT !.op = "record", !.id = req[r].id]

\* NewReader finds no chunk: the handler answers 500, and still goes on to
\* record a download.
OpenReaderFails(r) ==
  /\ req[r].op = "open"
  /\ entriesData[req[r].id] = {}
  /\ req' = [req EXCEPT ![r] = GoesToRecord(r)]
  /\ UNCHANGED <<now, fileTables, configTables, gc, history>>

\* Mutant: a chunk that is not there is read as an empty one.
ChunkPresent_OrSkipped(r) == TRUE

ChunkPresent(r) == req[r].next \in entriesData[req[r].id]

\* fileReader.populateBuffer for the next chunk.
ReadChunk(r) ==
  /\ req[r].op = "serve"
  /\ req[r].next < req[r].total
  /\ ChunkPresent(r)
  /\ req' = [req EXCEPT ![r].next = @ + 1,
                        ![r].got = @ \cup ({req[r].next}
                                             \cap entriesData[req[r].id])]
  /\ UNCHANGED <<now, fileTables, configTables, gc, history>>

\* http.ServeContent returns: the file is complete, a chunk is missing, or
\* the client has gone away.  The handler is not told which.
ServeContentReturns(r) ==
  /\ req[r].op = "serve"
  /\ req' = [req EXCEPT ![r] = GoesToRecord(r)]
  /\ UNCHANGED <<now, fileTables, configTables, gc, history>>

\* recordDownload.  Only the pooled connection that ran New's PRAGMA enforces
\* the foreign key, so the row is stored whether or not the entry is there.
RecordDownload(r) ==
  /\ req[r].op = "record"
  /\ downloads' = downloads \cup {[entry |-> req[r].id, time |-> now]}
  /\ Answer(r)
  /\ UNCHANGED <<now, entries, entriesData, configTables, gc, history>>

\* The connection enforces the foreign key, or the database fails: the error
\* is only logged.
RecordDownloadFails(r) ==
  /\ req[r].op = "record"
  /\ Answer(r)
  /\ UNCHANGED <<now, fileTables, configTables, gc, history>>

-----------------------------------------------------------------------------
(***************************************************************************)
(* Management of entries, guest links and settings.  The handlers check    *)
(* ownership first (manageableEntry, manageableGuestLink) and make one     *)
(* store call afterwards; the two are separate steps.                      *)
(***************************************************************************)

MayDelete(user, e) == GetEntryMetadata(e) /\ CanManageEntry(user, e)

\* entryDelete, up to the call of DeleteEntry.
EntryDelete(r, user, e) ==
  /\ req[r].op = "idle"
  /\ MayDelete(user, e)
  /\ req' = [req EXCEPT ![r] = [Idle EXCEPT !.op = "delete", !.id = e,
                                            !.user = user]]
  /\ UNCHANGED <<now, fileTables, configTables, gc, history>>

\* Mutant: the transaction forgets the chunks.
ChunksAfterDelete_Kept(e) == entriesData

ChunksAfterDelete(e) == [entriesData EXCEPT ![e] = {}]

RemovedFate(e) == IF fate[e] = "stored" THEN "removed" ELSE fate[e]

\* DeleteEntry: one transaction over three tables.
DeleteEntry(r) ==
  LET e == req[r].id
  IN  /\ req[r].op = "delete"
      /\ downloads' = {d \in downloads : d.entry # e}
      /\ entriesData' = ChunksAfterDelete(e)
      /\ entries' = [entries EXCEPT ![e] = NULL]
      /\ fate' = [fate EXCEPT ![e] = RemovedFate(e)]
      /\ Answer(r)
      /\ UNCHANGED <<now, configTables, gc, sent, swept, retired>>

\* entryPut, up to the call of UpdateEntryMetadata.
EntryPut(r, user, e, expires) ==
  /\ req[r].op = "idle"
  /\ GetEntryMetadata(e)
  /\ CanManageEntry(user, e)
  /\ expires \in ParsedExpirations
  /\ LifetimePermitted(user, expires)
  /\ req' = [req EXCEPT ![r] = [Idle EXCEPT !.op = "put", !.id = e,
                                            !.user = user,
                                            !.expires = expires]]
  /\ UNCHANGED <<now, fileTables, configTables, gc, history>>

\* Mutant: the statement becomes INSERT OR REPLACE.
RowAfterUpdate_Upserted(r) ==
  [link |-> NULL, owner |-> req[r].user, expires |-> req[r].expires]

\* The UPDATE of UpdateEntryMetadata touches no row when the entry has gone.
RowAfterUpdate(r) ==
  IF entries[req[r].id] = NULL THEN NULL
  ELSE [entries[req[r].id] EXCEPT !.expires = req[r].expires]

\* UpdateEntryMetadata, and the answer: 404 when no row was affected.
UpdateEntryMetadata(r) ==
  /\ req[r].op = "put"
  /\ entries' = [entries EXCEPT ![req[r].id] = RowAfterUpdate(r)]
  /\ Answer(r)
  /\ UNCHANGED <<now, entriesData, downloads, configTables, gc, history>>

\* guestLinksPost: everything before the INSERT depends on the request only.
\* An id is not drawn twice.
GuestLinksPost(l, user, limit, urlExpires, lifetime) ==
  /\ guestLinks[l] = NULL
  /\ l \notin retired
  /\ urlExpires \in ParsedExpirations
  /\ guestLinks' = [guestLinks EXCEPT ![l] =
                      [owner |-> user, isDisabled |-> FALSE,
                       maxFileUploads |-> limit, urlExpires |-> urlExpires,
                       maxFileLifetime |-> lifetime]]
  /\ UNCHANGED <<now, fileTables, settings, admins, req, gc, history>>

\* manageableGuestLink, and the handler's choice of the store call.
GuestLinkChange(r, user, l, op) ==
  /\ req[r].op = "idle"
  /\ op \in {"unlink", "enable", "disable"}
  /\ guestLinks[l] # NULL
  /\ guestLinks[l].owner = user
  /\ req' = [req EXCEPT ![r] = [Idle EXCEPT !.op = op, !.link = l,
                                            !.user = user]]
  /\ UNCHANGED <<now, fileTables, configTables, gc, history>>

\* DeleteGuestLink's UPDATE entries SET guest_link_id = NULL
Unlinked(row, l) ==
  IF row # NULL /\ row.link = l THEN [row EXCEPT !.link = NULL] ELSE row

\* DeleteGuestLink: one transaction over two tables.
DeleteGuestLink(r) ==
  LET l == req[r].link
  IN  /\ req[r].op = "unlink"
      /\ entries' = [e \in EntryIDs |-> Unlinked(entries[e], l)]
      /\ guestLinks' = [guestLinks EXCEPT ![l] = NULL]
      /\ retired' = retired \cup {l}
      /\ Answer(r)
      /\ UNCHANGED <<now, entriesData, downloads, settings, admins, gc, fate,
                     sent, swept>>

\* EnableGuestLink and DisableGuestLink: no effect on a link that has gone.
SetGuestLinkDisabled(r) ==
  LET l == req[r].link
  IN  /\ req[r].op \in {"enable", "disable"}
      /\ guestLinks' = IF guestLinks[l] = NULL THEN guestLinks
                       ELSE [guestLinks EXCEPT ![l].isDisabled =
                               (req[r].op = "disable")]
      /\ Answer(r)
      /\ UNCHANGED <<now, fileTables, settings, admins, gc, history>>

\* A store call of a management handler fails and changes nothing.
ManagementFails(r) ==
  /\ req[r].op \in {"delete", "put", "unlink", "enable", "disable"}
  /\ Answer(r)
  /\ UNCHANGED <<now, fileTables, configTables, gc, history>>

\* settingsPut, which requireAdmin reserves to administrators.
SettingsPut(new) ==
  /\ admins # {}
  /\ settings' = new
  /\ gc' = IF gc.step = "idle" THEN gc
           ELSE [gc EXCEPT !.periods = @ \cup InForce(new.retention)]
  /\ UNCHANGED <<now, fileTables, guestLinks, admins, req, history>>

\* memberGrantAdminPut and memberRevokeAdminPut, each one UPDATE on behalf of
\* an administrator; the last one stays.  Accounts has the handlers in detail.
GrantAdmin(user) ==
  /\ admins # {}
  /\ admins' = admins \cup {user}
  /\ UNCHANGED <<now, fileTables, guestLinks, settings, req, gc, history>>

LosesRole(q, user) ==
  IF q.op = "delete" /\ q.user = user THEN [q EXCEPT !.demoted = TRUE] ELSE q

RevokeAdmin(user) ==
  /\ user \in admins
  /\ admins \ {user} # {}
  /\ admins' = admins \ {user}
  /\ req' = [r \in Requests |-> LosesRole(req[r], user)]
  /\ UNCHANGED <<now, fileTables, guestLinks, settings, gc, history>>

-----------------------------------------------------------------------------
(***************************************************************************)
(* The garbage collector.  Collect holds a mutex, so one purge runs at a   *)
(* time; it is started by the scheduler or by an administrator.  Purge's   *)
(* last two steps, sessions and free pages, leave these tables alone.      *)
(***************************************************************************)
Collect ==
  /\ gc.step = "idle"
  /\ gc' = BeginsPurge(settings.retention)
  /\ UNCHANGED <<now, fileTables, configTables, req, history>>

Expired(e) == entries[e] # NULL /\ entries[e].expires < now

\* Mutant: one of the DELETEs compares with <= instead of <.
ExpiredChunks_TooEarly ==
  {e \in EntryIDs : entries[e] # NULL /\ entries[e].expires <= now}

ExpiredChunks == {e \in EntryIDs : Expired(e)}

\* Mutant: expiration_time is compared with the start of the day before.
ExpiredEntries_DayLate ==
  {e \in EntryIDs : entries[e] # NULL /\ entries[e].expires < now - 1}

ExpiredEntries == {e \in EntryIDs : Expired(e)}

\* deleteExpiredEntries: one transaction over three tables.
DeleteExpiredEntries ==
  /\ gc.step = "expired"
  /\ downloads' = {d \in downloads : d.entry \notin ExpiredEntries}
  /\ entriesData' = [e \in EntryIDs |->
                       IF e \in ExpiredChunks THEN {} ELSE entriesData[e]]
  /\ entries' = [e \in EntryIDs |->
                   IF e \in ExpiredEntries THEN NULL ELSE entries[e]]
  /\ fate' = [e \in EntryIDs |->
                IF e \in ExpiredEntries THEN "removed" ELSE fate[e]]
  /\ gc' = [gc EXCEPT !.step = "orphans"]
  /\ UNCHANGED <<now, configTables, req, sent, swept, retired>>

\* Mutant: the join is written the wrong way round and finds no orphan.
Orphans_None == {e \in EntryIDs : entries[e] # NULL /\ entriesData[e] = {}}

\* Ids of entries_data that the LEFT JOIN finds no row of entries for.
Orphans == {e \in EntryIDs : entries[e] = NULL /\ entriesData[e] # {}}

\* deleteOrphanedRows: a single statement.
DeleteOrphanedRows ==
  /\ gc.step = "orphans"
  /\ entriesData' = [e \in EntryIDs |->
                       IF e \in Orphans THEN {} ELSE entriesData[e]]
  /\ swept' = swept \cup {e \in Orphans : fate[e] = "writing"}
  /\ gc' = [gc EXCEPT !.step = "history"]
  /\ UNCHANGED <<now, entries, downloads, configTables, req, fate, sent,
                 retired>>

\* deleteExpiredDownloadHistory reads the settings and computes the cutoff.
ReadRetention ==
  /\ gc.step = "history"
  /\ gc' = IF settings.retention = NULL THEN IdleGC
           ELSE [gc EXCEPT !.step = "trim",
                           !.cutoff = now - settings.retention]
  /\ UNCHANGED <<now, fileTables, configTables, req, history>>

\* Mutant: records as old as the cutoff itself are deleted too.
TooOld_Inclusive(d) == d.time <= gc.cutoff

TooOld(d) == d.time < gc.cutoff

\* deleteExpiredDownloadHistory's DELETE.
DeleteExpiredDownloadHistory ==
  /\ gc.step = "trim"
  /\ downloads' = {d \in downloads : ~TooOld(d)}
  /\ gc' = IdleGC
  /\ UNCHANGED <<now, entries, entriesData, configTables, req, history>>

\* A step of Purge fails: Purge returns without the steps that follow.
PurgeFails ==
  /\ gc.step # "idle"
  /\ gc' = IdleGC
  /\ UNCHANGED <<now, fileTables, configTables, req, history>>

-----------------------------------------------------------------------------
\* The process dies and starts again: the tables survive, the goroutines do
\* not, and StartAsync begins a collection.
Restart ==
  /\ req' = [r \in Requests |-> Idle]
  /\ gc' = BeginsPurge(settings.retention)
  /\ fate' = [e \in EntryIDs |->
                IF fate[e] = "writing" THEN "failed" ELSE fate[e]]
  /\ UNCHANGED <<now, fileTables, configTables, sent, swept, retired>>

\* BOUND: the clock stops at MaxTime.
Tick ==
  /\ now < MaxTime
  /\ now' = now + 1
  /\ UNCHANGED <<fileTables, configTables, req, gc, history>>

UploadStep(r) ==
  \/ \E user \in Users : \E expires \in ParsedExpirations :
       EntryPost(r, user, expires)
  \/ \E l \in GuestLinkIDs : /\ guestLinks[l] # NULL
                             /\ \E expires \in GuestExpirations(l) :
                                  GuestEntryPost(r, l, expires)
  \/ BodyRejected(r)
  \/ \E e \in EntryIDs : \E chunks \in 1..MaxChunks :
       BodyReceived(r, e, chunks)
  \/ WriteChunk(r)
  \/ InsertRow(r)
  \/ InsertFails(r)

DownloadStep(r) ==
  \/ \E e \in EntryIDs : EntryGet(r, e)
  \/ OpenReader(r)
  \/ OpenReaderFails(r)
  \/ ReadChunk(r)
  \/ ServeContentReturns(r)
  \/ RecordDownload(r)
  \/ RecordDownloadFails(r)

ManagementStep(r) ==
  \/ \E user \in Users : \E e \in EntryIDs : EntryDelete(r, user, e)
  \/ \E user \in Users : \E e \in EntryIDs : \E expires \in ParsedExpirations :
       EntryPut(r, user, e, expires)
  \/ \E user \in Users : \E l \in GuestLinkIDs :
     \E op \in {"unlink", "enable", "disable"} : GuestLinkChange(r, user, l, op)
  \/ DeleteEntry(r)
  \/ UpdateEntryMetadata(r)
  \/ DeleteGuestLink(r)
  \/ SetGuestLinkDisabled(r)
  \/ ManagementFails(r)

ConfigurationStep ==
  \/ \E l \in GuestLinkIDs : \E user \in Users : \E limit \in CountLimits :
     \E urlExpires \in ParsedExpirations : \E lifetime \in Lifetimes \cup {NULL} :
       GuestLinksPost(l, user, limit, urlExpires, lifetime)
  \/ \E new \in Settings : SettingsPut(new)
  \/ \E user \in Users : GrantAdmin(user) \/ RevokeAdmin(user)

PurgeStep ==
  \/ DeleteExpiredEntries
  \/ DeleteOrphanedRows
  \/ ReadRetention
  \/ DeleteExpiredDownloadHistory

Next ==
  \/ \E r \in Requests : UploadStep(r) \/ DownloadStep(r) \/ ManagementStep(r)
  \/ ConfigurationStep
  \/ Collect
  \/ PurgeStep
  \/ PurgeFails
  \/ Restart
  \/ Tick

Spec == Init /\ [][Next]_vars

(***************************************************************************)
(* The scheduler's ticker starts a collection again and again, so Collect  *)
(* is weakly fair.  A step of Purge may fail or be cut off by a crash, but *)
(* one that is attempted again and again succeeds in the end.  Clients,    *)
(* the clock and crashes are under no obligation.                          *)
(***************************************************************************)
FairSpec ==
  /\ Spec
  /\ WF_vars(Collect)
  /\ SF_vars(DeleteExpiredEntries)
  /\ SF_vars(DeleteOrphanedRows)
  /\ SF_vars(ReadRetention)
  /\ SF_vars(DeleteExpiredDownloadHistory)

-----------------------------------------------------------------------------
(***************************************************************************)
(* Safety                                                                  *)
(***************************************************************************)

\* A file whose upload succeeded has all its chunks and no others, unless
\* deleteOrphanedRows ran while it was being uploaded: failed uploads,
\* crashes, deletions and collections of other files never damage it.
StoredFileIntact ==
  \A e \in EntryIDs :
    fate[e] = "stored" /\ e \notin swept => entriesData[e] = 0..sent[e] - 1

\* Chunks that no row of entries refers to come from an upload that has not
\* finished: DeleteEntry and deleteExpiredEntries, racing with uploads,
\* edits and each other, leave none behind.
NoStrayChunks ==
  \A e \in EntryIDs :
    entries[e] = NULL /\ entriesData[e] # {} => fate[e] \in {"writing", "failed"}

\* A download that http.ServeContent completes has delivered the whole file,
\* even if chunks of it were purged or the entry was deleted meanwhile: a
\* truncated file is never passed off as complete.
NoSilentTruncation ==
  \A r \in Requests :
    req[r].op = "serve" /\ req[r].next = req[r].total =>
      req[r].got = 0..sent[req[r].id] - 1

\* An upload that still names its guest link belongs to the owner of the
\* link (the CASE of InsertEntry); one whose link has gone belongs to nobody.
GuestUploadOwner ==
  \A e \in EntryIDs :
    entries[e] # NULL /\ entries[e].link # NULL =>
      IF guestLinks[entries[e].link] = NULL THEN entries[e].owner = NULL
      ELSE entries[e].owner = guestLinks[entries[e].link].owner

\* The guest uploads that IsActive has admitted and that are not stored yet.
InFlight(l) == {r \in Requests : req[r].op \in {"body", "chunks"} /\ req[r].link = l}

\* guestEntryPost checks the link's upload limit long before InsertEntry
\* stores the file, so concurrent uploads may exceed it.  But every upload in
\* flight is counted before it is stored: the limit is exceeded by fewer files
\* than there are requests, and what is under way is part of the excess.
GuestOvershootBounded ==
  \A l \in GuestLinkIDs :
    guestLinks[l] # NULL /\ guestLinks[l].maxFileUploads # NULL =>
      FilesUploaded(l) + Cardinality(InFlight(l))
        < guestLinks[l].maxFileUploads + Cardinality(Requests)

\* PlainFile's view of entry e and of request r: the file is there from the
\* INSERT on, and a chunk counts as sent if it has been delivered.
StoredLength(e) == IF entries[e] # NULL /\ e \notin swept THEN sent[e] ELSE NULL

NoResponse == [at |-> "none", of |-> 0, start |-> 0, want |-> 0, sent |-> <<>>]

Delivered(q) == [i \in 1..q.next |-> IF i - 1 \in q.got THEN i - 1 ELSE NULL]

ResponseTo(e, q) ==
  IF q.id # e \/ e \in swept THEN NoResponse
  ELSE CASE q.op = "open" -> [NoResponse EXCEPT !.at = "found", !.of = sent[e]]
         [] q.op = "serve" -> [at |-> "sending", of |-> sent[e], start |-> 0,
                               want |-> q.total, sent |-> Delivered(q)]
         [] OTHER -> NoResponse

ResponsesTo(e) == [r \in Requests |-> ResponseTo(e, req[r])]

Plain(e) == INSTANCE PlainFile WITH Readers <- Requests,
                                    length <- StoredLength(e),
                                    response <- ResponsesTo(e)

\* What that view depends on.
fileVars == <<entries, swept, sent, req>>

\* Each file appears at once and whole with the last statement of InsertEntry,
\* disappears at once, and what is sent of it is announced at its length and in
\* order, whatever uploads, edits, deletions, purges and crashes do around it.
\* Files that deleteOrphanedRows met in flight are left out.
\* (This is Plain(e)!Spec for every e, with the quantifier moved inwards.)
EntriesArePlainFiles ==
  /\ \A e \in EntryIDs : Plain(e)!Init
  /\ [][\A e \in EntryIDs : UNCHANGED Plain(e)!vars \/ Plain(e)!Next]_fileVars

(***************************************************************************)
(* Action properties                                                       *)
(***************************************************************************)

\* While an entry stays, its chunks stay, and its owner stays: neither the
\* collector nor the deletion of its guest link changes them.
StoredFileStable ==
  [][\A e \in EntryIDs :
       entries[e] # NULL /\ entries'[e] # NULL =>
         /\ entriesData'[e] = entriesData[e]
         /\ entries'[e].owner = entries[e].owner]_vars

\* An entry goes away only because its time is over, or because its owner or
\* an administrator deletes it.  "A change to a user's admin status takes
\* effect on their very next request" (loadSession): one who is demoted may
\* finish the deletion that he had begun, and delete nothing more.
OnlyExpiryOrManagerRemoves ==
  [][\A e \in EntryIDs :
       entries[e] # NULL /\ entries'[e] = NULL =>
         \/ entries[e].expires < now
         \/ \E r \in Requests :
              /\ req[r].op = "delete"
              /\ req[r].id = e
              /\ \/ req[r].user = entries[e].owner
                 \/ req[r].user \in admins
                 \/ req[r].demoted]_vars

\* What has been deleted stays deleted: an edit that was permitted before
\* the deletion does not bring the entry back after it.
NoResurrection ==
  [][\A e \in EntryIDs :
       fate[e] \in {"failed", "removed"} => entries'[e] = NULL]_vars

\* The download history of a file that stays loses only records that a
\* retention in force during the collection gives up, however the setting
\* changes between its reading and the DELETE.  In particular a collection
\* that history is to be "kept forever" all through deletes none.
HistoryKept ==
  [][\A d \in downloads \ downloads' :
       \/ entries'[d.entry] = NULL
       \/ \E p \in gc.periods : d.time < now - p]_vars

(***************************************************************************)
(* Liveness, under FairSpec                                                *)
(***************************************************************************)

\* An entry whose expiration time has passed is deleted in the end (or its
\* owner extends it first), although purges fail and the process crashes.
ExpiredEventuallyRemoved ==
  \A e \in EntryIDs : Expired(e) ~> ~Expired(e)

\* The chunks that a failed upload left behind are deleted in the end, as
\* the comment in InsertEntry promises of Purge.
LeftoversEventuallyPurged ==
  \A e \in EntryIDs :
    fate[e] = "failed" /\ entriesData[e] # {} ~> entriesData[e] = {}

(***************************************************************************)
(* What the repository says of itself and the code does not do             *)
(***************************************************************************)

\* handlers/upload.go answers 200 for it, and Purge says it "deletes expired
\* entries and download history, clears orphaned rows": neither explains why
\* an unexpired file that was stored should lack chunks.
StoredFileComplete ==
  \A e \in EntryIDs : fate[e] = "stored" => entriesData[e] = 0..sent[e] - 1

\* Migration 019: "owner_user_id is NULL only for entries and guest links
\* created before PicoShare supported multiple users".  This database has
\* none of those.
EveryEntryHasOwner ==
  \A e \in EntryIDs : entries[e] # NULL => entries[e].owner # NULL

\* Purge "clears orphaned rows from the database" (cleanup.go): downloads of
\* an entry that has gone do not stay for ever.
OrphanedDownloadsEventuallyCleared ==
  \A e \in EntryIDs :
    entries[e] = NULL /\ (\E d \in downloads : d.entry = e)
      ~> ~\E d \in downloads : d.entry = e

=============================================================================
