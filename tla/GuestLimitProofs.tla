-------------------------- MODULE GuestLimitProofs --------------------------
(***************************************************************************)
(* The upload limit of guest links, for any number of requests, files and  *)
(* links.  A guest upload is counted from the moment IsActive admits it:   *)
(* admission is the only step that adds to files and uploads in flight     *)
(* together, and it sees fewer files than the limit.  EntryStoreProofs!Inv *)
(* is needed for links: nothing names a link that is just being created.   *)
(***************************************************************************)
EXTENDS EntryStoreProofs, FiniteSetTheorems

\* The files that FilesUploaded counts.
FilesOf(l) == {e \in EntryIDs : entries[e] # NULL /\ entries[e].link = l}

\* Files of a link are added by InsertRow only, for an upload in flight.
LEMMA FilesAreInserted ==
  ASSUME Inv, [Next]_vars, NEW l \in GuestLinkIDs
  PROVE  \/ FilesOf(l)' \subseteq FilesOf(l)
         \/ \E r \in InFlight(l) :
              /\ InsertRow(r)
              /\ FilesOf(l)' \subseteq FilesOf(l) \cup {req[r].id}
<1> USE DEF FilesOf
<1>0. TypeOK
  BY DEF Inv
<1>1. ASSUME NEW r \in Requests, InsertRow(r)
      PROVE  \/ FilesOf(l)' \subseteq FilesOf(l)
             \/ r \in InFlight(l) /\ FilesOf(l)' \subseteq FilesOf(l) \cup {req[r].id}
  <2>1. \A e \in EntryIDs \ {req[r].id} : entries'[e] = entries[e]
    BY <1>0, <1>1 DEF InsertRow, TypeOK
  <2>2. CASE req[r].link = l
    BY <1>1, <2>1, <2>2 DEF InsertRow, InFlight
  <2>3. CASE req[r].link # l
    <3>1. req[r].id \in EntryIDs
      BY <1>1 DEF InsertRow, Inv, WriterState
    <3>2. entries'[req[r].id].link = req[r].link
      BY <1>0, <1>1, <3>1 DEF InsertRow, TypeOK
    <3> QED
      BY <2>1, <2>3, <3>2
  <2> QED
    BY <2>2, <2>3
<1>2. ASSUME NEW r \in Requests, UpdateEntryMetadata(r)
      PROVE  FilesOf(l)' \subseteq FilesOf(l)
  <2>1. \A e \in EntryIDs \ {req[r].id} : entries'[e] = entries[e]
    BY <1>0, <1>2 DEF UpdateEntryMetadata, TypeOK
  <2>2. ASSUME req[r].id \in EntryIDs, entries[req[r].id] # NULL
        PROVE  entries'[req[r].id].link = entries[req[r].id].link
    <3>1. entries[req[r].id] \in Row
      BY <1>0, <2>2 DEF TypeOK
    <3> QED
      BY <1>0, <1>2, <2>2, <3>1 DEF UpdateEntryMetadata, RowAfterUpdate, TypeOK, Row
  <2>3. ASSUME req[r].id \in EntryIDs, entries[req[r].id] = NULL
        PROVE  entries'[req[r].id] = NULL
    BY <1>0, <1>2, <2>3 DEF UpdateEntryMetadata, RowAfterUpdate, TypeOK
  <2> QED
    BY <2>1, <2>2, <2>3
<1>3. ASSUME NEW r \in Requests, DeleteGuestLink(r)
      PROVE  FilesOf(l)' \subseteq FilesOf(l)
  <2>1. \A e \in EntryIDs : entries'[e] = Unlinked(entries[e], req[r].link)
    BY <1>3 DEF DeleteGuestLink
  <2>2. \A e \in EntryIDs : entries[e] = NULL => entries'[e] = NULL
    BY <2>1 DEF Unlinked
  <2>3. ASSUME NEW e \in EntryIDs, entries[e] # NULL
        PROVE  entries'[e] = entries[e] \/ entries'[e].link = NULL
    <3>1. entries[e] \in Row
      BY <1>0, <2>3 DEF TypeOK
    <3> QED
      BY <2>1, <3>1 DEF Unlinked, Row
  <2> QED
    BY <2>2, <2>3, SetsAssumption
<1>4. ASSUME NEW r \in Requests, DeleteEntry(r)
      PROVE  FilesOf(l)' \subseteq FilesOf(l)
  BY <1>0, <1>4 DEF DeleteEntry, TypeOK
<1>5. ASSUME \/ DeleteExpiredEntries \/ DeleteOrphanedRows
             \/ \E r \in Requests : WriteChunk(r)
             \/ UNCHANGED <<entries, entriesData>>
      PROVE  FilesOf(l)' \subseteq FilesOf(l)
  BY <1>5 DEF DeleteExpiredEntries, DeleteOrphanedRows, WriteChunk
<1> QED
  BY <1>1, <1>2, <1>3, <1>4, <1>5, OtherStepsStoreNothing
  DEF StorageStep, InFlight

\* A request that has the same link and is no further from InsertRow.
Ahead(q, p, l) ==
  q.op \in {"body", "chunks"} /\ q.link = l =>
    p.op \in {"body", "chunks"} /\ p.link = l

\* When one request moves ahead, or gives up, nothing joins the uploads.
LEMMA OneMoves ==
  ASSUME TypeOK, NEW l \in GuestLinkIDs, NEW r \in Requests, NEW q,
         req' = [req EXCEPT ![r] = q], Ahead(q, req[r], l)
  PROVE  InFlight(l)' \subseteq InFlight(l)
BY DEF TypeOK, Ahead, InFlight

\* Uploads in flight are joined through guestEntryPost only.
LEMMA UploadsAreAdmitted ==
  ASSUME TypeOK, [Next]_vars, NEW l \in GuestLinkIDs
  PROVE  \/ InFlight(l)' \subseteq InFlight(l)
         \/ \E r \in Requests : \E x \in GuestExpirations(l) :
              GuestEntryPost(r, l, x)
<1> USE SetsAssumption
<1>0. \A r \in Requests : req[r] \in Request
  BY DEF TypeOK
<1>1. ASSUME NEW r \in Requests, UploadStep(r)
      PROVE  \/ InFlight(l)' \subseteq InFlight(l)
             \/ \E x \in GuestExpirations(l) : GuestEntryPost(r, l, x)
  <2>1. ASSUME NEW user \in Users, NEW x \in ParsedExpirations,
               EntryPost(r, user, x)
        PROVE  InFlight(l)' \subseteq InFlight(l)
    <3> DEFINE q == [Idle EXCEPT !.op = "body", !.user = user, !.expires = x]
    <3>1. req' = [req EXCEPT ![r] = q] /\ Ahead(q, req[r], l)
      BY <2>1 DEF EntryPost, Idle, Ahead
    <3> QED
      BY <3>1, OneMoves
  <2>2. ASSUME NEW k \in GuestLinkIDs, k # l, NEW x \in GuestExpirations(k),
               GuestEntryPost(r, k, x)
        PROVE  InFlight(l)' \subseteq InFlight(l)
    <3> DEFINE q == [Idle EXCEPT !.op = "body", !.link = k, !.expires = x]
    <3>1. req' = [req EXCEPT ![r] = q] /\ Ahead(q, req[r], l)
      BY <2>2 DEF GuestEntryPost, Idle, Ahead
    <3> QED
      BY <3>1, OneMoves
  <2>3. ASSUME BodyRejected(r) \/ InsertRow(r) \/ InsertFails(r)
        PROVE  InFlight(l)' \subseteq InFlight(l)
    <3>1. req' = [req EXCEPT ![r] = Idle] /\ Ahead(Idle, req[r], l)
      BY <2>3 DEF BodyRejected, InsertRow, InsertFails, Answer, Idle, Ahead
    <3> QED
      BY <3>1, OneMoves
  <2>4. ASSUME NEW e \in EntryIDs, NEW chunks \in 1..MaxChunks,
               BodyReceived(r, e, chunks)
        PROVE  InFlight(l)' \subseteq InFlight(l)
    BY <1>0, <2>4 DEF BodyReceived, InFlight, TypeOK, Request
  <2>5. ASSUME WriteChunk(r)
        PROVE  InFlight(l)' \subseteq InFlight(l)
    BY <1>0, <2>5 DEF WriteChunk, InFlight, TypeOK, Request
  <2> QED
    BY <1>1, <2>1, <2>2, <2>3, <2>4, <2>5 DEF UploadStep
<1>2. ASSUME NEW r \in Requests, DownloadStep(r)
      PROVE  InFlight(l)' \subseteq InFlight(l)
  <2> DEFINE Others == /\ \A s \in Requests \ {r} : req'[s] = req[s]
                       /\ req'[r].op \in {"idle", "open", "serve", "record"}
  <2>1. ASSUME NEW e \in EntryIDs, EntryGet(r, e) PROVE Others
    BY <2>1 DEF EntryGet, Idle, TypeOK
  <2>2. ASSUME OpenReader(r) PROVE Others
    <3>1. PICK last : req' = [req EXCEPT ![r].op = "serve", ![r].next = 0,
                              ![r].total = last + 1, ![r].got = {}]
      BY <2>2 DEF OpenReader
    <3> QED
      BY <1>0, <3>1 DEF TypeOK, Request
  <2>3. ASSUME ReadChunk(r) PROVE Others
    <3>1. req[r].op = "serve"
          /\ req' = [req EXCEPT ![r].next = @ + 1,
                       ![r].got = @ \cup ({req[r].next}
                                             \cap entriesData[req[r].id])]
      BY <2>3 DEF ReadChunk
    <3> QED
      BY <1>0, <3>1 DEF TypeOK, Request
  <2>4. ASSUME OpenReaderFails(r) \/ ServeContentReturns(r) PROVE Others
    <3>1. req' = [req EXCEPT ![r] = GoesToRecord(r)]
      BY <2>4 DEF OpenReaderFails, ServeContentReturns
    <3>2. GoesToRecord(r).op = "record"
      BY DEF GoesToRecord, Idle
    <3> QED
      BY <3>1, <3>2 DEF TypeOK
  <2>5. ASSUME RecordDownload(r) \/ RecordDownloadFails(r) PROVE Others
    BY <2>5 DEF RecordDownload, RecordDownloadFails, Answer, Idle, TypeOK
  <2>6. Others
    BY <1>2, <2>1, <2>2, <2>3, <2>4, <2>5 DEF DownloadStep
  <2> QED
    BY <2>6 DEF InFlight
<1>3. ASSUME NEW r \in Requests, ManagementStep(r)
      PROVE  InFlight(l)' \subseteq InFlight(l)
  <2> DEFINE Others == /\ \A s \in Requests \ {r} : req'[s] = req[s]
                       /\ req'[r].op \notin {"body", "chunks"}
  <2>1. ASSUME NEW user \in Users, NEW e \in EntryIDs, EntryDelete(r, user, e)
        PROVE  Others
    BY <2>1 DEF EntryDelete, Idle, TypeOK
  <2>2. ASSUME NEW user \in Users, NEW e \in EntryIDs,
               NEW x \in ParsedExpirations, EntryPut(r, user, e, x)
        PROVE  Others
    BY <2>2 DEF EntryPut, Idle, TypeOK
  <2>3. ASSUME NEW user \in Users, NEW k \in GuestLinkIDs,
               NEW op \in {"unlink", "enable", "disable"},
               GuestLinkChange(r, user, k, op)
        PROVE  Others
    BY <2>3 DEF GuestLinkChange, Idle, TypeOK
  <2>4. ASSUME \/ DeleteEntry(r) \/ UpdateEntryMetadata(r) \/ ManagementFails(r)
               \/ DeleteGuestLink(r) \/ SetGuestLinkDisabled(r)
        PROVE  Others
    <3>1. req' = [req EXCEPT ![r] = Idle]
      BY <2>4 DEF DeleteEntry, UpdateEntryMetadata, DeleteGuestLink,
         SetGuestLinkDisabled, ManagementFails, Answer
    <3> QED
      BY <3>1 DEF Idle, TypeOK
  <2>5. Others
    BY <1>3, <2>1, <2>2, <2>3, <2>4 DEF ManagementStep
  <2> QED
    BY <2>5 DEF InFlight
<1>4. ASSUME Restart
      PROVE  InFlight(l)' \subseteq InFlight(l)
  BY <1>4 DEF Restart, InFlight, Idle
<1>5. ASSUME ConfigurationStep \/ Collect \/ PurgeStep \/ PurgeFails \/ Tick
             \/ UNCHANGED vars
      PROVE  InFlight(l)' \subseteq InFlight(l)
  <2>1. CASE \E user \in Users : GrantAdmin(user) \/ RevokeAdmin(user)
    <3>1. \A r \in Requests :
            \/ req'[r] = req[r]
            \/ /\ req[r].op = "delete"
               /\ req'[r] = [req[r] EXCEPT !.demoted = TRUE]
      BY <2>1, RolesChange
    <3>2. ASSUME NEW r \in InFlight(l)' PROVE r \in InFlight(l)
      <4>1. r \in Requests /\ req[r] \in Request /\ req'[r].op # "delete"
        BY <3>2 DEF InFlight, TypeOK
      <4>2. req'[r] = req[r]
        BY <3>1, <4>1 DEF Request
      <4> QED
        BY <3>2, <4>1, <4>2 DEF InFlight
    <3> QED
      BY <3>2
  <2> QED
    BY <1>5, <2>1 DEF ConfigurationStep, GuestLinksPost, SettingsPut, Collect,
       PurgeStep, DeleteExpiredEntries, DeleteOrphanedRows, ReadRetention,
       DeleteExpiredDownloadHistory, PurgeFails, Tick, vars, InFlight
<1> QED
  BY <1>1, <1>2, <1>3, <1>4, <1>5 DEF Next

\* A link keeps its limit as long as it exists.
LEMMA LimitsStay ==
  ASSUME TypeOK, [Next]_vars, NEW l \in GuestLinkIDs,
         guestLinks[l] # NULL, guestLinks'[l] # NULL
  PROVE  guestLinks'[l].maxFileUploads = guestLinks[l].maxFileUploads
<1>0. guestLinks[l] \in GuestLink
  BY DEF TypeOK
<1>1. ASSUME NEW r \in Requests, DeleteGuestLink(r)
      PROVE  guestLinks'[l] = guestLinks[l]
  BY <1>1 DEF DeleteGuestLink, TypeOK
<1>2. ASSUME NEW r \in Requests, SetGuestLinkDisabled(r)
      PROVE  guestLinks'[l].maxFileUploads = guestLinks[l].maxFileUploads
  BY <1>0, <1>2 DEF SetGuestLinkDisabled, TypeOK, GuestLink
<1>3. ASSUME ConfigurationStep
      PROVE  guestLinks'[l] = guestLinks[l]
  BY <1>3 DEF ConfigurationStep, GuestLinksPost, SettingsPut, GrantAdmin,
     RevokeAdmin, TypeOK
<1>4. ASSUME NEW r \in Requests, UploadStep(r) \/ DownloadStep(r)
      PROVE  guestLinks' = guestLinks
  BY <1>4 DEF UploadStep, DownloadStep, EntryPost, GuestEntryPost,
     BodyRejected, BodyReceived, WriteChunk, InsertRow, InsertFails, EntryGet,
     OpenReader, OpenReaderFails, ReadChunk, ServeContentReturns,
     RecordDownload, RecordDownloadFails, configTables
<1>5. ASSUME NEW r \in Requests, ManagementStep(r), ~DeleteGuestLink(r),
             ~SetGuestLinkDisabled(r)
      PROVE  guestLinks' = guestLinks
  BY <1>5 DEF ManagementStep, EntryDelete, EntryPut, GuestLinkChange,
     DeleteEntry, UpdateEntryMetadata, ManagementFails, configTables
<1>6. ASSUME Collect \/ PurgeStep \/ PurgeFails \/ Restart \/ Tick
             \/ UNCHANGED vars
      PROVE  guestLinks' = guestLinks
  BY <1>6 DEF Collect, PurgeStep, DeleteExpiredEntries, DeleteOrphanedRows,
     ReadRetention, DeleteExpiredDownloadHistory, PurgeFails, Restart, Tick,
     vars, configTables
<1> QED
  BY <1>1, <1>2, <1>3, <1>4, <1>5, <1>6 DEF Next

-----------------------------------------------------------------------------
\* Both sets are finite, and no request is counted twice.
LEMMA Counts ==
  ASSUME TypeOK, NEW l \in GuestLinkIDs
  PROVE  /\ IsFiniteSet(FilesOf(l)) /\ IsFiniteSet(InFlight(l))
         /\ Cardinality(FilesOf(l)) \in Nat /\ Cardinality(InFlight(l)) \in Nat
         /\ Cardinality(Requests) \in Nat
         /\ Cardinality(InFlight(l)) <= Cardinality(Requests)
<1>1. FilesOf(l) \subseteq EntryIDs /\ InFlight(l) \subseteq Requests
  BY DEF FilesOf, InFlight
<1>2. IsFiniteSet(FilesOf(l)) /\ IsFiniteSet(InFlight(l))
      /\ Cardinality(InFlight(l)) <= Cardinality(Requests)
  BY <1>1, FS_Subset, FinitenessAssumption
<1> QED
  BY <1>2, FS_CardinalityType, FinitenessAssumption

\* Files and uploads of one link, before and after a step.
LEMMA SumsAfterAStep ==
  ASSUME NEW F, NEW G, NEW P, NEW Q, IsFiniteSet(F), IsFiniteSet(P)
  PROVE  /\ G \subseteq F =>
              Cardinality(G) \in Nat /\ Cardinality(G) <= Cardinality(F)
         /\ \A x : G \subseteq F \cup {x} =>
              Cardinality(G) \in Nat /\ Cardinality(G) <= Cardinality(F) + 1
         /\ \A x \in P : Q \subseteq P \ {x} =>
              Cardinality(Q) \in Nat /\ Cardinality(Q) <= Cardinality(P) - 1
<1>1. ASSUME G \subseteq F
      PROVE  Cardinality(G) \in Nat /\ Cardinality(G) <= Cardinality(F)
  BY <1>1, FS_Subset, FS_CardinalityType
<1>2. ASSUME NEW x, G \subseteq F \cup {x}
      PROVE  Cardinality(G) \in Nat /\ Cardinality(G) <= Cardinality(F) + 1
  <2>1. IsFiniteSet(F \cup {x}) /\ Cardinality(F) \in Nat
        /\ (Cardinality(F \cup {x}) = Cardinality(F)
            \/ Cardinality(F \cup {x}) = Cardinality(F) + 1)
    BY FS_AddElement, FS_CardinalityType
  <2>2. IsFiniteSet(G) /\ Cardinality(G) <= Cardinality(F \cup {x})
    BY <1>2, <2>1, FS_Subset
  <2>3. Cardinality(G) \in Nat
    BY <2>2, FS_CardinalityType
  <2> QED
    BY <2>1, <2>2, <2>3
<1>3. ASSUME NEW x \in P, Q \subseteq P \ {x}
      PROVE  Cardinality(Q) \in Nat /\ Cardinality(Q) <= Cardinality(P) - 1
  <2>1. IsFiniteSet(P \ {x}) /\ Cardinality(P \ {x}) = Cardinality(P) - 1
    BY FS_RemoveElement
  <2>2. IsFiniteSet(Q) /\ Cardinality(Q) <= Cardinality(P \ {x})
    BY <1>3, <2>1, FS_Subset
  <2> QED
    BY <2>1, <2>2, FS_CardinalityType
<1> QED
  BY <1>1, <1>2, <1>3

\* Nothing names a link that guestLinksPost is creating, as its id is drawn
\* from those not used before.
LEMMA NewLinksAreUnused ==
  ASSUME Inv, [Next]_vars, NEW l \in GuestLinkIDs,
         guestLinks[l] = NULL, guestLinks'[l] # NULL
  PROVE  /\ FilesOf(l)' = {} /\ InFlight(l)' = {}
         /\ guestLinks'[l] \in GuestLink
<1>0. TypeOK /\ TypeOK'
  BY NextInv DEF Inv
<1>1. guestLinks'[l] \in GuestLink
  BY <1>0 DEF TypeOK
<1>2. ASSUME NEW r \in Requests, DeleteGuestLink(r)
      PROVE  guestLinks'[l] = NULL
  BY <1>0, <1>2 DEF DeleteGuestLink, TypeOK
<1>3. ASSUME NEW r \in Requests, SetGuestLinkDisabled(r)
      PROVE  guestLinks'[l] = NULL
  BY <1>0, <1>3 DEF SetGuestLinkDisabled, TypeOK
<1>4. ASSUME NEW r \in Requests, UploadStep(r) \/ DownloadStep(r)
      PROVE  guestLinks' = guestLinks
  BY <1>4 DEF UploadStep, DownloadStep, EntryPost, GuestEntryPost,
     BodyRejected, BodyReceived, WriteChunk, InsertRow, InsertFails, EntryGet,
     OpenReader, OpenReaderFails, ReadChunk, ServeContentReturns,
     RecordDownload, RecordDownloadFails, configTables
<1>5. ASSUME NEW r \in Requests, ManagementStep(r), ~DeleteGuestLink(r),
             ~SetGuestLinkDisabled(r)
      PROVE  guestLinks' = guestLinks
  BY <1>5 DEF ManagementStep, EntryDelete, EntryPut, GuestLinkChange,
     DeleteEntry, UpdateEntryMetadata, ManagementFails, configTables
<1>6. ASSUME Collect \/ PurgeStep \/ PurgeFails \/ Restart \/ Tick
             \/ UNCHANGED vars
      PROVE  guestLinks' = guestLinks
  BY <1>6 DEF Collect, PurgeStep, DeleteExpiredEntries, DeleteOrphanedRows,
     ReadRetention, DeleteExpiredDownloadHistory, PurgeFails, Restart, Tick,
     vars, configTables
<1>7. ConfigurationStep
  BY <1>2, <1>3, <1>4, <1>5, <1>6 DEF Next
<1>8. entries' = entries /\ req' = req /\ l \notin retired
  BY <1>0, <1>7 DEF ConfigurationStep, GuestLinksPost, SettingsPut, GrantAdmin,
     RevokeAdmin, fileTables, TypeOK
<1>9. ~Issued(l)
  BY <1>8, SetsAssumption DEF Issued
<1>10. FilesOf(l)' = {} /\ InFlight(l)' = {}
  BY <1>8, <1>9 DEF FilesOf, InFlight, Inv, LinksAreIssued
<1> QED
  BY <1>1, <1>10

\* One step keeps the bound.
LEMMA NextOvershoot ==
  ASSUME Inv, GuestOvershootBounded, [Next]_vars
  PROVE  GuestOvershootBounded'
<1> SUFFICES ASSUME NEW l \in GuestLinkIDs, guestLinks'[l] # NULL,
                    guestLinks'[l].maxFileUploads # NULL
             PROVE  Cardinality(FilesOf(l)') + Cardinality(InFlight(l)')
                      < guestLinks'[l].maxFileUploads + Cardinality(Requests)
  BY DEF GuestOvershootBounded, FilesUploaded, FilesOf
<1> DEFINE limit == guestLinks'[l].maxFileUploads
           F == FilesOf(l)
           G == FilesOf(l)'
           P == InFlight(l)
           Q == InFlight(l)'
<1>0. TypeOK /\ TypeOK'
  BY NextInv DEF Inv
<1>1. limit \in Nat \ {0}
  <2>1. guestLinks'[l] \in GuestLink
    BY <1>0 DEF TypeOK
  <2> QED
    BY <2>1, InputsAssumption DEF GuestLink
<1>2. /\ IsFiniteSet(F) /\ IsFiniteSet(P)
      /\ Cardinality(F) \in Nat /\ Cardinality(P) \in Nat
      /\ Cardinality(Requests) \in Nat
  BY <1>0, Counts
<1>3. Cardinality(G) \in Nat /\ Cardinality(Q) \in Nat
      /\ Cardinality(Q) <= Cardinality(Requests)
  <2>1. G \subseteq EntryIDs /\ Q \subseteq Requests
    BY DEF FilesOf, InFlight
  <2>2. IsFiniteSet(G) /\ IsFiniteSet(Q)
        /\ Cardinality(Q) <= Cardinality(Requests)
    BY <2>1, FS_Subset, FinitenessAssumption
  <2> QED
    BY <2>2, FS_CardinalityType
<1>4. CASE guestLinks[l] = NULL
  <2>1. G = {} /\ Q = {}
    BY <1>4, NewLinksAreUnused
  <2>2. Cardinality(G) = 0 /\ Cardinality(Q) = 0
    BY <2>1, FS_EmptySet
  <2> QED
    BY <1>1, <1>2, <2>2
<1>5. CASE guestLinks[l] # NULL
  <2>1. guestLinks[l].maxFileUploads = limit
    BY <1>0, <1>5, LimitsStay
  <2>2. Cardinality(F) + Cardinality(P) < limit + Cardinality(Requests)
    BY <1>5, <2>1 DEF GuestOvershootBounded, FilesUploaded, FilesOf
  <2>3. CASE \E r \in Requests : \E x \in GuestExpirations(l) :
               GuestEntryPost(r, l, x)
    <3>1. CanAcceptMoreFiles(l) /\ entries' = entries
      BY <2>3 DEF GuestEntryPost, IsActive, fileTables
    <3>2. Cardinality(F) < limit /\ G = F
      BY <2>1, <3>1 DEF CanAcceptMoreFiles, FilesUploaded, FilesOf
    <3> QED
      BY <1>1, <1>2, <1>3, <3>2
  <2>4. CASE Q \subseteq P
    <3>1. Cardinality(Q) <= Cardinality(P)
      BY <1>2, <2>4, FS_Subset
    <3>2. CASE G \subseteq F
      <4>1. Cardinality(G) <= Cardinality(F)
        BY <1>2, <3>2, FS_Subset
      <4> QED
        BY <1>1, <1>2, <1>3, <2>2, <3>1, <4>1
    <3>3. ASSUME NEW r \in P, InsertRow(r), G \subseteq F \cup {req[r].id}
          PROVE  Cardinality(G) + Cardinality(Q) < limit + Cardinality(Requests)
      <4>1. r \notin Q
        BY <1>0, <3>3 DEF InsertRow, Answer, Idle, InFlight, TypeOK
      <4>2. Cardinality(G) <= Cardinality(F) + 1
            /\ Cardinality(Q) <= Cardinality(P) - 1
        BY <1>2, <2>4, <3>3, <4>1, SumsAfterAStep
      <4> QED
        BY <1>1, <1>2, <1>3, <2>2, <4>2
    <3> QED
      BY <3>2, <3>3, FilesAreInserted
  <2> QED
    BY <1>0, <2>3, <2>4, UploadsAreAdmitted
<1> QED
  BY <1>4, <1>5

\* However many guests upload at the same time, a link's files and uploads in
\* flight exceed its limit by fewer than there are requests: guestEntryPost
\* checks early, and InsertEntry turns uploads into files one by one.
THEOREM GuestOvershootStaysBounded == Spec => []GuestOvershootBounded
<1>1. Init => GuestOvershootBounded
  BY DEF Init, GuestOvershootBounded
<1>2. Inv /\ GuestOvershootBounded /\ [Next]_vars => GuestOvershootBounded'
  BY NextOvershoot
<1> QED
  BY <1>1, <1>2, InvIsInvariant, PTL DEF Spec

=============================================================================
