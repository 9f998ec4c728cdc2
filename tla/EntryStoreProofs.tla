-------------------------- MODULE EntryStoreProofs --------------------------
(***************************************************************************)
(* Theorems about EntryStore, for any number of users, entries, links and  *)
(* requests, files of any length and any bound of the clock.               *)
(*                                                                         *)
(* None of the safety invariants is inductive: what a purge leaves of a    *)
(* file depends on where its upload is, and what a download sees depends   *)
(* on what became of the upload.  The strengthening Inv says how the local *)
(* state of the requests and the history relate to the tables.             *)
(***************************************************************************)
EXTENDS EntryStore, SequenceTheorems, TLAPS

\* A row of entries exists exactly for the uploads that are stored.
RowsAreStored ==
  \A e \in EntryIDs : entries[e] # NULL <=> fate[e] = "stored"

\* Ids not drawn yet and files that were removed have no chunks.
NothingLeft ==
  \A e \in EntryIDs :
    /\ fate[e] = "unused" => entriesData[e] = {} /\ e \notin swept
    /\ fate[e] = "removed" => entriesData[e] = {}

\* What is left of a stored file that was swept in flight still ends with its
\* last chunk, which is how the reader learns its length.
StoredChunks ==
  \A e \in EntryIDs :
    fate[e] = "stored" =>
      /\ \A c \in entriesData[e] : c < sent[e]
      /\ entriesData[e] = {} \/ sent[e] - 1 \in entriesData[e]
      /\ e \notin swept => entriesData[e] = 0..sent[e] - 1

\* A request in InsertEntry has written the chunks below next, and a sweep
\* can only have removed the first ones.
WriterState(r) ==
  req[r].op = "chunks" =>
    LET e == req[r].id IN
      /\ e \in EntryIDs
      /\ fate[e] = "writing"
      /\ req[r].total = sent[e]
      /\ req[r].next <= sent[e]
      /\ \A c \in entriesData[e] : c < req[r].next
      /\ entriesData[e] = {} \/ req[r].next - 1 \in entriesData[e]
      /\ e \notin swept => entriesData[e] = 0..req[r].next - 1

\* No two requests write the same file.
OneWriter ==
  \A r, s \in Requests :
    req[r].op = "chunks" /\ req[s].op = "chunks" /\ req[r].id = req[s].id =>
      r = s

\* Requests on an entry passed GetEntryMetadata, so it was stored once; an
\* open reader knows its true length and has delivered the chunks below next.
ReaderState(r) ==
  /\ req[r].op \in {"open", "serve", "record", "delete", "put"} =>
       /\ req[r].id \in EntryIDs
       /\ fate[req[r].id] \in {"stored", "removed"}
  /\ req[r].op = "serve" => /\ req[r].total = sent[req[r].id]
                            /\ req[r].got = 0..req[r].next - 1

\* A link that a request or a row names exists or did exist.
Issued(l) == l = NULL \/ l \in retired \/ guestLinks[l] # NULL

LinksAreIssued ==
  /\ \A l \in retired : guestLinks[l] = NULL
  /\ \A r \in Requests :
       /\ req[r].op \in {"body", "chunks"} => Issued(req[r].link)
       /\ req[r].op \in {"unlink", "enable", "disable"} =>
            req[r].link \in GuestLinkIDs
  /\ \A e \in EntryIDs : entries[e] # NULL => Issued(entries[e].link)

Inv ==
  /\ TypeOK
  /\ RowsAreStored
  /\ NothingLeft
  /\ StoredChunks
  /\ \A r \in Requests : WriterState(r)
  /\ OneWriter
  /\ \A r \in Requests : ReaderState(r)
  /\ LinksAreIssued
  /\ GuestUploadOwner

-----------------------------------------------------------------------------
(***************************************************************************)
(* Types of what the operators return                                      *)
(***************************************************************************)

\* Every expiration that parse.Expiration accepts is a date.
LEMMA ParsedExpirationsAreDates ==
  ASSUME TypeOK
  PROVE  ParsedExpirations \subseteq Nat
BY BoundsAssumption, InputsAssumption DEF ParsedExpirations, TypeOK

\* So is every expiration that a guest upload may get.
LEMMA GuestExpirationsAreDates ==
  ASSUME TypeOK, NEW l \in GuestLinkIDs, guestLinks[l] # NULL
  PROVE  GuestExpirations(l) \subseteq Nat
<1> DEFINE m == guestLinks[l].maxFileLifetime
<1>1. guestLinks[l] \in GuestLink
  BY DEF TypeOK
<1>2. m \in Lifetimes \cup {NULL}
  BY <1>1 DEF GuestLink
<1>3. now \in Nat /\ NeverExpire \in Nat /\ Lifetimes \subseteq Nat
  BY BoundsAssumption, InputsAssumption DEF TypeOK
<1>4. CASE m = NULL
  <2>1. ExpirationFromTime(m) \in Nat
    BY <1>3, <1>4 DEF ExpirationFromTime
  <2> QED
    BY <2>1, ParsedExpirationsAreDates DEF GuestExpirations
<1>5. CASE m # NULL
  <2>1. m \in Nat
    BY <1>2, <1>3, <1>5
  <2>2. ExpirationFromTime(m) = now + m
    BY <1>5 DEF ExpirationFromTime
  <2>3. now + m \in Nat
    BY <1>3, <2>1
  <2> QED
    BY <2>2, <2>3, ParsedExpirationsAreDates DEF GuestExpirations
<1> QED
  BY <1>4, <1>5

\* The row that InsertEntry stores is a row.
LEMMA InsertedRowIsARow ==
  ASSUME TypeOK, NEW r \in Requests
  PROVE  [link |-> req[r].link, owner |-> InsertedOwner(r),
          expires |-> req[r].expires] \in Row
<1>1. req[r] \in Request
  BY DEF TypeOK
<1>2. req[r].link \in GuestLinkIDs \cup {NULL} /\ req[r].expires \in Nat
  BY <1>1 DEF Request
<1>3. InsertedOwner(r) \in Users \cup {NULL}
  BY <1>1, <1>2 DEF InsertedOwner, TypeOK, Request, GuestLink
<1> QED
  BY <1>2, <1>3 DEF Row

\* A collection that begins is one.
LEMMA PurgesBegin ==
  ASSUME NEW retention \in Retentions \cup {NULL}
  PROVE  BeginsPurge(retention) \in Collection
BY DEF BeginsPurge, Collection, InForce, GCStep

\* One that has ended is one, too.
LEMMA PurgesEnd == IdleGC \in Collection
BY DEF IdleGC, Collection, GCStep

-----------------------------------------------------------------------------
(***************************************************************************)
(* Steps that change nothing but the local state of one request            *)
(***************************************************************************)

\* What Inv asks of a request, other than one in InsertEntry.
Consistent(q) ==
  /\ q \in Request
  /\ q.op # "chunks"
  /\ q.op = "body" => Issued(q.link)
  /\ q.op \in {"unlink", "enable", "disable"} => q.link \in GuestLinkIDs
  /\ q.op \in {"open", "serve", "record", "delete", "put"} =>
       q.id \in EntryIDs /\ fate[q.id] \in {"stored", "removed"}
  /\ q.op = "serve" => q.total = sent[q.id] /\ q.got = 0..q.next - 1

\* The answer to a request leaves it in a consistent state.
LEMMA IdleIsConsistent == Consistent(Idle)
BY DEF Consistent, Idle, Request, Op

\* A request that goes on to a consistent state disturbs nothing, even if it
\* records a download.
LEMMA RequestMovesAndRecords ==
  ASSUME Inv, NEW r \in Requests, NEW q, Consistent(q),
         req' = [req EXCEPT ![r] = q],
         downloads' \subseteq [entry: EntryIDs, time: 0..MaxTime],
         UNCHANGED <<now, entries, entriesData, configTables, gc, history>>
  PROVE  Inv'
<1> USE DEF configTables, history
<1>1. TypeOK'
  BY DEF Inv, TypeOK, Consistent
<1>2. RowsAreStored' /\ NothingLeft' /\ StoredChunks' /\ GuestUploadOwner'
  BY DEF Inv, RowsAreStored, NothingLeft, StoredChunks, GuestUploadOwner
<1>3. \A s \in Requests : req'[s] = IF s = r THEN q ELSE req[s]
  BY DEF Inv, TypeOK
<1>4. \A s \in Requests : WriterState(s)' /\ ReaderState(s)'
  BY <1>3 DEF Inv, Consistent, WriterState, ReaderState
<1>5. OneWriter'
  BY <1>3 DEF Inv, Consistent, OneWriter
<1>6. LinksAreIssued'
  BY <1>3 DEF Inv, Consistent, LinksAreIssued, Issued
<1> QED
  BY <1>1, <1>2, <1>4, <1>5, <1>6 DEF Inv

\* The same for a step that touches no table and records nothing.
LEMMA RequestMoves ==
  ASSUME Inv, NEW r \in Requests, NEW q, Consistent(q),
         req' = [req EXCEPT ![r] = q],
         UNCHANGED <<now, fileTables, configTables, gc, history>>
  PROVE  Inv'
<1>1. downloads' \subseteq [entry: EntryIDs, time: 0..MaxTime]
  BY DEF Inv, TypeOK, fileTables
<1> QED
  BY <1>1, RequestMovesAndRecords DEF fileTables

\* The actions of which that is true.
LEMMA Admissions ==
  ASSUME Inv, NEW r \in Requests
  PROVE  /\ \A user \in Users, x \in ParsedExpirations :
              EntryPost(r, user, x) => Inv'
         /\ \A l \in GuestLinkIDs : \A x \in GuestExpirations(l) :
              GuestEntryPost(r, l, x) => Inv'
         /\ BodyRejected(r) => Inv'
<1>1. ASSUME NEW user \in Users, NEW x \in ParsedExpirations,
             EntryPost(r, user, x)
      PROVE  Inv'
  <2> DEFINE q == [Idle EXCEPT !.op = "body", !.user = user, !.expires = x]
  <2>1. x \in Nat
    BY ParsedExpirationsAreDates DEF Inv
  <2>2. Consistent(q)
    BY <2>1 DEF Consistent, Idle, Request, Op, Issued
  <2> QED
    BY <1>1, <2>2, RequestMoves DEF EntryPost
<1>2. ASSUME NEW l \in GuestLinkIDs, NEW x \in GuestExpirations(l),
             GuestEntryPost(r, l, x)
      PROVE  Inv'
  <2> DEFINE q == [Idle EXCEPT !.op = "body", !.link = l, !.expires = x]
  <2>1. x \in Nat /\ guestLinks[l] # NULL
    BY <1>2, GuestExpirationsAreDates DEF Inv, GuestEntryPost
  <2>2. Consistent(q)
    BY <2>1 DEF Consistent, Idle, Request, Op, Issued
  <2> QED
    BY <1>2, <2>2, RequestMoves DEF GuestEntryPost
<1>3. ASSUME BodyRejected(r) PROVE Inv'
  BY <1>3, IdleIsConsistent, RequestMoves DEF BodyRejected, Answer
<1> QED
  BY <1>1, <1>2, <1>3

\* Every step of a download, from entryGet to recordDownload, is such a move;
\* in particular a reader opened on a stored file sees all of it.
LEMMA Downloads ==
  ASSUME Inv, NEW r \in Requests
  PROVE  /\ \A e \in EntryIDs : EntryGet(r, e) => Inv'
         /\ OpenReader(r) => Inv'
         /\ OpenReaderFails(r) => Inv'
         /\ ReadChunk(r) => Inv'
         /\ ServeContentReturns(r) => Inv'
         /\ RecordDownload(r) => Inv'
         /\ RecordDownloadFails(r) => Inv'
<1> DEFINE p == req[r]
<1>0. p \in Request
  BY DEF Inv, TypeOK
<1>1. ASSUME NEW e \in EntryIDs, EntryGet(r, e) PROVE Inv'
  <2> DEFINE q == [Idle EXCEPT !.op = "open", !.id = e]
  <2>1. fate[e] = "stored"
    BY <1>1 DEF EntryGet, GetEntryMetadata, Inv, RowsAreStored
  <2>2. Consistent(q)
    BY <2>1 DEF Consistent, Idle, Request, Op
  <2> QED
    BY <1>1, <2>2, RequestMoves DEF EntryGet
<1>2. ASSUME OpenReader(r) PROVE Inv'
  <2>1. PICK last \in entriesData[p.id] :
          /\ \A c \in entriesData[p.id] : c <= last
          /\ req' = [req EXCEPT ![r].op = "serve", ![r].next = 0,
                                ![r].total = last + 1, ![r].got = {}]
    BY <1>2 DEF OpenReader
  <2> DEFINE q == [p EXCEPT !.op = "serve", !.next = 0, !.total = last + 1,
                            !.got = {}]
  <2>2. p.id \in EntryIDs /\ fate[p.id] \in {"stored", "removed"}
    BY <1>2 DEF OpenReader, Inv, ReaderState
  <2>3. fate[p.id] = "stored"
    BY <2>2 DEF Inv, NothingLeft
  <2>4. last \in 0..MaxChunks - 1 /\ sent[p.id] \in Nat
    BY <2>2, BoundsAssumption DEF Inv, TypeOK
  <2>5. last < sent[p.id] /\ sent[p.id] - 1 \in entriesData[p.id]
    BY <2>2, <2>3 DEF Inv, StoredChunks
  <2>6. last + 1 = sent[p.id]
    <3>1. sent[p.id] - 1 <= last
      BY <2>1, <2>5
    <3> QED
      BY <2>4, <2>5, <3>1
  <2>7. /\ q \in Request /\ q.op = "serve" /\ q.id = p.id
        /\ q.total = last + 1 /\ q.got = {} /\ q.next = 0
    <3>1. last + 1 \in Nat /\ {} \in SUBSET Nat
      BY <2>4, BoundsAssumption
    <3> QED
      BY <1>0, <3>1 DEF Request, Op
  <2>8. req' = [req EXCEPT ![r] = q]
    BY <2>1, <1>0 DEF Inv, TypeOK
  <2> HIDE DEF q
  <2>9. q.got = 0..q.next - 1
    BY <2>7
  <2>10. Consistent(q)
    BY <2>2, <2>6, <2>7, <2>9 DEF Consistent
  <2> QED
    BY <1>2, <2>8, <2>10, RequestMoves DEF OpenReader
<1>3. ASSUME OpenReaderFails(r) PROVE Inv'
  <2>1. Consistent(GoesToRecord(r))
    BY <1>3
    DEF OpenReaderFails, GoesToRecord, Consistent, Idle, Request, Op, Inv,
        ReaderState
  <2> QED
    BY <1>3, <2>1, RequestMoves DEF OpenReaderFails
<1>4. ASSUME ReadChunk(r) PROVE Inv'
  <2> DEFINE q == [p EXCEPT !.next = @ + 1,
                            !.got = @ \cup ({p.next} \cap entriesData[p.id])]
  <2>1. /\ p.op = "serve" /\ p.next \in entriesData[p.id]
        /\ p.id \in EntryIDs /\ fate[p.id] \in {"stored", "removed"}
        /\ p.total = sent[p.id] /\ p.got = 0..p.next - 1
    BY <1>4 DEF ReadChunk, ChunkPresent, Inv, ReaderState
  <2>2. q.got = p.got \cup {p.next} /\ q.next = p.next + 1
    BY <1>0, <2>1 DEF Request
  <2>3. q.got = 0..q.next - 1
    <3>1. p.next \in Nat
      BY <1>0 DEF Request
    <3>2. (0..p.next - 1) \cup {p.next} = 0..(p.next + 1) - 1
      BY <3>1
    <3> QED
      BY <2>1, <2>2, <3>2, Zenon
  <2>4. q \in Request
    <3>1. p.next \in Nat /\ p.next + 1 \in Nat /\ p.got \cup {p.next} \in SUBSET Nat
      BY <1>0 DEF Request
    <3> QED
      BY <1>0, <2>1, <3>1 DEF Request
  <2>5. q.op = "serve" /\ q.id = p.id /\ q.total = p.total
    BY <1>0, <2>1 DEF Request
  <2>6. req' = [req EXCEPT ![r] = q]
    BY <1>0, <1>4 DEF ReadChunk, Inv, TypeOK
  <2> HIDE DEF q
  <2>7. Consistent(q)
    BY <2>1, <2>3, <2>4, <2>5 DEF Consistent
  <2> QED
    BY <1>4, <2>6, <2>7, RequestMoves DEF ReadChunk
<1>5. ASSUME ServeContentReturns(r) PROVE Inv'
  <2>1. Consistent(GoesToRecord(r))
    BY <1>5
    DEF ServeContentReturns, GoesToRecord, Consistent, Idle, Request, Op, Inv,
        ReaderState
  <2> QED
    BY <1>5, <2>1, RequestMoves DEF ServeContentReturns
<1>6. ASSUME RecordDownload(r) PROVE Inv'
  <2>1. p.id \in EntryIDs
    BY <1>6 DEF RecordDownload, Inv, ReaderState
  <2>2. downloads' \subseteq [entry: EntryIDs, time: 0..MaxTime]
    BY <1>6, <2>1 DEF Inv, TypeOK, RecordDownload
  <2> QED
    BY <1>6, <2>2, IdleIsConsistent, RequestMovesAndRecords
    DEF RecordDownload, Answer
<1>7. ASSUME RecordDownloadFails(r) PROVE Inv'
  BY <1>7, IdleIsConsistent, RequestMoves DEF RecordDownloadFails, Answer
<1> QED
  BY <1>1, <1>2, <1>3, <1>4, <1>5, <1>6, <1>7

\* So are the permission checks of entryDelete, entryPut and the guest link
\* handlers, and store calls that fail.
LEMMA ManagementAdmissions ==
  ASSUME Inv, NEW r \in Requests
  PROVE  /\ \A user \in Users, e \in EntryIDs :
              EntryDelete(r, user, e) => Inv'
         /\ \A user \in Users, e \in EntryIDs, x \in ParsedExpirations :
              EntryPut(r, user, e, x) => Inv'
         /\ \A user \in Users, l \in GuestLinkIDs,
               op \in {"unlink", "enable", "disable"} :
              GuestLinkChange(r, user, l, op) => Inv'
         /\ ManagementFails(r) => Inv'
<1>1. ASSUME NEW user \in Users, NEW e \in EntryIDs, EntryDelete(r, user, e)
      PROVE  Inv'
  <2> DEFINE q == [Idle EXCEPT !.op = "delete", !.id = e, !.user = user]
  <2>1. fate[e] = "stored"
    BY <1>1 DEF EntryDelete, MayDelete, GetEntryMetadata, Inv, RowsAreStored
  <2>2. Consistent(q)
    BY <2>1 DEF Consistent, Idle, Request, Op
  <2> QED
    BY <1>1, <2>2, RequestMoves DEF EntryDelete
<1>2. ASSUME NEW user \in Users, NEW e \in EntryIDs,
             NEW x \in ParsedExpirations, EntryPut(r, user, e, x)
      PROVE  Inv'
  <2> DEFINE q == [Idle EXCEPT !.op = "put", !.id = e, !.user = user,
                               !.expires = x]
  <2>1. fate[e] = "stored" /\ x \in Nat
    BY <1>2, ParsedExpirationsAreDates
    DEF EntryPut, GetEntryMetadata, Inv, RowsAreStored
  <2>2. Consistent(q)
    BY <2>1 DEF Consistent, Idle, Request, Op
  <2> QED
    BY <1>2, <2>2, RequestMoves DEF EntryPut
<1>3. ASSUME NEW user \in Users, NEW l \in GuestLinkIDs,
             NEW op \in {"unlink", "enable", "disable"},
             GuestLinkChange(r, user, l, op)
      PROVE  Inv'
  <2> DEFINE q == [Idle EXCEPT !.op = op, !.link = l, !.user = user]
  <2>1. Consistent(q)
    BY DEF Consistent, Idle, Request, Op
  <2> QED
    BY <1>3, <2>1, RequestMoves DEF GuestLinkChange
<1>4. ASSUME ManagementFails(r) PROVE Inv'
  BY <1>4, IdleIsConsistent, RequestMoves DEF ManagementFails, Answer
<1> QED
  BY <1>1, <1>2, <1>3, <1>4

-----------------------------------------------------------------------------
(***************************************************************************)
(* The stages of an upload                                                 *)
(***************************************************************************)

\* The id drawn for an upload is fresh: nothing in the tables refers to it.
LEMMA BodyReceivedKeepsInv ==
  ASSUME Inv, NEW r \in Requests, NEW e \in EntryIDs,
         NEW chunks \in 1..MaxChunks, BodyReceived(r, e, chunks)
  PROVE  Inv'
<1> USE DEF BodyReceived, fileTables, configTables, history
<1> DEFINE p == req[r]
           q == [p EXCEPT !.op = "chunks", !.id = e, !.next = 0,
                          !.total = chunks]
<1>1. chunks \in Nat /\ chunks \in 0..MaxChunks
  BY BoundsAssumption
<1>2. p \in Request /\ p.op = "body"
  BY DEF Inv, TypeOK
<1>3. /\ q \in Request /\ q.op = "chunks" /\ q.id = e /\ q.next = 0
      /\ q.total = chunks /\ q.link = p.link
  BY <1>1, <1>2 DEF Request, Op
<1>4. req' = [req EXCEPT ![r] = q]
  BY DEF Inv, TypeOK
<1> HIDE DEF q
<1>5. \A s \in Requests : req'[s] = IF s = r THEN q ELSE req[s]
  BY <1>4 DEF Inv, TypeOK
<1>6. /\ fate[e] = "unused" /\ entriesData[e] = {} /\ e \notin swept
      /\ fate'[e] = "writing" /\ sent'[e] = chunks
  BY DEF Inv, TypeOK, NothingLeft
<1>7. \A f \in EntryIDs : f # e => fate'[f] = fate[f] /\ sent'[f] = sent[f]
  BY DEF Inv, TypeOK
<1>8. TypeOK'
  <2>1. /\ fate' \in [EntryIDs -> Fate]
        /\ sent' \in [EntryIDs -> 0..MaxChunks]
    BY <1>1 DEF Inv, TypeOK, Fate
  <2>2. req' \in [Requests -> Request]
    BY <1>3, <1>4 DEF Inv, TypeOK
  <2> QED
    BY <2>1, <2>2 DEF Inv, TypeOK
<1>9. RowsAreStored' /\ NothingLeft' /\ StoredChunks' /\ GuestUploadOwner'
  BY <1>6, <1>7 DEF Inv, RowsAreStored, NothingLeft, StoredChunks,
                    GuestUploadOwner
<1>10. ASSUME NEW s \in Requests PROVE WriterState(s)' /\ ReaderState(s)'
  <2>1. CASE s = r
    <3>1. \A c \in entriesData'[e] : c < 0
      BY <1>6
    <3>2. 0..0 - 1 = {} /\ 0 <= chunks
      BY <1>1
    <3> QED
      BY <1>3, <1>5, <1>6, <2>1, <3>1, <3>2 DEF WriterState, ReaderState
  <2>2. CASE s # r
    <3>1. req'[s] = req[s]
      BY <1>5, <2>2
    <3>2. WriterState(s)'
      <4>1. req[s].op = "chunks" => req[s].id \in EntryIDs /\ req[s].id # e
        BY <1>6 DEF Inv, WriterState
      <4>2. entriesData' = entriesData /\ swept' = swept
        OBVIOUS
      <4> HIDE DEF BodyReceived
      <4> QED
        BY <1>7, <3>1, <4>1, <4>2 DEF Inv, WriterState
    <3>3. ReaderState(s)'
      BY <1>6, <1>7, <3>1 DEF Inv, ReaderState
    <3> QED
      BY <3>2, <3>3
  <2> QED
    BY <2>1, <2>2
<1>11. OneWriter'
  <2>1. \A s \in Requests : s # r /\ req[s].op = "chunks" => req[s].id # e
    BY <1>6 DEF Inv, WriterState
  <2> QED
    BY <1>3, <1>5, <2>1 DEF Inv, OneWriter
<1>12. LinksAreIssued'
  <2>1. UNCHANGED <<retired, guestLinks, entries>>
    OBVIOUS
  <2>2. ASSUME NEW s \in Requests
        PROVE  /\ req'[s].op \in {"body", "chunks"} =>
                    Issued(req[s].link) /\ req'[s].link = req[s].link
               /\ req'[s].op \in {"unlink", "enable", "disable"} =>
                    req'[s].link \in GuestLinkIDs
    BY <1>2, <1>3, <1>5 DEF Inv, LinksAreIssued
  <2> HIDE DEF BodyReceived
  <2> QED
    BY <2>1, <2>2 DEF Inv, LinksAreIssued, Issued
<1> QED
  BY <1>8, <1>9, <1>10, <1>11, <1>12 DEF Inv

\* A flush adds the chunk with the next index to the upload's own id.
LEMMA WriteChunkKeepsInv ==
  ASSUME Inv, NEW r \in Requests, WriteChunk(r)
  PROVE  Inv'
<1> USE WriteChunk(r) DEF WriteChunk, ChunkIndex, configTables, history
<1> DEFINE p == req[r]
           f == p.id
           q == [p EXCEPT !.next = @ + 1]
<1>1. p \in Request /\ q \in Request
  <2>1. p \in Request
    BY DEF Inv, TypeOK
  <2>2. p.next \in Nat /\ p.next + 1 \in Nat
    BY <2>1 DEF Request
  <2> QED
    BY <2>1, <2>2 DEF Request
<1>2. \A s \in Requests : req'[s] = IF s = r THEN q ELSE req[s]
  BY DEF Inv, TypeOK
<1>3. /\ f \in EntryIDs
      /\ fate[f] = "writing"
      /\ p.total = sent[f]
      /\ p.next < sent[f]
      /\ \A c \in entriesData[f] : c < p.next
      /\ f \notin swept => entriesData[f] = 0..p.next - 1
  BY DEF Inv, WriterState
<1>4. p.next \in 0..MaxChunks - 1 /\ sent[f] \in Nat
  BY <1>1, <1>3, BoundsAssumption DEF Inv, TypeOK, Request
<1>5. \A e \in EntryIDs :
        entriesData'[e] = IF e = f THEN entriesData[f] \cup {p.next}
                          ELSE entriesData[e]
  BY DEF Inv, TypeOK
<1>6. TypeOK'
  <2>1. entriesData' \in [EntryIDs -> SUBSET (0..MaxChunks - 1)]
    <3>1. entriesData[f] \cup {p.next} \in SUBSET (0..MaxChunks - 1)
      BY <1>3, <1>4 DEF Inv, TypeOK
    <3> QED
      BY <3>1 DEF Inv, TypeOK
  <2>2. req' \in [Requests -> Request]
    BY <1>1 DEF Inv, TypeOK
  <2> QED
    BY <2>1, <2>2 DEF Inv, TypeOK
<1>7. RowsAreStored' /\ NothingLeft' /\ StoredChunks' /\ GuestUploadOwner'
  BY <1>3, <1>5 DEF Inv, RowsAreStored, NothingLeft, StoredChunks,
                    GuestUploadOwner
<1>8. ASSUME NEW s \in Requests PROVE WriterState(s)'
  <2>1. CASE s = r
    <3>1. req'[r].op = "chunks" /\ req'[r].id = f /\ req'[r].total = p.total
          /\ req'[r].next = p.next + 1
      BY <1>1, <1>2 DEF Request
    <3>2. entriesData'[f] = entriesData[f] \cup {p.next}
      BY <1>3, <1>5
    <3>3. \A c \in entriesData'[f] : c < p.next + 1
      BY <1>3, <1>4, <3>2 DEF Inv, TypeOK
    <3>4. f \notin swept => entriesData'[f] = 0..p.next
      <4>1. (0..p.next - 1) \cup {p.next} = 0..p.next
        BY <1>4
      <4> QED
        BY <1>3, <3>2, <4>1, Zenon
    <3>5. p.next + 1 - 1 = p.next
      BY <1>4
    <3> QED
      BY <1>3, <1>4, <2>1, <3>1, <3>2, <3>3, <3>4, <3>5 DEF WriterState
  <2>2. CASE s # r
    <3>1. req'[s] = req[s] /\ (req[s].op = "chunks" => req[s].id # f)
      BY <1>2, <2>2 DEF Inv, OneWriter
    <3> QED
      BY <1>5, <3>1 DEF Inv, WriterState
  <2> QED
    BY <2>1, <2>2
<1>9. OneWriter' /\ LinksAreIssued' /\ \A s \in Requests : ReaderState(s)'
  BY <1>1, <1>2
  DEF Inv, OneWriter, LinksAreIssued, Issued, ReaderState, Request
<1> QED
  BY <1>6, <1>7, <1>8, <1>9 DEF Inv

\* The request that has been answered leaves the others alone.
LEMMA Answered ==
  ASSUME Inv, NEW r \in Requests, Answer(r)
  PROVE  /\ req' \in [Requests -> Request]
         /\ \A s \in Requests : req'[s] = IF s = r THEN Idle ELSE req[s]
         /\ Idle.op = "idle"
         /\ OneWriter'
<1>1. Idle \in Request /\ Idle.op = "idle"
  BY DEF Idle, Request, Op
<1>2. /\ req' \in [Requests -> Request]
      /\ \A s \in Requests : req'[s] = IF s = r THEN Idle ELSE req[s]
  BY <1>1 DEF Inv, TypeOK, Answer
<1> QED
  BY <1>1, <1>2 DEF Inv, OneWriter

\* InsertEntry stores the row when all chunks are flushed; those missing then
\* are the ones deleteOrphanedRows took.
LEMMA InsertRowKeepsInv ==
  ASSUME Inv, NEW r \in Requests, InsertRow(r)
  PROVE  Inv'
<1> USE DEF InsertRow, configTables
<1> DEFINE f == req[r].id
           row == [link |-> req[r].link, owner |-> InsertedOwner(r),
                   expires |-> req[r].expires]
<1>1. /\ f \in EntryIDs /\ fate[f] = "writing" /\ sent[f] = req[r].next
      /\ \A c \in entriesData[f] : c < sent[f]
      /\ entriesData[f] = {} \/ sent[f] - 1 \in entriesData[f]
      /\ f \notin swept => entriesData[f] = 0..sent[f] - 1
      /\ Issued(req[r].link)
  BY InsertRow(r) DEF AllFlushed, Inv, WriterState, LinksAreIssued
<1>2. row \in Row /\ row # NULL
  BY InsertedRowIsARow, RowsAssumption DEF Inv
<1>3. \A e \in EntryIDs : /\ entries'[e] = IF e = f THEN row ELSE entries[e]
                          /\ fate'[e] = IF e = f THEN "stored" ELSE fate[e]
  BY <1>1, InsertRow(r) DEF Inv, TypeOK
<1>4. /\ \A s \in Requests : req'[s] = IF s = r THEN Idle ELSE req[s]
      /\ req' \in [Requests -> Request] /\ Idle.op = "idle" /\ OneWriter'
  BY InsertRow(r), Answered
<1>5. TypeOK'
  <2>1. fate' \in [EntryIDs -> Fate]
    BY InsertRow(r) DEF Inv, TypeOK, Fate
  <2>2. entries' \in [EntryIDs -> Row \cup {NULL}]
    BY <1>2, InsertRow(r) DEF Inv, TypeOK
  <2> QED
    BY <1>4, <2>1, <2>2, InsertRow(r) DEF Inv, TypeOK
<1>6. /\ UNCHANGED <<entriesData, sent, swept, guestLinks, retired>>
  BY InsertRow(r)
<1>7. RowsAreStored' /\ NothingLeft' /\ StoredChunks'
  BY <1>1, <1>2, <1>3, <1>6 DEF Inv, RowsAreStored, NothingLeft, StoredChunks
<1>8. ASSUME NEW s \in Requests PROVE WriterState(s)' /\ ReaderState(s)'
  <2>1. s # r /\ req[s].op = "chunks" => req[s].id # f
    BY <1>1, InsertRow(r) DEF Inv, OneWriter
  <2> QED
    BY <1>3, <1>4, <1>6, <2>1 DEF Inv, WriterState, ReaderState
<1>9. LinksAreIssued'
  BY <1>1, <1>3, <1>4, <1>6 DEF Inv, LinksAreIssued, Issued
<1>10. GuestUploadOwner'
  BY <1>1, <1>3, <1>6 DEF Inv, GuestUploadOwner, InsertedOwner
<1> QED
  BY <1>4, <1>5, <1>7, <1>8, <1>9, <1>10 DEF Inv

\* A failed insertion leaves chunks behind, of an upload marked as failed.
LEMMA InsertFailsKeepsInv ==
  ASSUME Inv, NEW r \in Requests, InsertFails(r)
  PROVE  Inv'
<1> DEFINE f == req[r].id
<1>1. f \in EntryIDs /\ fate[f] = "writing"
  BY InsertFails(r) DEF InsertFails, Inv, WriterState
<1>2. \A e \in EntryIDs : fate'[e] = IF e = f THEN "failed" ELSE fate[e]
  BY InsertFails(r) DEF InsertFails, Inv, TypeOK
<1>3. /\ \A s \in Requests : req'[s] = IF s = r THEN Idle ELSE req[s]
      /\ req' \in [Requests -> Request] /\ Idle.op = "idle" /\ OneWriter'
  BY InsertFails(r), Answered DEF InsertFails
<1>4. UNCHANGED <<now, fileTables, configTables, gc, sent, swept, retired>>
  BY InsertFails(r) DEF InsertFails
<1> USE DEF fileTables, configTables
<1>5. TypeOK'
  <2>1. fate' \in [EntryIDs -> Fate]
    BY InsertFails(r) DEF InsertFails, Inv, TypeOK, Fate
  <2> QED
    BY <1>3, <1>4, <2>1 DEF Inv, TypeOK
<1>6. RowsAreStored' /\ NothingLeft' /\ StoredChunks' /\ GuestUploadOwner'
  BY <1>1, <1>2, <1>4 DEF Inv, RowsAreStored, NothingLeft, StoredChunks,
                          GuestUploadOwner
<1>7. ASSUME NEW s \in Requests PROVE WriterState(s)' /\ ReaderState(s)'
  <2>1. s # r /\ req[s].op = "chunks" => req[s].id # f
    BY InsertFails(r) DEF InsertFails, Inv, OneWriter
  <2> QED
    BY <1>1, <1>2, <1>3, <1>4, <2>1 DEF Inv, WriterState, ReaderState
<1>8. LinksAreIssued'
  BY <1>3, <1>4 DEF Inv, LinksAreIssued, Issued
<1> QED
  BY <1>3, <1>5, <1>6, <1>7, <1>8 DEF Inv

-----------------------------------------------------------------------------
(***************************************************************************)
(* Deletions, edits and guest links                                        *)
(***************************************************************************)

\* DeleteEntry takes the row, the chunks and the history of one entry.
LEMMA DeleteEntryKeepsInv ==
  ASSUME Inv, NEW r \in Requests, DeleteEntry(r)
  PROVE  Inv'
<1> DEFINE f == req[r].id
<1>1. f \in EntryIDs /\ fate[f] \in {"stored", "removed"}
  BY DeleteEntry(r) DEF DeleteEntry, Inv, ReaderState
<1>2. \A e \in EntryIDs :
        /\ entries'[e] = IF e = f THEN NULL ELSE entries[e]
        /\ entriesData'[e] = IF e = f THEN {} ELSE entriesData[e]
        /\ fate'[e] = IF e = f THEN "removed" ELSE fate[e]
  BY <1>1, DeleteEntry(r)
  DEF DeleteEntry, ChunksAfterDelete, RemovedFate, Inv, TypeOK
<1>3. /\ \A s \in Requests : req'[s] = IF s = r THEN Idle ELSE req[s]
      /\ req' \in [Requests -> Request] /\ Idle.op = "idle" /\ OneWriter'
  BY DeleteEntry(r), Answered DEF DeleteEntry
<1>4. UNCHANGED <<now, configTables, gc, sent, swept, retired>>
  BY DeleteEntry(r) DEF DeleteEntry
<1> USE DEF configTables
<1>5. TypeOK'
  <2>1. /\ fate' \in [EntryIDs -> Fate]
        /\ entries' \in [EntryIDs -> Row \cup {NULL}]
        /\ entriesData' \in [EntryIDs -> SUBSET (0..MaxChunks - 1)]
        /\ downloads' \subseteq downloads
    BY <1>1, DeleteEntry(r)
    DEF DeleteEntry, ChunksAfterDelete, RemovedFate, Inv, TypeOK, Fate
  <2> QED
    BY <1>3, <1>4, <2>1 DEF Inv, TypeOK
<1>6. RowsAreStored' /\ NothingLeft' /\ StoredChunks' /\ GuestUploadOwner'
  BY <1>1, <1>2, <1>4 DEF Inv, RowsAreStored, NothingLeft, StoredChunks,
                          GuestUploadOwner
<1>7. ASSUME NEW s \in Requests PROVE WriterState(s)' /\ ReaderState(s)'
  <2>1. req[s].op = "chunks" => req[s].id # f
    BY <1>1 DEF Inv, WriterState
  <2> QED
    BY <1>1, <1>2, <1>3, <1>4, <2>1 DEF Inv, WriterState, ReaderState
<1>8. LinksAreIssued'
  BY <1>2, <1>3, <1>4 DEF Inv, LinksAreIssued, Issued
<1> QED
  BY <1>3, <1>5, <1>6, <1>7, <1>8 DEF Inv

\* UpdateEntryMetadata changes a row that is there, and adds none.
LEMMA UpdateEntryMetadataKeepsInv ==
  ASSUME Inv, NEW r \in Requests, UpdateEntryMetadata(r)
  PROVE  Inv'
<1> DEFINE f == req[r].id
<1>1. f \in EntryIDs
  BY UpdateEntryMetadata(r) DEF UpdateEntryMetadata, Inv, ReaderState
<1>2. \A e \in EntryIDs : e # f => entries'[e] = entries[e]
  BY UpdateEntryMetadata(r) DEF UpdateEntryMetadata, Inv, TypeOK
<1>3. entries'[f] = RowAfterUpdate(r)
  BY <1>1, UpdateEntryMetadata(r) DEF UpdateEntryMetadata, Inv, TypeOK
<1>4. /\ entries[f] = NULL => entries'[f] = NULL
      /\ entries[f] # NULL => /\ entries'[f] \in Row
                              /\ entries'[f] # NULL
                              /\ entries'[f].link = entries[f].link
                              /\ entries'[f].owner = entries[f].owner
  <2>1. CASE entries[f] = NULL
    BY <1>3, <2>1 DEF RowAfterUpdate
  <2>2. CASE entries[f] # NULL
    <3>1. entries[f] \in Row /\ req[r].expires \in Nat
      BY <1>1, <2>2 DEF Inv, TypeOK, Request
    <3>2. entries'[f] = [entries[f] EXCEPT !.expires = req[r].expires]
      BY <1>3, <2>2 DEF RowAfterUpdate
    <3>3. entries'[f] \in Row /\ entries'[f].link = entries[f].link
          /\ entries'[f].owner = entries[f].owner
      BY <3>1, <3>2 DEF Row
    <3> QED
      BY <2>2, <3>3, RowsAssumption
  <2> QED
    BY <2>1, <2>2
<1>5. /\ \A s \in Requests : req'[s] = IF s = r THEN Idle ELSE req[s]
      /\ req' \in [Requests -> Request] /\ Idle.op = "idle" /\ OneWriter'
  BY UpdateEntryMetadata(r), Answered DEF UpdateEntryMetadata
<1>6. UNCHANGED <<now, entriesData, downloads, configTables, gc, history>>
  BY UpdateEntryMetadata(r) DEF UpdateEntryMetadata
<1> USE DEF configTables, history
<1>7. TypeOK'
  <2>1. entries' \in [EntryIDs -> Row \cup {NULL}]
    <3>1. entries' = [entries EXCEPT ![f] = RowAfterUpdate(r)]
      BY UpdateEntryMetadata(r) DEF UpdateEntryMetadata
    <3> QED
      BY <1>3, <1>4, <3>1 DEF Inv, TypeOK
  <2> QED
    BY <1>5, <1>6, <2>1 DEF Inv, TypeOK
<1>8. \A e \in EntryIDs :
        /\ entries'[e] = NULL <=> entries[e] = NULL
        /\ entries[e] # NULL => /\ entries'[e].link = entries[e].link
                                /\ entries'[e].owner = entries[e].owner
  BY <1>2, <1>4
<1>9. /\ RowsAreStored' /\ NothingLeft' /\ StoredChunks' /\ GuestUploadOwner'
      /\ LinksAreIssued'
  BY <1>5, <1>6, <1>8
  DEF Inv, RowsAreStored, NothingLeft, StoredChunks, GuestUploadOwner,
      LinksAreIssued, Issued
<1>10. \A s \in Requests : WriterState(s)' /\ ReaderState(s)'
  BY <1>5, <1>6 DEF Inv, WriterState, ReaderState
<1> QED
  BY <1>5, <1>7, <1>9, <1>10 DEF Inv

\* What does not involve guest links does not change with them.
LEMMA OnlyGuestLinksChange ==
  ASSUME Inv, UNCHANGED <<now, entriesData, downloads, settings, admins, gc,
                          fate, sent, swept>>,
         guestLinks' \in [GuestLinkIDs -> GuestLink \cup {NULL}],
         entries' \in [EntryIDs -> Row \cup {NULL}],
         \A e \in EntryIDs : entries'[e] = NULL <=> entries[e] = NULL,
         retired' \subseteq GuestLinkIDs,
         req' \in [Requests -> Request], OneWriter',
         \A s \in Requests : req'[s] = req[s] \/ req'[s].op = "idle",
         GuestUploadOwner', LinksAreIssued'
  PROVE  Inv'
<1>1. TypeOK'
  BY DEF Inv, TypeOK
<1>2. RowsAreStored' /\ NothingLeft' /\ StoredChunks'
  BY DEF Inv, RowsAreStored, NothingLeft, StoredChunks
<1>3. \A s \in Requests : WriterState(s)' /\ ReaderState(s)'
  BY DEF Inv, WriterState, ReaderState
<1> QED
  BY <1>1, <1>2, <1>3 DEF Inv

\* A new link has an id that no entry and no request refers to.
LEMMA GuestLinksPostKeepsInv ==
  ASSUME Inv, NEW l \in GuestLinkIDs, NEW user \in Users,
         NEW limit \in CountLimits, NEW urlExpires \in ParsedExpirations,
         NEW lifetime \in Lifetimes \cup {NULL},
         GuestLinksPost(l, user, limit, urlExpires, lifetime)
  PROVE  Inv'
<1> USE GuestLinksPost(l, user, limit, urlExpires, lifetime)
    DEF GuestLinksPost, fileTables, history
<1> DEFINE link == [owner |-> user, isDisabled |-> FALSE,
                    maxFileUploads |-> limit, urlExpires |-> urlExpires,
                    maxFileLifetime |-> lifetime]
<1>1. link \in GuestLink /\ link # NULL
  <2>1. urlExpires \in Nat
    BY ParsedExpirationsAreDates DEF Inv
  <2>2. link \in GuestLink
    BY <2>1 DEF GuestLink
  <2> QED
    BY <2>2, RowsAssumption
<1>2. guestLinks' = [guestLinks EXCEPT ![l] = link]
  OBVIOUS
<1> HIDE DEF link
<1>3. guestLinks' \in [GuestLinkIDs -> GuestLink \cup {NULL}]
  BY <1>1, <1>2 DEF Inv, TypeOK
<1>4. \A k \in GuestLinkIDs :
        guestLinks'[k] = IF k = l THEN link ELSE guestLinks[k]
  BY <1>2 DEF Inv, TypeOK
<1>5. \A e \in EntryIDs : entries[e] # NULL =>
        entries[e].link \in GuestLinkIDs \cup {NULL} /\ entries[e].link # l
  <2>1. guestLinks[l] = NULL /\ l \notin retired /\ l # NULL
    BY SetsAssumption
  <2>2. \A e \in EntryIDs : entries[e] # NULL =>
          entries[e].link \in GuestLinkIDs \cup {NULL}
    BY DEF Inv, TypeOK, Row
  <2> QED
    BY <2>1, <2>2 DEF Inv, LinksAreIssued, Issued
<1>6. GuestUploadOwner'
  BY <1>4, <1>5 DEF Inv, GuestUploadOwner
<1>7. LinksAreIssued'
  BY <1>1, <1>4 DEF Inv, LinksAreIssued, Issued, TypeOK, Request, Row
<1> QED
  BY <1>3, <1>6, <1>7, OnlyGuestLinksChange DEF Inv, TypeOK, OneWriter

\* DeleteGuestLink detaches every upload that names the link.
LEMMA DeleteGuestLinkKeepsInv ==
  ASSUME Inv, NEW r \in Requests, DeleteGuestLink(r)
  PROVE  Inv'
<1> DEFINE l == req[r].link
<1>1. l \in GuestLinkIDs /\ l # NULL
  BY DeleteGuestLink(r), SetsAssumption
  DEF DeleteGuestLink, Inv, LinksAreIssued
<1>2. /\ guestLinks' = [guestLinks EXCEPT ![l] = NULL]
      /\ \A e \in EntryIDs : entries'[e] = Unlinked(entries[e], l)
      /\ entries' = [e \in EntryIDs |-> Unlinked(entries[e], l)]
      /\ retired' = retired \cup {l}
      /\ UNCHANGED <<now, entriesData, downloads, settings, admins, gc, fate,
                     sent, swept>>
  BY DeleteGuestLink(r) DEF DeleteGuestLink
<1>3. /\ \A s \in Requests : req'[s] = IF s = r THEN Idle ELSE req[s]
      /\ req' \in [Requests -> Request] /\ Idle.op = "idle" /\ OneWriter'
  BY DeleteGuestLink(r), Answered DEF DeleteGuestLink
<1>4. \A e \in EntryIDs :
        /\ entries'[e] = NULL <=> entries[e] = NULL
        /\ entries'[e] \in Row \cup {NULL}
        /\ entries[e] # NULL =>
             /\ entries'[e].link =
                  IF entries[e].link = l THEN NULL ELSE entries[e].link
             /\ entries'[e].owner = entries[e].owner
  <2> TAKE e \in EntryIDs
  <2>1. CASE entries[e] = NULL
    BY <1>2, <2>1 DEF Unlinked
  <2>2. CASE entries[e] # NULL /\ entries[e].link # l
    BY <1>2, <2>2 DEF Unlinked, Inv, TypeOK
  <2>3. CASE entries[e] # NULL /\ entries[e].link = l
    <3>1. entries[e] \in Row
      BY <2>3 DEF Inv, TypeOK
    <3>2. entries'[e] = [entries[e] EXCEPT !.link = NULL]
      BY <1>2, <2>3 DEF Unlinked
    <3>3. /\ entries'[e] \in Row /\ entries'[e].link = NULL
          /\ entries'[e].owner = entries[e].owner
      BY <3>1, <3>2 DEF Row
    <3> QED
      BY <2>3, <3>3, RowsAssumption
  <2> QED
    BY <2>1, <2>2, <2>3
<1>5. \A k \in GuestLinkIDs :
        guestLinks'[k] = IF k = l THEN NULL ELSE guestLinks[k]
  BY <1>2 DEF Inv, TypeOK
<1>6. guestLinks' \in [GuestLinkIDs -> GuestLink \cup {NULL}]
  BY <1>2 DEF Inv, TypeOK
<1>7. retired' \subseteq GuestLinkIDs
  BY <1>1, <1>2 DEF Inv, TypeOK
<1>8. entries' \in [EntryIDs -> Row \cup {NULL}]
  BY <1>2, <1>4
<1>9. \A e \in EntryIDs : entries[e] # NULL =>
        entries[e].link \in GuestLinkIDs \cup {NULL}
  BY DEF Inv, TypeOK, Row
<1>10. GuestUploadOwner'
  BY <1>1, <1>4, <1>5, <1>9, SetsAssumption DEF Inv, GuestUploadOwner
<1>11. LinksAreIssued'
  <2>1. \A k \in retired' : guestLinks'[k] = NULL
    BY <1>2, <1>5, <1>7 DEF Inv, LinksAreIssued
  <2>2. \A k \in GuestLinkIDs \cup {NULL} : Issued(k) => Issued(k)'
    BY <1>2, <1>5 DEF Issued
  <2>3. \A s \in Requests : req[s].link \in GuestLinkIDs \cup {NULL}
    BY DEF Inv, TypeOK, Request
  <2> QED
    BY <1>3, <1>4, <1>9, <2>1, <2>2, <2>3 DEF Inv, LinksAreIssued, Issued
<1> QED
  BY <1>2, <1>3, <1>4, <1>6, <1>7, <1>8, <1>10, <1>11, OnlyGuestLinksChange

\* Disabling and enabling leave a link's owner alone.
LEMMA SetGuestLinkDisabledKeepsInv ==
  ASSUME Inv, NEW r \in Requests, SetGuestLinkDisabled(r)
  PROVE  Inv'
<1> DEFINE l == req[r].link
<1>1. l \in GuestLinkIDs
  BY SetGuestLinkDisabled(r) DEF SetGuestLinkDisabled, Inv, LinksAreIssued
<1>2. /\ guestLinks' = IF guestLinks[l] = NULL THEN guestLinks
                       ELSE [guestLinks EXCEPT ![l].isDisabled =
                               (req[r].op = "disable")]
      /\ UNCHANGED <<now, fileTables, settings, admins, gc, history>>
  BY SetGuestLinkDisabled(r) DEF SetGuestLinkDisabled
<1>3. /\ \A s \in Requests : req'[s] = IF s = r THEN Idle ELSE req[s]
      /\ req' \in [Requests -> Request] /\ Idle.op = "idle" /\ OneWriter'
  BY SetGuestLinkDisabled(r), Answered DEF SetGuestLinkDisabled
<1>4. /\ guestLinks' \in [GuestLinkIDs -> GuestLink \cup {NULL}]
      /\ \A k \in GuestLinkIDs :
           /\ guestLinks'[k] = NULL <=> guestLinks[k] = NULL
           /\ guestLinks[k] # NULL => guestLinks'[k].owner = guestLinks[k].owner
  <2>1. CASE guestLinks[l] = NULL
    BY <1>2, <2>1 DEF Inv, TypeOK
  <2>2. CASE guestLinks[l] # NULL
    <3> DEFINE link == [guestLinks[l] EXCEPT !.isDisabled =
                          (req[r].op = "disable")]
    <3>1. guestLinks[l] \in GuestLink
      BY <1>1, <2>2 DEF Inv, TypeOK
    <3>2. link \in GuestLink /\ link.owner = guestLinks[l].owner
      BY <3>1 DEF GuestLink
    <3>3. link # NULL
      BY <3>2, RowsAssumption
    <3>4. guestLinks' = [guestLinks EXCEPT ![l] = link]
      BY <1>2, <2>2 DEF Inv, TypeOK
    <3> HIDE DEF link
    <3> QED
      BY <1>1, <2>2, <3>2, <3>3, <3>4 DEF Inv, TypeOK
  <2> QED
    BY <2>1, <2>2
<1> USE DEF fileTables, history
<1>5. GuestUploadOwner'
  <2>1. \A e \in EntryIDs : entries[e] # NULL =>
          entries[e].link \in GuestLinkIDs \cup {NULL}
    BY DEF Inv, TypeOK, Row
  <2> QED
    BY <1>2, <1>4, <2>1 DEF Inv, GuestUploadOwner
<1>6. LinksAreIssued'
  <2>1. \A k \in GuestLinkIDs \cup {NULL} : Issued(k) => Issued(k)'
    BY <1>2, <1>4 DEF Issued
  <2>2. /\ \A s \in Requests : req[s].link \in GuestLinkIDs \cup {NULL}
        /\ \A e \in EntryIDs : entries[e] # NULL =>
             entries[e].link \in GuestLinkIDs \cup {NULL}
        /\ retired \subseteq GuestLinkIDs
    BY DEF Inv, TypeOK, Request, Row
  <2> QED
    BY <1>2, <1>3, <1>4, <2>1, <2>2 DEF Inv, LinksAreIssued
<1> QED
  BY <1>2, <1>3, <1>4, <1>5, <1>6, OnlyGuestLinksChange DEF Inv, TypeOK

-----------------------------------------------------------------------------
(***************************************************************************)
(* The collector, a restart, the clock and the settings                    *)
(***************************************************************************)

\* Inv says nothing of settings, roles and the purge in progress but their
\* types, and of the clock and the downloads only that they are in bounds.
LEMMA FilesAndRequestsUntouched ==
  ASSUME Inv, UNCHANGED <<entries, entriesData, guestLinks, req, history>>,
         now' \in 0..MaxTime,
         downloads' \subseteq downloads,
         settings' \in Settings,
         admins' \subseteq Users,
         gc' \in Collection
  PROVE  Inv'
<1> USE DEF history
<1>1. TypeOK'
  BY DEF Inv, TypeOK
<1>2. RowsAreStored' /\ NothingLeft' /\ StoredChunks' /\ GuestUploadOwner'
  BY DEF Inv, RowsAreStored, NothingLeft, StoredChunks, GuestUploadOwner
<1>3. \A s \in Requests : WriterState(s)' /\ ReaderState(s)'
  BY DEF Inv, WriterState, ReaderState
<1>4. OneWriter' /\ LinksAreIssued'
  BY DEF Inv, OneWriter, LinksAreIssued, Issued
<1> QED
  BY <1>1, <1>2, <1>3, <1>4 DEF Inv

\* The steps that only move the clock, the settings, the collector or trim the
\* download history.
LEMMA ClockSettingsAndHistory ==
  ASSUME Inv
  PROVE  /\ Tick => Inv'
         /\ \A new \in Settings : SettingsPut(new) => Inv'
         /\ Collect => Inv'
         /\ ReadRetention => Inv'
         /\ DeleteExpiredDownloadHistory => Inv'
         /\ PurgeFails => Inv'
<1> USE DEF fileTables, configTables
<1>0. /\ now \in 0..MaxTime /\ settings \in Settings /\ admins \subseteq Users
      /\ gc \in Collection
  BY DEF Inv, TypeOK
<1>1. ASSUME Tick PROVE Inv'
  <2>1. now' \in 0..MaxTime
    BY <1>0, <1>1, BoundsAssumption DEF Tick
  <2> QED
    BY <1>0, <1>1, <2>1, FilesAndRequestsUntouched DEF Tick
<1>2. ASSUME NEW new \in Settings, SettingsPut(new) PROVE Inv'
  <2>1. InForce(new.retention) \subseteq Retentions
    BY DEF Settings, InForce
  <2>2. gc' \in Collection
    BY <1>0, <1>2, <2>1 DEF SettingsPut, Collection
  <2> QED
    BY <1>0, <1>2, <2>2, FilesAndRequestsUntouched DEF SettingsPut
<1>3. ASSUME Collect PROVE Inv'
  <2>1. gc' \in Collection
    BY <1>0, <1>3, PurgesBegin DEF Collect, Settings
  <2> QED
    BY <1>0, <1>3, <2>1, FilesAndRequestsUntouched DEF Collect
<1>4. ASSUME ReadRetention PROVE Inv'
  <2>1. gc' \in Collection
    <3>1. CASE settings.retention = NULL
      BY <1>4, <3>1, PurgesEnd DEF ReadRetention
    <3>2. CASE settings.retention # NULL
      <4>1. settings.retention \in Nat
        BY <1>0, <3>2, InputsAssumption DEF Settings
      <4>2. now - settings.retention \in Int
        BY <1>0, <4>1
      <4> QED
        BY <1>0, <1>4, <3>2, <4>2 DEF ReadRetention, Collection, GCStep
    <3> QED
      BY <3>1, <3>2
  <2> QED
    BY <1>0, <1>4, <2>1, FilesAndRequestsUntouched DEF ReadRetention
<1>5. ASSUME DeleteExpiredDownloadHistory PROVE Inv'
  <2>1. gc' \in Collection /\ downloads' \subseteq downloads
    BY <1>5, PurgesEnd DEF DeleteExpiredDownloadHistory
  <2> QED
    BY <1>0, <1>5, <2>1, FilesAndRequestsUntouched
    DEF DeleteExpiredDownloadHistory
<1>6. ASSUME PurgeFails PROVE Inv'
  <2>1. gc' \in Collection
    BY <1>6, PurgesEnd DEF PurgeFails
  <2> QED
    BY <1>0, <1>6, <2>1, FilesAndRequestsUntouched DEF PurgeFails
<1> QED
  BY <1>1, <1>2, <1>3, <1>4, <1>5, <1>6

\* A promotion or a demotion notes at most, on the deletions in flight, that
\* their user has lost the role.
LEMMA RolesChange ==
  ASSUME TypeOK, NEW user \in Users, GrantAdmin(user) \/ RevokeAdmin(user)
  PROVE  /\ UNCHANGED <<now, fileTables, guestLinks, settings, gc, history>>
         /\ admins' \subseteq Users
         /\ req' \in [Requests -> Request]
         /\ \A r \in Requests :
              \/ /\ req'[r] = req[r]
                 /\ \/ req[r].op # "delete"
                    \/ req[r].user \in admins => req[r].user \in admins'
              \/ /\ req[r].op = "delete"
                 /\ req'[r] = [req[r] EXCEPT !.demoted = TRUE]
<1>1. CASE GrantAdmin(user)
  BY <1>1 DEF GrantAdmin, TypeOK
<1>2. CASE RevokeAdmin(user)
  <2>1. \A r \in Requests : req[r] \in Request
    BY DEF TypeOK
  <2>2. \A r \in Requests : LosesRole(req[r], user) \in Request
    BY <2>1 DEF LosesRole, Request
  <2>3. req' \in [Requests -> Request]
    BY <1>2, <2>2 DEF RevokeAdmin
  <2>4. \A r \in Requests : req'[r] = LosesRole(req[r], user)
    BY <1>2 DEF RevokeAdmin
  <2> QED
    BY <1>2, <2>3, <2>4 DEF RevokeAdmin, LosesRole, TypeOK
<1> QED
  BY <1>1, <1>2

\* That disturbs nothing.
LEMMA RolesKeepInv ==
  ASSUME Inv, NEW user \in Users, GrantAdmin(user) \/ RevokeAdmin(user)
  PROVE  Inv'
<1>1. /\ UNCHANGED <<now, entries, entriesData, downloads, guestLinks, settings,
                     gc, fate, sent, swept, retired>>
      /\ admins' \subseteq Users
      /\ req' \in [Requests -> Request]
      /\ \A r \in Requests :
           req'[r] = req[r] \/ (/\ req[r].op = "delete"
                                /\ req'[r] = [req[r] EXCEPT !.demoted = TRUE])
  BY RolesChange DEF Inv, fileTables, history
<1>2. TypeOK'
  BY <1>1 DEF Inv, TypeOK
<1>3. RowsAreStored' /\ NothingLeft' /\ StoredChunks' /\ GuestUploadOwner'
  BY <1>1 DEF Inv, RowsAreStored, NothingLeft, StoredChunks, GuestUploadOwner
<1>4. \A r \in Requests :
        req'[r] = req[r] \/ (/\ req[r].op = "delete" /\ req'[r].op = "delete"
                             /\ req'[r].id = req[r].id)
  BY <1>1 DEF Inv, TypeOK, Request
<1>5. \A s \in Requests : WriterState(s)' /\ ReaderState(s)'
  BY <1>1, <1>4 DEF Inv, WriterState, ReaderState
<1>6. OneWriter' /\ LinksAreIssued'
  BY <1>1, <1>4 DEF Inv, OneWriter, LinksAreIssued, Issued
<1> QED
  BY <1>2, <1>3, <1>5, <1>6 DEF Inv

\* deleteExpiredEntries takes row and chunks of the same entries.
LEMMA DeleteExpiredEntriesKeepsInv ==
  ASSUME Inv, DeleteExpiredEntries
  PROVE  Inv'
<1>1. \A e \in EntryIDs :
        \/ /\ entries[e] # NULL /\ entries'[e] = NULL
           /\ entriesData'[e] = {} /\ fate'[e] = "removed"
        \/ /\ entries'[e] = entries[e] /\ fate'[e] = fate[e]
           /\ entriesData'[e] = entriesData[e]
  BY DeleteExpiredEntries
  DEF DeleteExpiredEntries, ExpiredEntries, ExpiredChunks, Expired
<1>2. UNCHANGED <<now, configTables, req, sent, swept, retired>>
  BY DeleteExpiredEntries DEF DeleteExpiredEntries
<1> USE DEF configTables
<1>3. TypeOK'
  <2>1. /\ entries' \in [EntryIDs -> Row \cup {NULL}]
        /\ entriesData' \in [EntryIDs -> SUBSET (0..MaxChunks - 1)]
        /\ fate' \in [EntryIDs -> Fate]
        /\ downloads' \subseteq downloads
    BY DeleteExpiredEntries DEF DeleteExpiredEntries, Inv, TypeOK, Fate
  <2>2. gc' \in Collection
    BY DeleteExpiredEntries
    DEF DeleteExpiredEntries, Inv, TypeOK, Collection, GCStep
  <2> QED
    BY <1>2, <2>1, <2>2 DEF Inv, TypeOK
<1>4. RowsAreStored' /\ NothingLeft' /\ StoredChunks' /\ GuestUploadOwner'
  BY <1>1, <1>2 DEF Inv, RowsAreStored, NothingLeft, StoredChunks,
                    GuestUploadOwner
<1>5. ASSUME NEW s \in Requests PROVE WriterState(s)' /\ ReaderState(s)'
  <2>1. \A e \in EntryIDs : fate[e] = "writing" =>
          fate'[e] = "writing" /\ entriesData'[e] = entriesData[e]
    BY <1>1 DEF Inv, RowsAreStored
  <2>2. \A e \in EntryIDs : fate[e] \in {"stored", "removed"} =>
          fate'[e] \in {"stored", "removed"}
    BY <1>1
  <2> QED
    BY <1>2, <2>1, <2>2 DEF Inv, WriterState, ReaderState
<1>6. OneWriter' /\ LinksAreIssued'
  BY <1>1, <1>2 DEF Inv, OneWriter, LinksAreIssued, Issued
<1> QED
  BY <1>3, <1>4, <1>5, <1>6 DEF Inv

\* The sweep empties uploads in flight, and notes that it did.
LEMMA DeleteOrphanedRowsKeepsInv ==
  ASSUME Inv, DeleteOrphanedRows
  PROVE  Inv'
<1>1. \A e \in EntryIDs :
        \/ /\ entries[e] = NULL /\ entriesData'[e] = {}
           /\ fate[e] = "writing" => e \in swept'
        \/ entriesData'[e] = entriesData[e] /\ (e \in swept' <=> e \in swept)
  BY DeleteOrphanedRows DEF DeleteOrphanedRows, Orphans
<1>2. \A e \in EntryIDs :
        (e \in swept => e \in swept')
        /\ (fate[e] # "writing" => (e \in swept' <=> e \in swept))
  BY DeleteOrphanedRows DEF DeleteOrphanedRows
<1>3. UNCHANGED <<now, entries, downloads, configTables, req, fate, sent,
                  retired>>
  BY DeleteOrphanedRows DEF DeleteOrphanedRows
<1> USE DEF configTables
<1>4. TypeOK'
  <2>1. /\ entriesData' \in [EntryIDs -> SUBSET (0..MaxChunks - 1)]
        /\ swept' \subseteq EntryIDs
    BY DeleteOrphanedRows DEF DeleteOrphanedRows, Orphans, Inv, TypeOK
  <2>2. gc' \in Collection
    BY DeleteOrphanedRows
    DEF DeleteOrphanedRows, Inv, TypeOK, Collection, GCStep
  <2> QED
    BY <1>3, <2>1, <2>2 DEF Inv, TypeOK
<1>5. RowsAreStored' /\ GuestUploadOwner'
  BY <1>3 DEF Inv, RowsAreStored, GuestUploadOwner
<1>6. NothingLeft'
  BY <1>1, <1>2, <1>3 DEF Inv, NothingLeft
<1>7. StoredChunks'
  BY <1>1, <1>2, <1>3 DEF Inv, RowsAreStored, StoredChunks
<1>8. ASSUME NEW s \in Requests PROVE WriterState(s)' /\ ReaderState(s)'
  BY <1>1, <1>3 DEF Inv, WriterState, ReaderState
<1>9. OneWriter' /\ LinksAreIssued'
  BY <1>3 DEF Inv, OneWriter, LinksAreIssued, Issued
<1> QED
  BY <1>4, <1>5, <1>6, <1>7, <1>8, <1>9 DEF Inv

\* A crash turns uploads in flight into failed ones.
LEMMA RestartKeepsInv ==
  ASSUME Inv, Restart
  PROVE  Inv'
<1>1. \A e \in EntryIDs :
        fate'[e] = IF fate[e] = "writing" THEN "failed" ELSE fate[e]
  BY Restart DEF Restart
<1>2. Idle \in Request /\ \A s \in Requests : req'[s].op = "idle"
  BY Restart DEF Restart, Idle, Request, Op
<1>3. UNCHANGED <<now, fileTables, configTables, sent, swept, retired>>
  BY Restart DEF Restart
<1> USE DEF fileTables, configTables
<1>4. TypeOK'
  <2>1. /\ req' \in [Requests -> Request]
        /\ gc' \in Collection
    BY <1>2, Restart, PurgesBegin DEF Restart, Inv, TypeOK, Settings
  <2>2. fate' \in [EntryIDs -> Fate]
    BY Restart DEF Restart, Inv, TypeOK, Fate
  <2> QED
    BY <1>3, <2>1, <2>2 DEF Inv, TypeOK
<1>5. RowsAreStored' /\ NothingLeft' /\ StoredChunks' /\ GuestUploadOwner'
  BY <1>1, <1>3 DEF Inv, RowsAreStored, NothingLeft, StoredChunks,
                    GuestUploadOwner
<1>6. \A s \in Requests : WriterState(s)' /\ ReaderState(s)'
  BY <1>2 DEF WriterState, ReaderState
<1>7. OneWriter' /\ LinksAreIssued'
  BY <1>2, <1>3 DEF Inv, OneWriter, LinksAreIssued, Issued
<1> QED
  BY <1>4, <1>5, <1>6, <1>7 DEF Inv

-----------------------------------------------------------------------------
(***************************************************************************)
(* Invariance                                                              *)
(***************************************************************************)

\* A fresh database satisfies the invariant.
LEMMA InitInv == Init => Inv
BY SetsAssumption, BoundsAssumption
DEF Init, Inv, TypeOK, RowsAreStored, NothingLeft, StoredChunks, WriterState,
    OneWriter, ReaderState, LinksAreIssued, Issued, GuestUploadOwner,
    Settings, Request, Idle, Op, Fate, GCStep, Collection, BeginsPurge, InForce

\* Every step preserves the invariant, action by action.
LEMMA NextInv == Inv /\ [Next]_vars => Inv'
<1> SUFFICES ASSUME Inv, [Next]_vars PROVE Inv'
  OBVIOUS
<1>1. ASSUME NEW r \in Requests, UploadStep(r) PROVE Inv'
  BY <1>1, Admissions, BodyReceivedKeepsInv, WriteChunkKeepsInv,
     InsertRowKeepsInv, InsertFailsKeepsInv
  DEF UploadStep
<1>2. ASSUME NEW r \in Requests, DownloadStep(r) PROVE Inv'
  BY <1>2, Downloads DEF DownloadStep
<1>3. ASSUME NEW r \in Requests, ManagementStep(r) PROVE Inv'
  BY <1>3, ManagementAdmissions, DeleteEntryKeepsInv,
     UpdateEntryMetadataKeepsInv, DeleteGuestLinkKeepsInv,
     SetGuestLinkDisabledKeepsInv
  DEF ManagementStep
<1>4. ASSUME ConfigurationStep PROVE Inv'
  BY <1>4, GuestLinksPostKeepsInv, ClockSettingsAndHistory, RolesKeepInv
  DEF ConfigurationStep
<1>5. ASSUME PurgeStep PROVE Inv'
  BY <1>5, DeleteExpiredEntriesKeepsInv, DeleteOrphanedRowsKeepsInv,
     ClockSettingsAndHistory
  DEF PurgeStep
<1>6. ASSUME Collect \/ PurgeFails \/ Restart \/ Tick PROVE Inv'
  BY <1>6, RestartKeepsInv, ClockSettingsAndHistory
<1>7. CASE UNCHANGED vars
  <2>1. /\ now' \in 0..MaxTime /\ settings' \in Settings
        /\ admins' \subseteq Users /\ gc' \in Collection
    BY <1>7 DEF vars, Inv, TypeOK
  <2> QED
    BY <1>7, <2>1, FilesAndRequestsUntouched DEF vars, history
<1> QED
  BY <1>1, <1>2, <1>3, <1>4, <1>5, <1>6, <1>7 DEF Next

\* The inductive invariant, from which the theorems below follow.
LEMMA InvIsInvariant == Spec => []Inv
<1> QED
  BY InitInv, NextInv, PTL DEF Spec

\* The tables, the requests and the collector keep the types declared.
THEOREM TypeCorrect == Spec => []TypeOK
<1>1. Inv => TypeOK
  BY DEF Inv
<1> QED
  BY <1>1, InvIsInvariant, PTL

\* A stored file that was not swept during its upload has all its chunks:
\* flushes, failed insertions, crashes, deletions and purges never damage it.
THEOREM FilesIntact == Spec => []StoredFileIntact
<1>1. Inv => StoredFileIntact
  BY DEF Inv, StoredChunks, StoredFileIntact
<1> QED
  BY <1>1, InvIsInvariant, PTL

\* Chunks without a row belong to an upload in progress or to a failed one:
\* DeleteEntry and deleteExpiredEntries leave none behind.
THEOREM NoChunksStray == Spec => []NoStrayChunks
<1>1. Inv => NoStrayChunks
  BY DEF Inv, TypeOK, RowsAreStored, NothingLeft, NoStrayChunks, Fate
<1> QED
  BY <1>1, InvIsInvariant, PTL

\* A download that ServeContent completes has delivered every chunk of the
\* upload: populateBuffer fails on a missing chunk, and never skips one.
THEOREM DownloadsAreWhole == Spec => []NoSilentTruncation
<1>1. Inv => NoSilentTruncation
  BY DEF Inv, ReaderState, NoSilentTruncation
<1> QED
  BY <1>1, InvIsInvariant, PTL

\* InsertEntry's subquery and DeleteGuestLink keep every upload that names a
\* link with the owner of that link, or with nobody once the link has gone.
THEOREM GuestUploadsBelongToLinkOwner == Spec => []GuestUploadOwner
<1>1. Inv => GuestUploadOwner
  BY DEF Inv
<1> QED
  BY <1>1, InvIsInvariant, PTL

-----------------------------------------------------------------------------
(***************************************************************************)
(* What a step may never do                                                *)
(***************************************************************************)

\* The actions that change what is stored.
StorageStep ==
  \/ \E r \in Requests : \/ WriteChunk(r)
                         \/ InsertRow(r)
                         \/ DeleteEntry(r)
                         \/ UpdateEntryMetadata(r)
                         \/ DeleteGuestLink(r)
  \/ DeleteExpiredEntries
  \/ DeleteOrphanedRows

\* All other steps leave rows and chunks alone.
LEMMA OtherStepsStoreNothing ==
  ASSUME [Next]_vars
  PROVE  StorageStep \/ UNCHANGED <<entries, entriesData>>
<1> USE DEF StorageStep, fileTables
<1>1. ASSUME NEW r \in Requests, UploadStep(r)
      PROVE  StorageStep \/ UNCHANGED <<entries, entriesData>>
  BY <1>1 DEF UploadStep, EntryPost, GuestEntryPost, BodyRejected,
              BodyReceived, InsertFails
<1>2. ASSUME NEW r \in Requests, DownloadStep(r)
      PROVE  UNCHANGED <<entries, entriesData>>
  BY <1>2 DEF DownloadStep, EntryGet, OpenReader, OpenReaderFails, ReadChunk,
              ServeContentReturns, RecordDownload, RecordDownloadFails
<1>3. ASSUME NEW r \in Requests, ManagementStep(r)
      PROVE  StorageStep \/ UNCHANGED <<entries, entriesData>>
  BY <1>3 DEF ManagementStep, EntryDelete, EntryPut, GuestLinkChange,
              SetGuestLinkDisabled, ManagementFails
<1>4. ASSUME ConfigurationStep \/ Collect \/ PurgeFails \/ Restart \/ Tick
      PROVE  UNCHANGED <<entries, entriesData>>
  BY <1>4
  DEF ConfigurationStep, GuestLinksPost, SettingsPut, GrantAdmin, RevokeAdmin,
      Collect, PurgeFails, Restart, Tick
<1>5. ASSUME PurgeStep
      PROVE  StorageStep \/ UNCHANGED <<entries, entriesData>>
  BY <1>5 DEF PurgeStep, ReadRetention, DeleteExpiredDownloadHistory
<1>6. CASE UNCHANGED vars
  BY <1>6 DEF vars
<1> QED
  BY <1>1, <1>2, <1>3, <1>4, <1>5, <1>6 DEF Next

\* What each of them does to a row that exists.
LEMMA RowsSurvive ==
  ASSUME Inv, [Next]_vars, NEW e \in EntryIDs, entries[e] # NULL
  PROVE  \/ /\ entries'[e] # NULL
            /\ entriesData'[e] = entriesData[e]
            /\ entries'[e].owner = entries[e].owner
         \/ (entries'[e] = NULL /\ DeleteExpiredEntries /\ Expired(e))
         \/ /\ entries'[e] = NULL
            /\ \E r \in Requests : DeleteEntry(r) /\ req[r].id = e
<1> DEFINE Kept == /\ entries'[e] # NULL
                   /\ entriesData'[e] = entriesData[e]
                   /\ entries'[e].owner = entries[e].owner
<1>0. fate[e] = "stored" /\ entries[e] \in Row
  BY DEF Inv, TypeOK, RowsAreStored
<1>1. ASSUME NEW r \in Requests, WriteChunk(r) PROVE Kept
  <2>1. req[r].id # e
    BY <1>0, <1>1 DEF WriteChunk, Inv, WriterState
  <2> QED
    BY <1>1, <2>1 DEF WriteChunk, Inv, TypeOK
<1>2. ASSUME NEW r \in Requests, InsertRow(r) PROVE Kept
  <2>1. req[r].id # e
    BY <1>0, <1>2 DEF InsertRow, Inv, WriterState
  <2> QED
    BY <1>2, <2>1 DEF InsertRow, Inv, TypeOK
<1>3. ASSUME NEW r \in Requests, DeleteEntry(r)
      PROVE  Kept \/ (entries'[e] = NULL /\ req[r].id = e)
  BY <1>3 DEF DeleteEntry, ChunksAfterDelete, Inv, TypeOK
<1>4. ASSUME NEW r \in Requests, UpdateEntryMetadata(r) PROVE Kept
  <2>1. entriesData' = entriesData
    BY <1>4 DEF UpdateEntryMetadata
  <2>2. CASE req[r].id # e
    BY <1>4, <2>1, <2>2 DEF UpdateEntryMetadata, Inv, TypeOK
  <2>3. CASE req[r].id = e
    <3>1. entries'[e] = [entries[e] EXCEPT !.expires = req[r].expires]
      BY <1>4, <2>3 DEF UpdateEntryMetadata, RowAfterUpdate, Inv, TypeOK
    <3>2. req[r].expires \in Nat
      BY DEF Inv, TypeOK, Request
    <3>3. entries'[e] \in Row /\ entries'[e].owner = entries[e].owner
      BY <1>0, <3>1, <3>2 DEF Row
    <3> QED
      BY <2>1, <3>3, RowsAssumption
  <2> QED
    BY <2>2, <2>3
<1>5. ASSUME NEW r \in Requests, DeleteGuestLink(r) PROVE Kept
  <2>1. /\ entriesData' = entriesData
        /\ entries'[e] = Unlinked(entries[e], req[r].link)
    BY <1>5 DEF DeleteGuestLink
  <2>2. Unlinked(entries[e], req[r].link) \in Row
        /\ Unlinked(entries[e], req[r].link).owner = entries[e].owner
    BY <1>0 DEF Unlinked, Row
  <2> QED
    BY <2>1, <2>2, RowsAssumption
<1>6. ASSUME DeleteExpiredEntries
      PROVE  Kept \/ (entries'[e] = NULL /\ Expired(e))
  BY <1>6 DEF DeleteExpiredEntries, ExpiredEntries, ExpiredChunks
<1>7. ASSUME DeleteOrphanedRows PROVE Kept
  BY <1>7 DEF DeleteOrphanedRows, Orphans
<1>8. ASSUME UNCHANGED <<entries, entriesData>> PROVE Kept
  BY <1>8
<1> QED
  BY <1>1, <1>2, <1>3, <1>4, <1>5, <1>6, <1>7, <1>8, OtherStepsStoreNothing
  DEF StorageStep

\* No step brings a row back.
LEMMA RowsStayAway ==
  ASSUME Inv, [Next]_vars, NEW e \in EntryIDs, entries[e] = NULL,
         fate[e] # "writing"
  PROVE  entries'[e] = NULL
<1>1. ASSUME NEW r \in Requests, WriteChunk(r) PROVE entries'[e] = NULL
  BY <1>1 DEF WriteChunk
<1>2. ASSUME NEW r \in Requests, InsertRow(r) PROVE entries'[e] = NULL
  <2>1. req[r].id # e
    BY <1>2 DEF InsertRow, Inv, WriterState
  <2> QED
    BY <1>2, <2>1 DEF InsertRow, Inv, TypeOK
<1>3. ASSUME NEW r \in Requests, DeleteEntry(r) PROVE entries'[e] = NULL
  BY <1>3 DEF DeleteEntry, Inv, TypeOK
<1>4. ASSUME NEW r \in Requests, UpdateEntryMetadata(r)
      PROVE  entries'[e] = NULL
  BY <1>4 DEF UpdateEntryMetadata, RowAfterUpdate, Inv, TypeOK
<1>5. ASSUME NEW r \in Requests, DeleteGuestLink(r) PROVE entries'[e] = NULL
  BY <1>5 DEF DeleteGuestLink, Unlinked
<1>6. ASSUME DeleteExpiredEntries PROVE entries'[e] = NULL
  BY <1>6 DEF DeleteExpiredEntries
<1>7. ASSUME DeleteOrphanedRows PROVE entries'[e] = NULL
  BY <1>7 DEF DeleteOrphanedRows
<1> QED
  BY <1>1, <1>2, <1>3, <1>4, <1>5, <1>6, <1>7, OtherStepsStoreNothing
  DEF StorageStep

\* No step changes chunks or owner of an entry that stays: not the purge, not
\* an edit, not the deletion of the guest link it came through.
THEOREM StoredFilesStayAsTheyAre == Spec => StoredFileStable
<1>1. Inv /\ [Next]_vars =>
        [\A e \in EntryIDs :
           entries[e] # NULL /\ entries'[e] # NULL =>
             /\ entriesData'[e] = entriesData[e]
             /\ entries'[e].owner = entries[e].owner]_vars
  BY RowsSurvive
<1> QED
  BY <1>1, InvIsInvariant, PTL DEF Spec, StoredFileStable

\* UpdateEntryMetadata after a deletion, and InsertEntry after a failure, bring
\* no entry back.
THEOREM DeletedFilesStayDeleted == Spec => NoResurrection
<1>1. Inv /\ [Next]_vars =>
        [\A e \in EntryIDs :
           fate[e] \in {"failed", "removed"} => entries'[e] = NULL]_vars
  <2> SUFFICES ASSUME Inv, [Next]_vars, NEW e \in EntryIDs,
                      fate[e] \in {"failed", "removed"}
               PROVE  entries'[e] = NULL
    OBVIOUS
  <2>1. entries[e] = NULL /\ fate[e] # "writing"
    BY DEF Inv, RowsAreStored
  <2> QED
    BY <2>1, RowsStayAway
<1> QED
  BY <1>1, InvIsInvariant, PTL DEF Spec, NoResurrection

\* A request to delete an entry that is still there comes from its owner, who
\* has not changed since entryDelete checked, from an administrator, or from
\* one who was an administrator when loadSession looked.
DeletersMayDelete ==
  \A r \in Requests :
    req[r].op = "delete" /\ entries[req[r].id] # NULL =>
      \/ req[r].user = entries[req[r].id].owner
      \/ req[r].user \in admins
      \/ req[r].demoted

\* A request that is about to delete was so before and its user keeps his role
\* or is noted as demoted, or it has just been checked.
LEMMA DeletersWereChecked ==
  ASSUME Inv, [Next]_vars, NEW r \in Requests, req'[r].op = "delete"
  PROVE  \/ /\ req'[r] = req[r]
            /\ req[r].user \in admins => req[r].user \in admins'
         \/ /\ req[r].op = "delete"
            /\ req'[r] = [req[r] EXCEPT !.demoted = TRUE]
         \/ /\ UNCHANGED <<entries, admins>>
            /\ req'[r].id \in EntryIDs
            /\ CanManageEntry(req'[r].user, req'[r].id)
<1> DEFINE Goal == \/ req'[r] = req[r] /\ admins' = admins
                   \/ /\ UNCHANGED <<entries, admins>>
                      /\ req'[r].id \in EntryIDs
                      /\ CanManageEntry(req'[r].user, req'[r].id)
<1> USE DEF configTables
<1>1. ASSUME NEW s \in Requests, UploadStep(s) PROVE Goal
  <2>1. req'[s].op \in {"idle", "body", "chunks"}
    <3>1. req[s] \in Request /\ req \in [Requests -> Request]
      BY DEF Inv, TypeOK
    <3>2. CASE \/ \E user \in Users, x \in ParsedExpirations :
                    EntryPost(s, user, x)
               \/ \E l \in GuestLinkIDs : \E x \in GuestExpirations(l) :
                    GuestEntryPost(s, l, x)
      BY <3>1, <3>2 DEF EntryPost, GuestEntryPost, Idle
    <3>3. CASE BodyRejected(s) \/ InsertRow(s) \/ InsertFails(s)
      BY <3>1, <3>3 DEF BodyRejected, InsertRow, InsertFails, Answer, Idle
    <3>4. CASE \E e \in EntryIDs, chunks \in 1..MaxChunks :
                 BodyReceived(s, e, chunks)
      BY <3>1, <3>4 DEF BodyReceived, Request
    <3>5. CASE WriteChunk(s)
      BY <3>1, <3>5 DEF WriteChunk, Request
    <3> QED
      BY <1>1, <3>2, <3>3, <3>4, <3>5 DEF UploadStep
  <2>2. s # r
    BY <2>1
  <2> QED
    BY <1>1, <2>2
    DEF UploadStep, EntryPost, GuestEntryPost, BodyRejected, Answer,
        BodyReceived, WriteChunk, InsertRow, InsertFails, Inv, TypeOK
<1>2. ASSUME NEW s \in Requests, DownloadStep(s) PROVE Goal
  <2>1. req'[s].op \in {"idle", "open", "serve", "record"}
    <3>1. req[s] \in Request /\ req \in [Requests -> Request]
      BY DEF Inv, TypeOK
    <3>2. CASE \E e \in EntryIDs : EntryGet(s, e)
      BY <3>1, <3>2 DEF EntryGet, Idle
    <3>3. CASE OpenReader(s)
      BY <3>1, <3>3 DEF OpenReader, Request
    <3>4. CASE OpenReaderFails(s) \/ ServeContentReturns(s)
      BY <3>1, <3>4 DEF OpenReaderFails, ServeContentReturns, GoesToRecord,
                        Idle
    <3>5. CASE ReadChunk(s)
      BY <3>1, <3>5 DEF ReadChunk, Request
    <3>6. CASE RecordDownload(s) \/ RecordDownloadFails(s)
      BY <3>1, <3>6 DEF RecordDownload, RecordDownloadFails, Answer, Idle
    <3> QED
      BY <1>2, <3>2, <3>3, <3>4, <3>5, <3>6 DEF DownloadStep
  <2>2. s # r
    BY <2>1
  <2> QED
    BY <1>2, <2>2
    DEF DownloadStep, EntryGet, OpenReader, OpenReaderFails, ReadChunk,
        ServeContentReturns, RecordDownload, RecordDownloadFails, Answer, Inv,
        TypeOK
<1>3. ASSUME NEW s \in Requests, ManagementStep(s) PROVE Goal
  <2>0. req \in [Requests -> Request]
    BY DEF Inv, TypeOK
  <2>1. CASE s # r
    BY <1>3, <2>0, <2>1
    DEF ManagementStep, EntryDelete, EntryPut, GuestLinkChange, DeleteEntry,
        UpdateEntryMetadata, DeleteGuestLink, SetGuestLinkDisabled,
        ManagementFails, Answer
  <2>2. CASE s = r /\ \E user \in Users, e \in EntryIDs :
                        EntryDelete(s, user, e)
    <3>1. PICK user \in Users, e \in EntryIDs : EntryDelete(r, user, e)
      BY <2>2
    <3>2. req'[r].user = user /\ req'[r].id = e
      BY <2>0, <3>1 DEF EntryDelete, Idle
    <3> QED
      BY <3>1, <3>2 DEF EntryDelete, MayDelete, fileTables
  <2>3. CASE s = r /\ \/ \E user \in Users, e \in EntryIDs :
                           \E x \in ParsedExpirations : EntryPut(s, user, e, x)
                      \/ \E user \in Users, l \in GuestLinkIDs :
                           \E op \in {"unlink", "enable", "disable"} :
                             GuestLinkChange(s, user, l, op)
    <3>1. req'[r].op # "delete"
      BY <2>0, <2>3 DEF EntryPut, GuestLinkChange, Idle
    <3> QED
      BY <3>1
  <2>4. CASE s = r /\ \/ DeleteEntry(s) \/ UpdateEntryMetadata(s)
                      \/ DeleteGuestLink(s) \/ SetGuestLinkDisabled(s)
                      \/ ManagementFails(s)
    <3>1. req'[r].op # "delete"
      BY <2>0, <2>4
      DEF DeleteEntry, UpdateEntryMetadata, DeleteGuestLink,
          SetGuestLinkDisabled, ManagementFails, Answer, Idle
    <3> QED
      BY <3>1
  <2> QED
    BY <1>3, <2>1, <2>2, <2>3, <2>4 DEF ManagementStep
<1>4. ASSUME PurgeStep \/ Collect \/ PurgeFails \/ Tick \/ UNCHANGED vars
      PROVE  Goal
  BY <1>4
  DEF PurgeStep, DeleteExpiredEntries, DeleteOrphanedRows, ReadRetention,
      DeleteExpiredDownloadHistory, Collect, PurgeFails, Tick, vars
<1>5. ASSUME ConfigurationStep, \A user \in Users : ~(GrantAdmin(user) \/
                                                     RevokeAdmin(user))
      PROVE  Goal
  BY <1>5 DEF ConfigurationStep, GuestLinksPost, SettingsPut
<1>6. ASSUME NEW user \in Users, GrantAdmin(user) \/ RevokeAdmin(user)
      PROVE  \/ /\ req'[r] = req[r]
                /\ req[r].user \in admins => req[r].user \in admins'
             \/ /\ req[r].op = "delete"
                /\ req'[r] = [req[r] EXCEPT !.demoted = TRUE]
  BY <1>6, RolesChange DEF Inv
<1>7. ~Restart
  BY DEF Restart, Idle
<1> QED
  BY <1>1, <1>2, <1>3, <1>4, <1>5, <1>6, <1>7 DEF Next

\* What entryDelete checked still holds, or is noted, when DeleteEntry runs.
LEMMA DeletersInvariant == Spec => []DeletersMayDelete
<1>1. Init => DeletersMayDelete
  BY DEF Init, Idle, DeletersMayDelete
<1>2. Inv /\ DeletersMayDelete /\ [Next]_vars => DeletersMayDelete'
  <2> SUFFICES ASSUME Inv, DeletersMayDelete, [Next]_vars,
                      NEW r \in Requests, req'[r].op = "delete",
                      entries'[req'[r].id] # NULL
               PROVE  \/ req'[r].user = entries'[req'[r].id].owner
                      \/ req'[r].user \in admins'
                      \/ req'[r].demoted
    BY DEF DeletersMayDelete
  <2> DEFINE e == req'[r].id
  <2>1. CASE /\ req'[r] = req[r]
             /\ req[r].user \in admins => req[r].user \in admins'
    <3>1. e \in EntryIDs /\ fate[e] # "writing"
      BY <2>1 DEF Inv, ReaderState
    <3>2. entries[e] # NULL
      BY <3>1, RowsStayAway
    <3>3. entries'[e].owner = entries[e].owner
      BY <3>1, <3>2, RowsSurvive
    <3> QED
      BY <2>1, <3>2, <3>3 DEF DeletersMayDelete
  <2>2. CASE req'[r] = [req[r] EXCEPT !.demoted = TRUE]
    <3>1. req[r] \in Request
      BY DEF Inv, TypeOK
    <3> QED
      BY <2>2, <3>1 DEF Request
  <2>3. CASE UNCHANGED <<entries, admins>> /\ CanManageEntry(req'[r].user, e)
    BY <2>3 DEF CanManageEntry
  <2> QED
    BY <2>1, <2>2, <2>3, DeletersWereChecked
<1> QED
  BY <1>1, <1>2, InvIsInvariant, PTL DEF Spec

\* An entry whose time is not over is removed only by DeleteEntry, for its
\* owner, for an administrator, or for one who has been demoted since this
\* very request loaded its session.
THEOREM OnlyManagersDeleteEarly == Spec => OnlyExpiryOrManagerRemoves
<1>1. Inv /\ DeletersMayDelete /\ [Next]_vars =>
        [\A e \in EntryIDs :
           entries[e] # NULL /\ entries'[e] = NULL =>
             \/ entries[e].expires < now
             \/ \E r \in Requests :
                  /\ req[r].op = "delete"
                  /\ req[r].id = e
                  /\ \/ req[r].user = entries[e].owner
                     \/ req[r].user \in admins
                     \/ req[r].demoted]_vars
  <2> SUFFICES ASSUME Inv, DeletersMayDelete, [Next]_vars,
                      NEW e \in EntryIDs, entries[e] # NULL, entries'[e] = NULL
               PROVE  \/ entries[e].expires < now
                      \/ \E r \in Requests :
                           /\ req[r].op = "delete"
                           /\ req[r].id = e
                           /\ \/ req[r].user = entries[e].owner
                              \/ req[r].user \in admins
                              \/ req[r].demoted
    OBVIOUS
  <2> QED
    BY RowsSurvive DEF Expired, DeleteEntry, DeletersMayDelete
<1> QED
  BY <1>1, InvIsInvariant, DeletersInvariant, PTL
  DEF Spec, OnlyExpiryOrManagerRemoves

\* The cutoff that a purge holds is one that a retention in force since the
\* collection began gives: it was when it was read, and the clock only goes on.
CutoffWasInForce ==
  gc.step = "trim" => \E p \in gc.periods : gc.cutoff <= now - p

\* The collection knows the retention that is in force while it lasts.
KnowsRetention ==
  gc.step # "idle" /\ settings.retention # NULL =>
    settings.retention \in gc.periods

\* What each step does to the collection in progress.
LEMMA CollectionRemembers ==
  ASSUME Inv, [Next]_vars
  PROVE  \/ /\ gc'.step = gc.step /\ gc'.cutoff = gc.cutoff
            /\ gc.periods \subseteq gc'.periods /\ now <= now'
            /\ \/ settings' = settings \/ gc.step = "idle"
               \/ InForce(settings'.retention) \subseteq gc'.periods
         \/ gc' = BeginsPurge(settings.retention) /\ settings' = settings
         \/ /\ gc'.step \in {"orphans", "history"} /\ gc.step # "idle"
            /\ gc'.periods = gc.periods /\ settings' = settings
         \/ ReadRetention
         \/ gc' = IdleGC
<1>0. gc \in Collection /\ now \in Nat
  BY DEF Inv, TypeOK
<1> DEFINE Stays == UNCHANGED <<now, settings, gc>>
<1> USE DEF configTables
<1>1. ASSUME NEW r \in Requests, UploadStep(r) PROVE Stays
  BY <1>1
  DEF UploadStep, EntryPost, GuestEntryPost, BodyRejected, BodyReceived,
      WriteChunk, InsertRow, InsertFails
<1>2. ASSUME NEW r \in Requests, DownloadStep(r) PROVE Stays
  BY <1>2
  DEF DownloadStep, EntryGet, OpenReader, OpenReaderFails, ReadChunk,
      ServeContentReturns, RecordDownload, RecordDownloadFails
<1>3. ASSUME NEW r \in Requests, ManagementStep(r) PROVE Stays
  BY <1>3
  DEF ManagementStep, EntryDelete, EntryPut, GuestLinkChange, DeleteEntry,
      UpdateEntryMetadata, DeleteGuestLink, SetGuestLinkDisabled,
      ManagementFails
<1>4. ASSUME NEW new \in Settings, SettingsPut(new)
      PROVE  /\ gc'.step = gc.step /\ gc'.cutoff = gc.cutoff
             /\ gc.periods \subseteq gc'.periods /\ now <= now'
             /\ \/ gc.step = "idle"
                \/ InForce(settings'.retention) \subseteq gc'.periods
  BY <1>0, <1>4 DEF SettingsPut, Collection
<1>5. ASSUME ConfigurationStep, \A new \in Settings : ~SettingsPut(new)
      PROVE  Stays
  BY <1>5 DEF ConfigurationStep, GuestLinksPost, GrantAdmin, RevokeAdmin
<1>6. ASSUME Tick PROVE UNCHANGED <<settings, gc>> /\ now <= now'
  BY <1>0, <1>6 DEF Tick
<1>7. ASSUME DeleteExpiredEntries \/ DeleteOrphanedRows
      PROVE  /\ gc'.step \in {"orphans", "history"} /\ gc.step # "idle"
             /\ gc'.periods = gc.periods /\ settings' = settings
  BY <1>0, <1>7 DEF DeleteExpiredEntries, DeleteOrphanedRows, Collection
<1>8. ASSUME Collect \/ Restart
      PROVE  gc' = BeginsPurge(settings.retention) /\ settings' = settings
  BY <1>8 DEF Collect, Restart
<1>9. ASSUME DeleteExpiredDownloadHistory \/ PurgeFails PROVE gc' = IdleGC
  BY <1>9 DEF DeleteExpiredDownloadHistory, PurgeFails
<1>10. CASE UNCHANGED vars
  BY <1>0, <1>10 DEF vars
<1>11. ASSUME Stays
       PROVE  /\ gc'.step = gc.step /\ gc'.cutoff = gc.cutoff
              /\ gc.periods \subseteq gc'.periods /\ now <= now'
              /\ settings' = settings
  BY <1>0, <1>11
<1> QED
  BY <1>1, <1>2, <1>3, <1>4, <1>5, <1>6, <1>7, <1>8, <1>9, <1>10, <1>11
  DEF Next, PurgeStep

\* Both hold throughout, whatever happens to the settings meanwhile.
LEMMA CutoffsWereInForce == Spec => [](CutoffWasInForce /\ KnowsRetention)
<1> DEFINE Both == CutoffWasInForce /\ KnowsRetention
<1>1. Init => Both
  BY DEF Init, BeginsPurge, CutoffWasInForce, KnowsRetention
<1>2. Inv /\ Inv' /\ Both /\ [Next]_vars => Both'
  <2> SUFFICES ASSUME Inv, Inv', Both, [Next]_vars PROVE Both'
    OBVIOUS
  <2>0. /\ gc \in Collection /\ gc' \in Collection
        /\ now \in Nat /\ now' \in Nat
        /\ settings \in Settings /\ settings' \in Settings
        /\ Retentions \subseteq Nat
    BY InputsAssumption DEF Inv, TypeOK
  <2>1. CASE /\ gc'.step = gc.step /\ gc'.cutoff = gc.cutoff
             /\ gc.periods \subseteq gc'.periods /\ now <= now'
             /\ \/ settings' = settings \/ gc.step = "idle"
                \/ InForce(settings'.retention) \subseteq gc'.periods
    <3>1. KnowsRetention'
      BY <2>1 DEF KnowsRetention, InForce
    <3>2. CutoffWasInForce'
      <4> SUFFICES ASSUME gc.step = "trim"
                   PROVE  \E p \in gc'.periods : gc'.cutoff <= now' - p
        BY <2>1 DEF CutoffWasInForce
      <4>1. PICK p \in gc.periods : gc.cutoff <= now - p
        BY DEF CutoffWasInForce
      <4>2. p \in Nat /\ gc.cutoff \in Int
        BY <2>0 DEF Collection
      <4>3. gc'.cutoff <= now' - p
        BY <2>0, <2>1, <4>1, <4>2
      <4> QED
        BY <2>1, <4>3
    <3> QED
      BY <3>1, <3>2
  <2>2. CASE gc' = BeginsPurge(settings.retention) /\ settings' = settings
    BY <2>2 DEF BeginsPurge, InForce, CutoffWasInForce, KnowsRetention
  <2>3. CASE /\ gc'.step \in {"orphans", "history"} /\ gc.step # "idle"
             /\ gc'.periods = gc.periods /\ settings' = settings
    BY <2>3 DEF CutoffWasInForce, KnowsRetention
  <2>4. CASE ReadRetention
    <3>1. CASE settings.retention = NULL
      BY <2>4, <3>1 DEF ReadRetention, IdleGC, CutoffWasInForce, KnowsRetention
    <3>2. CASE settings.retention # NULL
      <4>1. /\ gc'.step = "trim" /\ gc'.periods = gc.periods
            /\ gc'.cutoff = now - settings.retention
            /\ now' = now /\ settings' = settings
        BY <2>0, <2>4, <3>2 DEF ReadRetention, Collection, configTables
      <4>2. settings.retention \in gc.periods /\ settings.retention \in Nat
        BY <2>0, <2>4, <3>2 DEF KnowsRetention, ReadRetention, Settings
      <4> QED
        BY <2>0, <4>1, <4>2 DEF CutoffWasInForce, KnowsRetention
    <3> QED
      BY <3>1, <3>2
  <2>5. CASE gc' = IdleGC
    BY <2>5 DEF IdleGC, CutoffWasInForce, KnowsRetention
  <2> QED
    BY <2>1, <2>2, <2>3, <2>4, <2>5, CollectionRemembers
<1> QED
  BY <1>1, <1>2, InvIsInvariant, PTL DEF Spec

\* Records of an entry that stays are deleted by deleteExpiredDownloadHistory
\* only, and only those that a retention in force since its collection began
\* gives up, although the setting may have changed since it was read.
THEOREM DownloadHistoryIsKept == Spec => HistoryKept
<1>1. Inv /\ CutoffWasInForce /\ [Next]_vars =>
        [\A d \in downloads \ downloads' :
           \/ entries'[d.entry] = NULL
           \/ \E p \in gc.periods : d.time < now - p]_vars
  <2> SUFFICES ASSUME Inv, CutoffWasInForce, [Next]_vars,
                      NEW d \in downloads, d \notin downloads'
               PROVE  \/ entries'[d.entry] = NULL
                      \/ \E p \in gc.periods : d.time < now - p
    OBVIOUS
  <2>0. d.entry \in EntryIDs /\ d.time \in Nat
    BY DEF Inv, TypeOK
  <2>1. ASSUME NEW r \in Requests, DeleteEntry(r) PROVE entries'[d.entry] = NULL
    BY <2>0, <2>1 DEF DeleteEntry, Inv, TypeOK
  <2>2. ASSUME DeleteExpiredEntries PROVE entries'[d.entry] = NULL
    BY <2>0, <2>2 DEF DeleteExpiredEntries
  <2>3. ASSUME DeleteExpiredDownloadHistory
        PROVE  \E p \in gc.periods : d.time < now - p
    <3>1. d.time < gc.cutoff
      BY <2>3 DEF DeleteExpiredDownloadHistory, TooOld
    <3>2. PICK p \in gc.periods : gc.cutoff <= now - p
      BY <2>3 DEF DeleteExpiredDownloadHistory, CutoffWasInForce
    <3>3. p \in Nat /\ now \in Nat /\ gc.cutoff \in Int
      BY InputsAssumption DEF Inv, TypeOK, Collection
    <3>4. d.time < now - p
      BY <2>0, <3>1, <3>2, <3>3
    <3> QED
      BY <3>4
  <2>4. ASSUME NEW r \in Requests, UploadStep(r) PROVE FALSE
    BY <2>4
    DEF UploadStep, EntryPost, GuestEntryPost, BodyRejected, BodyReceived,
        WriteChunk, InsertRow, InsertFails, fileTables
  <2>5. ASSUME NEW r \in Requests, DownloadStep(r) PROVE FALSE
    BY <2>5
    DEF DownloadStep, EntryGet, OpenReader, OpenReaderFails, ReadChunk,
        ServeContentReturns, RecordDownload, RecordDownloadFails, fileTables
  <2>6. ASSUME NEW r \in Requests, ManagementStep(r)
        PROVE  \E s \in Requests : DeleteEntry(s)
    BY <2>6
    DEF ManagementStep, EntryDelete, EntryPut, GuestLinkChange,
        UpdateEntryMetadata, DeleteGuestLink, SetGuestLinkDisabled,
        ManagementFails, fileTables
  <2>7. ASSUME PurgeStep
        PROVE  DeleteExpiredEntries \/ DeleteExpiredDownloadHistory
    BY <2>7 DEF PurgeStep, DeleteOrphanedRows, ReadRetention, fileTables
  <2>8. ASSUME \/ ConfigurationStep \/ Collect \/ PurgeFails \/ Restart \/ Tick
               \/ UNCHANGED vars
        PROVE  FALSE
    BY <2>8
    DEF ConfigurationStep, GuestLinksPost, SettingsPut, GrantAdmin,
        RevokeAdmin, Collect, PurgeFails, Restart, Tick, vars, fileTables
  <2> QED
    BY <2>1, <2>2, <2>3, <2>4, <2>5, <2>6, <2>7, <2>8 DEF Next
<1> QED
  BY <1>1, InvIsInvariant, CutoffsWereInForce, PTL DEF Spec, HistoryKept

-----------------------------------------------------------------------------
(***************************************************************************)
(* Every entry is a PlainFile.  A step of EntryStore changes the file that *)
(* PlainFile sees, or the response of one request, or stops them all, or   *)
(* is not seen at all.                                                     *)
(***************************************************************************)

\* An upload that has drawn its id has something to store.
SomethingSent ==
  \A e \in EntryIDs : fate[e] # "unused" => sent[e] > 0

\* A file that was stored keeps its length, and it is decided whether a sweep
\* met it.
LEMMA LengthIsSettled ==
  ASSUME Inv, [Next]_vars, NEW e \in EntryIDs,
         fate[e] \in {"stored", "removed"}
  PROVE  sent'[e] = sent[e] /\ (e \in swept' <=> e \in swept)
<1>1. ASSUME NEW r \in Requests, UploadStep(r)
      PROVE  sent'[e] = sent[e] /\ swept' = swept
  <2>1. CASE \E f \in EntryIDs, chunks \in 1..MaxChunks :
               BodyReceived(r, f, chunks)
    BY <2>1 DEF BodyReceived, Inv, TypeOK
  <2> QED
    BY <1>1, <2>1
    DEF UploadStep, EntryPost, GuestEntryPost, BodyRejected, WriteChunk,
        InsertRow, InsertFails, history
<1>2. ASSUME NEW r \in Requests, DownloadStep(r)
      PROVE  UNCHANGED <<sent, swept>>
  BY <1>2
  DEF DownloadStep, EntryGet, OpenReader, OpenReaderFails, ReadChunk,
      ServeContentReturns, RecordDownload, RecordDownloadFails, history
<1>3. ASSUME NEW r \in Requests, ManagementStep(r)
      PROVE  UNCHANGED <<sent, swept>>
  BY <1>3
  DEF ManagementStep, EntryDelete, EntryPut, GuestLinkChange, DeleteEntry,
      UpdateEntryMetadata, DeleteGuestLink, SetGuestLinkDisabled,
      ManagementFails, history
<1>4. ASSUME \/ ConfigurationStep \/ Collect \/ PurgeFails \/ Restart \/ Tick
             \/ UNCHANGED vars
      PROVE  UNCHANGED <<sent, swept>>
  BY <1>4
  DEF ConfigurationStep, GuestLinksPost, SettingsPut, GrantAdmin, RevokeAdmin,
      Collect, PurgeFails, Restart, Tick, vars, history
<1>5. ASSUME PurgeStep
      PROVE  sent' = sent /\ (e \in swept' <=> e \in swept)
  BY <1>5
  DEF PurgeStep, DeleteExpiredEntries, DeleteOrphanedRows, ReadRetention,
      DeleteExpiredDownloadHistory, history
<1> QED
  BY <1>1, <1>2, <1>3, <1>4, <1>5 DEF Next

\* Only BodyReceived draws an id.
LEMMA UploadsAreNotEmpty == Spec => []SomethingSent
<1>1. Init => SomethingSent
  BY DEF Init, SomethingSent
<1>2. Inv /\ SomethingSent /\ [Next]_vars => SomethingSent'
  <2> SUFFICES ASSUME Inv, SomethingSent, [Next]_vars, NEW e \in EntryIDs,
                      fate'[e] # "unused"
               PROVE  sent'[e] > 0
    BY DEF SomethingSent
  <2>1. ASSUME NEW r \in Requests, UploadStep(r) PROVE sent'[e] > 0
    <3>1. CASE \E f \in EntryIDs, chunks \in 1..MaxChunks :
                 BodyReceived(r, f, chunks)
      BY <3>1 DEF BodyReceived, Inv, TypeOK, SomethingSent
    <3>2. CASE InsertRow(r) \/ InsertFails(r)
      <4>1. req[r].id \in EntryIDs /\ fate[req[r].id] = "writing"
        BY <3>2 DEF InsertRow, InsertFails, Inv, WriterState
      <4>2. fate[e] # "unused"
        BY <3>2, <4>1 DEF InsertRow, InsertFails, Inv, TypeOK
      <4> QED
        BY <3>2, <4>2 DEF InsertRow, InsertFails, SomethingSent
    <3> QED
      BY <2>1, <3>1, <3>2
      DEF UploadStep, EntryPost, GuestEntryPost, BodyRejected, WriteChunk,
          history, SomethingSent
  <2>2. ASSUME NEW r \in Requests, DownloadStep(r)
        PROVE  UNCHANGED <<sent, fate>>
    BY <2>2
    DEF DownloadStep, EntryGet, OpenReader, OpenReaderFails, ReadChunk,
        ServeContentReturns, RecordDownload, RecordDownloadFails, history
  <2>3. ASSUME NEW r \in Requests, ManagementStep(r) PROVE sent'[e] > 0
    <3>1. CASE DeleteEntry(r)
      <4>1. req[r].id \in EntryIDs
        BY <3>1 DEF DeleteEntry, Inv, ReaderState
      <4>2. fate[e] # "unused"
        BY <3>1, <4>1 DEF DeleteEntry, RemovedFate, Inv, TypeOK
      <4> QED
        BY <3>1, <4>2 DEF DeleteEntry, SomethingSent
    <3> QED
      BY <2>3, <3>1
      DEF ManagementStep, EntryDelete, EntryPut, GuestLinkChange,
          UpdateEntryMetadata, DeleteGuestLink, SetGuestLinkDisabled,
          ManagementFails, history, SomethingSent
  <2>4. ASSUME \/ ConfigurationStep \/ Collect \/ PurgeFails \/ Tick
               \/ UNCHANGED vars
        PROVE  UNCHANGED <<sent, fate>>
    BY <2>4
    DEF ConfigurationStep, GuestLinksPost, SettingsPut, GrantAdmin,
        RevokeAdmin, Collect, PurgeFails, Tick, vars, history
  <2>5. ASSUME PurgeStep PROVE sent'[e] > 0
    <3>1. CASE DeleteExpiredEntries
      <4>1. fate[e] # "unused"
        BY <3>1
        DEF DeleteExpiredEntries, ExpiredEntries, Expired, Inv, RowsAreStored
      <4> QED
        BY <3>1, <4>1 DEF DeleteExpiredEntries, SomethingSent
    <3> QED
      BY <2>5, <3>1
      DEF PurgeStep, DeleteOrphanedRows, ReadRetention,
          DeleteExpiredDownloadHistory, history, SomethingSent
  <2>6. ASSUME Restart PROVE sent'[e] > 0
    BY <2>6 DEF Restart, SomethingSent
  <2> QED
    BY <2>1, <2>2, <2>3, <2>4, <2>5, <2>6 DEF Next, SomethingSent
<1> QED
  BY <1>1, <1>2, InvIsInvariant, PTL DEF Spec

Reading(q) == q.op \in {"open", "serve"}

\* PlainFile hears nothing of a request that does not read.
LEMMA OthersAreSilent ==
  ASSUME NEW e \in EntryIDs, NEW q, ~Reading(q)
  PROVE  ResponseTo(e, q) = NoResponse
BY DEF Reading, ResponseTo

\* NULL is no length, and no response is none.
LEMMA LengthIsPositive ==
  ASSUME Inv, SomethingSent, NEW e \in EntryIDs
  PROVE  /\ StoredLength(e) = NULL <=> entries[e] = NULL \/ e \in swept
         /\ StoredLength(e) # NULL => StoredLength(e) = sent[e]
         /\ StoredLength(e) # NULL => StoredLength(e) \in Nat \ {0}
<1>1. sent[e] \in Nat /\ NULL \notin Nat
  BY SetsAssumption, BoundsAssumption DEF Inv, TypeOK
<1>2. entries[e] # NULL => sent[e] > 0
  BY DEF Inv, RowsAreStored, SomethingSent
<1> QED
  BY <1>1, <1>2 DEF StoredLength

\* Whatever the step, the file is stored, removed, or as before.
LEMMA FileOfStep ==
  ASSUME Inv, SomethingSent, Inv', SomethingSent', [Next]_vars,
         NEW e \in EntryIDs, ResponsesTo(e)' = ResponsesTo(e)
  PROVE  UNCHANGED Plain(e)!vars \/ Plain(e)!Next
<1>1. /\ StoredLength(e) = NULL <=> entries[e] = NULL \/ e \in swept
      /\ StoredLength(e) # NULL => StoredLength(e) = sent[e]
  BY LengthIsPositive
<1>2. /\ StoredLength(e)' = NULL <=> entries'[e] = NULL \/ e \in swept'
      /\ StoredLength(e)' # NULL => StoredLength(e)' = sent'[e]
      /\ StoredLength(e)' # NULL => StoredLength(e)' \in Nat \ {0}
  <2>1. sent'[e] \in Nat /\ NULL \notin Nat
    BY SetsAssumption, BoundsAssumption DEF Inv, TypeOK
  <2>2. entries'[e] # NULL => sent'[e] > 0
    BY DEF Inv, RowsAreStored, SomethingSent
  <2> QED
    BY <2>1, <2>2 DEF StoredLength
<1>3. CASE StoredLength(e) = NULL /\ StoredLength(e)' = NULL
  BY <1>3 DEF Plain!vars
<1>4. CASE StoredLength(e) = NULL /\ StoredLength(e)' # NULL
  <2>1. Plain(e)!Store
    BY <1>2, <1>4 DEF Plain!Store
  <2> QED
    BY <2>1 DEF Plain!Next
<1>5. CASE StoredLength(e) # NULL /\ StoredLength(e)' = NULL
  <2>1. Plain(e)!Remove
    BY <1>5 DEF Plain!Remove
  <2> QED
    BY <2>1 DEF Plain!Next
<1>6. CASE StoredLength(e) # NULL /\ StoredLength(e)' # NULL
  <2>1. fate[e] = "stored"
    BY <1>1, <1>6 DEF Inv, RowsAreStored
  <2>2. sent'[e] = sent[e]
    BY <2>1, LengthIsSettled
  <2>3. StoredLength(e)' = StoredLength(e)
    BY <1>1, <1>2, <1>6, <2>2
  <2> QED
    BY <2>3 DEF Plain!vars
<1> QED
  BY <1>3, <1>4, <1>5, <1>6

\* A request that does not read before and after the step changes no response.
LEMMA ResponsesStay ==
  ASSUME Inv, [Next]_vars, NEW e \in EntryIDs,
         \A s \in Requests :
           req'[s] = req[s] \/ (~Reading(req[s]) /\ ~Reading(req'[s]))
  PROVE  ResponsesTo(e)' = ResponsesTo(e)
<1> SUFFICES ASSUME NEW s \in Requests
             PROVE  ResponseTo(e, req[s])' = ResponseTo(e, req[s])
  BY DEF ResponsesTo
<1>1. CASE ~Reading(req[s]) /\ ~Reading(req'[s])
  <2>1. ResponseTo(e, req[s]) = NoResponse
    BY <1>1, OthersAreSilent
  <2>2. ResponseTo(e, req[s])' = NoResponse'
    BY <1>1 DEF Reading, ResponseTo
  <2> QED
    BY <2>1, <2>2 DEF NoResponse
<1>2. CASE Reading(req[s]) /\ req'[s] = req[s]
  <2>1. CASE req[s].id # e
    BY <1>2, <2>1 DEF ResponseTo, NoResponse
  <2>2. CASE req[s].id = e
    <3>1. fate[e] \in {"stored", "removed"}
      BY <1>2, <2>2 DEF Reading, Inv, ReaderState
    <3>2. sent'[e] = sent[e] /\ (e \in swept' <=> e \in swept)
      BY <3>1, LengthIsSettled
    <3> QED
      BY <1>2, <2>2, <3>2 DEF ResponseTo, NoResponse, Delivered
  <2> QED
    BY <2>1, <2>2
<1> QED
  BY <1>1, <1>2

\* One request moves on, and the tables stay: the responses of all others
\* stay, and so does the file.
LEMMA ResponseMoves ==
  ASSUME Inv, NEW e \in EntryIDs, NEW r \in Requests, NEW q,
         req' = [req EXCEPT ![r] = q], UNCHANGED <<entries, sent, swept>>
  PROVE  /\ StoredLength(e)' = StoredLength(e)
         /\ ResponsesTo(e)' = [ResponsesTo(e) EXCEPT ![r] = ResponseTo(e, q)]
<1>1. StoredLength(e)' = StoredLength(e)
  BY DEF StoredLength
<1>2. \A s \in Requests : req'[s] = IF s = r THEN q ELSE req[s]
  BY DEF Inv, TypeOK
<1>3. \A s \in Requests : ResponseTo(e, req[s])' = ResponseTo(e, req'[s])
  BY DEF ResponseTo, NoResponse, Delivered
<1>4. ASSUME NEW s \in Requests
      PROVE  ResponsesTo(e)'[s] = IF s = r THEN ResponseTo(e, q)
                                  ELSE ResponsesTo(e)[s]
  BY <1>2, <1>3 DEF ResponsesTo
<1>5. /\ ResponsesTo(e) = [s \in Requests |-> ResponsesTo(e)[s]]
      /\ ResponsesTo(e)' = [s \in Requests |-> ResponsesTo(e)'[s]]
  BY DEF ResponsesTo
<1> QED
  BY <1>1, <1>4, <1>5

\* A reader that has its chunks in order has sent the first bytes of the file.
LEMMA DeliveredInOrder ==
  ASSUME NEW q, q.next \in Nat, q.got = 0..q.next - 1
  PROVE  /\ Delivered(q) = [i \in 1..q.next |-> i - 1]
         /\ Delivered(q) \in Seq(Nat)
         /\ Len(Delivered(q)) = q.next
<1>1. Delivered(q) = [i \in 1..q.next |-> i - 1]
  BY DEF Delivered
<1>2. [i \in 1..q.next |-> i - 1] \in [1..q.next -> Nat]
  OBVIOUS
<1> QED
  BY <1>1, <1>2, LenProperties

\* A response, with its fields named in order.
Responding(at, of, start, want, bytes) ==
  [at |-> at, of |-> of, start |-> start, want |-> want, sent |-> bytes]

\* A download step of request r is a step of the response to r about the file
\* it reads, and of no other.
LEMMA ResponseOfDownload ==
  ASSUME Inv, SomethingSent, Inv', NEW e \in EntryIDs, NEW r \in Requests,
         DownloadStep(r)
  PROVE  UNCHANGED Plain(e)!vars \/ Plain(e)!Next
<1> DEFINE p == req[r]
           res == ResponsesTo(e)
           V == {ResponseTo(e, req[s]) : s \in Requests}
<1>1. p \in Request /\ sent[e] \in Nat
  BY BoundsAssumption DEF Inv, TypeOK
<1>2. /\ res[r] = ResponseTo(e, p)
      /\ res = [res EXCEPT ![r] = res[r]]
  BY DEF ResponsesTo
<1>0. res \in [Requests -> V]
  BY DEF ResponsesTo
<1> HIDE DEF V
<1>3. ASSUME NEW q, req' = [req EXCEPT ![r] = q],
             UNCHANGED <<entries, sent, swept>>, ResponseTo(e, q) = res[r]
      PROVE  UNCHANGED Plain(e)!vars
  <2>1. /\ StoredLength(e)' = StoredLength(e)
        /\ ResponsesTo(e)' = [res EXCEPT ![r] = ResponseTo(e, q)]
    BY <1>3, ResponseMoves
  <2> QED
    BY <1>2, <1>3, <2>1 DEF Plain!vars
<1>4. ASSUME NEW q, req' = [req EXCEPT ![r] = q],
             UNCHANGED <<entries, sent, swept>>, ~Reading(q)
      PROVE  UNCHANGED Plain(e)!vars \/ Plain(e)!Next
  <2>0. ResponseTo(e, q) = NoResponse
    BY <1>4, OthersAreSilent
  <2>1. /\ StoredLength(e)' = StoredLength(e)
        /\ ResponsesTo(e)' = [res EXCEPT ![r] = NoResponse]
    BY <1>4, <2>0, ResponseMoves
  <2>2. CASE res[r] = NoResponse
    BY <1>2, <2>1, <2>2 DEF Plain!vars
  <2>3. CASE res[r].at # "none"
    <3>1. Plain(e)!End(r)
      BY <2>1, <2>3 DEF Plain!End, Plain!NoResponse, NoResponse
    <3> QED
      BY <3>1 DEF Plain!Next
  <2>4. res[r] = NoResponse \/ res[r].at # "none"
    BY <1>2 DEF ResponseTo, NoResponse
  <2> QED
    BY <2>2, <2>3, <2>4
<1>5. ASSUME NEW f \in EntryIDs, EntryGet(r, f)
      PROVE  UNCHANGED Plain(e)!vars \/ Plain(e)!Next
  <2> DEFINE q == [Idle EXCEPT !.op = "open", !.id = f]
  <2>1. /\ req' = [req EXCEPT ![r] = q] /\ UNCHANGED <<entries, sent, swept>>
        /\ p.op = "idle" /\ entries[f] # NULL
    BY <1>5 DEF EntryGet, GetEntryMetadata, fileTables, history
  <2>2. q.op = "open" /\ q.id = f
    BY DEF Idle
  <2>3. res[r] = NoResponse
    BY <1>2, <2>1 DEF ResponseTo
  <2> HIDE DEF q
  <2>4. CASE f # e \/ e \in swept
    <3>1. ResponseTo(e, q) = NoResponse
      BY <2>2, <2>4 DEF ResponseTo
    <3> QED
      BY <1>3, <2>1, <2>3, <3>1
  <2>5. CASE f = e /\ e \notin swept
    <3>2. StoredLength(e) # NULL /\ StoredLength(e) = sent[e]
      BY <2>1, <2>5, LengthIsPositive
    <3>3. /\ StoredLength(e)' = StoredLength(e)
          /\ ResponsesTo(e)' = [res EXCEPT ![r] = ResponseTo(e, q)]
      BY <2>1, ResponseMoves
    <3>1. PICK d : d = << >>
      OBVIOUS
    <3>6. res[r] = Responding("none", 0, 0, 0, d)
      BY <2>3, <3>1 DEF NoResponse, Responding
    <3>7. ResponseTo(e, q) = Responding("found", sent[e], 0, 0, d)
      BY <2>2, <2>5, <3>1 DEF ResponseTo, NoResponse, Responding
    <3>4. ResponsesTo(e)' = [res EXCEPT ![r].at = "found",
                                        ![r].of = StoredLength(e)]
      <4> HIDE DEF res
      <4>1. [res EXCEPT ![r].at = "found", ![r].of = sent[e]] =
              [res EXCEPT ![r] = Responding("found", sent[e], 0, 0, d)]
        <5>1. PICK x : x = res[r]
          OBVIOUS
        <5>2. PICK g : g = [x EXCEPT !.at = "found", !.of = sent[e]]
          OBVIOUS
        <5>3. [res EXCEPT ![r].at = "found", ![r].of = sent[e]] = [res EXCEPT ![r] = g]
          BY <1>0, <5>1, <5>2
        <5>4. x = Responding("none", 0, 0, 0, d)
          BY <3>6, <5>1
        <5>5. g = Responding("found", sent[e], 0, 0, d)
          BY <5>2, <5>4 DEF Responding
        <5> QED
          BY <5>3, <5>5
      <4> QED
        BY <3>2, <3>3, <3>7, <4>1, Zenon
    <3>8. res[r].at = "none"
      BY <2>3 DEF NoResponse
    <3>5. Plain(e)!Find(r)
      BY <3>2, <3>3, <3>4, <3>8, Zenon DEF Plain!Find
    <3> QED
      BY <3>5 DEF Plain!Next
  <2> QED
    BY <2>4, <2>5
<1>6. ASSUME OpenReader(r)
      PROVE  UNCHANGED Plain(e)!vars \/ Plain(e)!Next
  <2>1. PICK last \in entriesData[p.id] :
          req' = [req EXCEPT ![r].op = "serve", ![r].next = 0,
                             ![r].total = last + 1, ![r].got = {}]
    BY <1>6 DEF OpenReader
  <2> DEFINE q == [p EXCEPT !.op = "serve", !.next = 0, !.total = last + 1,
                            !.got = {}]
  <2>2. req' = [req EXCEPT ![r] = q] /\ UNCHANGED <<entries, sent, swept>>
    BY <1>6, <2>1 DEF OpenReader, fileTables, history, Inv, TypeOK
  <2>3. req'[r] = q /\ p.op = "open"
    BY <1>6, <2>2 DEF OpenReader, Inv, TypeOK
  <2>4. q.op = "serve" /\ q.id = p.id /\ q.next = 0 /\ q.got = {}
    BY <1>1 DEF Request
  <2> HIDE DEF q
  <2>5. q.total = sent[p.id]
    BY <2>2, <2>3, <2>4 DEF Inv, ReaderState
  <2>6. CASE p.id # e \/ e \in swept
    <3>1. ResponseTo(e, q) = NoResponse /\ res[r] = NoResponse
      BY <1>2, <2>4, <2>6 DEF ResponseTo
    <3> QED
      BY <1>3, <2>2, <3>1
  <2>7. CASE p.id = e /\ e \notin swept
    <3>1. PICK d : d = << >>
      OBVIOUS
    <3>2. Delivered(q) = << >>
      <4>1. q.next \in Nat /\ q.got = 0..q.next - 1
        BY <2>4
      <4>2. Delivered(q) \in Seq(Nat) /\ Len(Delivered(q)) = 0
        BY <2>4, <4>1, DeliveredInOrder
      <4> QED
        BY <4>2, EmptySeq
    <3>3. /\ res[r] = Responding("found", sent[e], 0, 0, d)
          /\ ResponseTo(e, q) = Responding("sending", sent[e], 0, sent[e], d)
      BY <1>2, <2>3, <2>4, <2>5, <2>7, <3>1, <3>2
      DEF ResponseTo, NoResponse, Responding
    <3>4. /\ StoredLength(e)' = StoredLength(e)
          /\ ResponsesTo(e)' = [res EXCEPT ![r] = ResponseTo(e, q)]
      BY <2>2, ResponseMoves
    <3>5. ResponsesTo(e)' = [res EXCEPT ![r].at = "sending", ![r].start = 0,
                                        ![r].want = sent[e], ![r].sent = << >>]
      <4> HIDE DEF res
      <4>1. [res EXCEPT ![r].at = "sending", ![r].start = 0,
                        ![r].want = sent[e], ![r].sent = d] =
              [res EXCEPT ![r] = Responding("sending", sent[e], 0, sent[e], d)]
        <5>1. PICK x : x = res[r]
          OBVIOUS
        <5>2. PICK g : g = [x EXCEPT !.at = "sending", !.start = 0,
                                 !.want = sent[e], !.sent = d]
          OBVIOUS
        <5>3. [res EXCEPT ![r].at = "sending", ![r].start = 0,
                          ![r].want = sent[e], ![r].sent = d] = [res EXCEPT ![r] = g]
          BY <1>0, <5>1, <5>2
        <5>4. x = Responding("found", sent[e], 0, 0, d)
          BY <3>3, <5>1
        <5>5. g = Responding("sending", sent[e], 0, sent[e], d)
          BY <5>2, <5>4 DEF Responding
        <5> QED
          BY <5>3, <5>5
      <4> QED
        BY <3>1, <3>3, <3>4, <4>1, Zenon
    <3>6. res[r].at = "found" /\ res[r].of = sent[e]
      BY <3>3 DEF Responding
    <3>7. Plain(e)!Announce(r)
      <4>1. 0 \in 0..res[r].of /\ sent[e] \in 0..res[r].of
            /\ 0 + sent[e] <= res[r].of
        BY <1>1, <3>6
      <4> QED
        BY <3>4, <3>5, <3>6, <4>1, Zenon DEF Plain!Announce
    <3> QED
      BY <3>7 DEF Plain!Next
  <2> QED
    BY <2>6, <2>7
<1>7. ASSUME ReadChunk(r)
      PROVE  UNCHANGED Plain(e)!vars \/ Plain(e)!Next
  <2> DEFINE q == [p EXCEPT !.next = @ + 1,
                            !.got = @ \cup ({p.next} \cap entriesData[p.id])]
  <2>1. req' = [req EXCEPT ![r] = q] /\ UNCHANGED <<entries, sent, swept>>
    BY <1>7 DEF ReadChunk, fileTables, history, Inv, TypeOK
  <2>2. /\ req'[r] = q /\ p.op = "serve" /\ p.next < p.total
        /\ p.next \in Nat /\ p.total \in Nat
    BY <1>1, <1>7, <2>1 DEF ReadChunk, Inv, TypeOK, Request
  <2>3. /\ q.op = "serve" /\ q.id = p.id /\ q.next = p.next + 1
        /\ q.total = p.total
    BY <1>1, <2>2 DEF Request
  <2> HIDE DEF q
  <2>4. p.got = 0..p.next - 1 /\ p.total = sent[p.id]
    BY <2>2 DEF Inv, ReaderState
  <2>5. q.got = 0..q.next - 1
    BY <2>2, <2>3 DEF Inv, ReaderState
  <2>6. CASE p.id # e \/ e \in swept
    <3>1. ResponseTo(e, q) = NoResponse /\ res[r] = NoResponse
      BY <1>2, <2>3, <2>6 DEF ResponseTo
    <3> QED
      BY <1>3, <2>1, <3>1
  <2>7. CASE p.id = e /\ e \notin swept
    <3> DEFINE before == Delivered(p)
               one == [i \in 1..1 |-> 0 + Len(before) + i - 1]
    <3>1. /\ before = [i \in 1..p.next |-> i - 1] /\ before \in Seq(Nat)
          /\ Len(before) = p.next
      BY <2>2, <2>4, DeliveredInOrder
    <3>2. /\ Delivered(q) = [i \in 1..q.next |-> i - 1]
          /\ Delivered(q) \in Seq(Nat) /\ Len(Delivered(q)) = p.next + 1
      BY <2>2, <2>3, <2>5, DeliveredInOrder
    <3>3. one = [i \in 1..1 |-> p.next + i - 1] /\ one \in Seq(Nat)
          /\ Len(one) = 1 /\ one[1] = p.next
      <4>1. one = [i \in 1..1 |-> p.next + i - 1]
        BY <2>2, <3>1
      <4>2. one \in [1..1 -> Nat] /\ one[1] = p.next
        BY <2>2, <4>1
      <4> QED
        BY <4>1, <4>2, LenProperties
    <3>4. Delivered(q) = before \o one
      <4> HIDE DEF one
      <4>1. before \o one \in Seq(Nat) /\ Len(before \o one) = p.next + 1
        BY <2>2, <3>1, <3>3, ConcatProperties
      <4>2. ASSUME NEW i \in 1..p.next + 1
            PROVE  (before \o one)[i] = i - 1
        <5>1. CASE i \in 1..p.next
          BY <2>2, <3>1, <3>3, <5>1, ConcatProperties
        <5>2. CASE i = p.next + 1
          BY <2>2, <3>1, <3>3, <5>2, ConcatProperties
        <5>3. i \in 1..p.next \/ i = p.next + 1
          <6> HIDE DEF p
          <6> QED
            BY <2>2, <4>2
        <5> QED
          BY <5>1, <5>2, <5>3
      <4>3. \A i \in 1..p.next + 1 : Delivered(q)[i] = i - 1
        BY <2>3, <3>2
      <4> QED
        BY <3>2, <4>1, <4>2, <4>3, SeqEqual
    <3> HIDE DEF before, one
    <3>5. /\ res[r] = Responding("sending", sent[e], 0, p.total, before)
          /\ ResponseTo(e, q) =
               Responding("sending", sent[e], 0, p.total, before \o one)
      BY <1>2, <2>2, <2>3, <2>7, <3>4 DEF ResponseTo, Responding, before
    <3>7. /\ StoredLength(e)' = StoredLength(e)
          /\ ResponsesTo(e)' = [res EXCEPT ![r] = ResponseTo(e, q)]
      BY <2>1, ResponseMoves
    <3>6. res[r].start = 0 /\ res[r].sent = before
      BY <3>5 DEF Responding
    <3>8. ResponsesTo(e)' = [res EXCEPT ![r].sent =
            @ \o [i \in 1..1 |-> res[r].start + Len(@) + i - 1]]
      <4> HIDE DEF res
      <4>1. [res EXCEPT ![r].sent = before \o one] =
              [res EXCEPT ![r] = Responding("sending", sent[e], 0, p.total,
                                            before \o one)]
        <5>1. PICK x : x = res[r]
          OBVIOUS
        <5>2. PICK g : g = [x EXCEPT !.sent = before \o one]
          OBVIOUS
        <5>3. [res EXCEPT ![r].sent = before \o one] = [res EXCEPT ![r] = g]
          BY <1>0, <5>1, <5>2
        <5>4. x = Responding("sending", sent[e], 0, p.total, before)
          BY <3>5, <5>1
        <5>5. g = Responding("sending", sent[e], 0, p.total, before \o one)
          BY <5>2, <5>4 DEF Responding
        <5> QED
          BY <5>3, <5>5
      <4>2. ResponsesTo(e)' = [res EXCEPT ![r].sent = before \o one]
        BY <3>5, <3>7, <4>1, Zenon
      <4> QED
        BY <3>6, <4>2, Zenon DEF one
    <3>9. 1 \in 1..res[r].want - Len(res[r].sent) /\ res[r].at = "sending"
      BY <2>2, <3>1, <3>5 DEF Responding
    <3>10. Plain(e)!Send(r)
      BY <3>7, <3>8, <3>9, Zenon DEF Plain!Send
    <3> QED
      BY <3>10 DEF Plain!Next
  <2> QED
    BY <2>6, <2>7
<1>8. ASSUME OpenReaderFails(r) \/ ServeContentReturns(r)
      PROVE  UNCHANGED Plain(e)!vars \/ Plain(e)!Next
  <2>1. ~Reading(GoesToRecord(r))
    BY DEF Reading, GoesToRecord, Idle
  <2> QED
    BY <1>4, <1>8, <2>1
    DEF OpenReaderFails, ServeContentReturns, fileTables, history
<1>9. ASSUME RecordDownload(r) \/ RecordDownloadFails(r)
      PROVE  UNCHANGED Plain(e)!vars \/ Plain(e)!Next
  <2>1. ~Reading(Idle)
    BY DEF Reading, Idle
  <2> QED
    BY <1>4, <1>9, <2>1
    DEF RecordDownload, RecordDownloadFails, Answer, fileTables, history
<1> QED
  BY <1>5, <1>6, <1>7, <1>8, <1>9 DEF DownloadStep

\* A restart stops every response and leaves the file.
LEMMA ResponsesEndAtRestart ==
  ASSUME NEW e \in EntryIDs, Restart
  PROVE  Plain(e)!Next
<1>1. \A r \in Requests : req'[r] = Idle
  BY DEF Restart
<1>2. ~Reading(Idle)
  BY DEF Reading, Idle
<1>3. \A r \in Requests : ResponseTo(e, req[r])' = NoResponse
  BY <1>1, <1>2 DEF ResponseTo, Reading, NoResponse
<1>4. ResponsesTo(e)' = [r \in Requests |-> NoResponse]
  BY <1>3 DEF ResponsesTo
<1>5. StoredLength(e)' = StoredLength(e)
  BY DEF Restart, fileTables, StoredLength
<1>6. Plain(e)!Crash
  BY <1>4, <1>5 DEF Plain!Crash, Plain!NoResponse, NoResponse
<1> QED
  BY <1>6 DEF Plain!Next

\* Uploads, changes, purges and the clock touch no reader.
LEMMA ReadersAreLeftAlone ==
  ASSUME Inv, [Next]_vars, ~Restart, \A r \in Requests : ~DownloadStep(r)
  PROVE  \A s \in Requests :
           req'[s] = req[s] \/ (~Reading(req[s]) /\ ~Reading(req'[s]))
<1> SUFFICES ASSUME NEW s \in Requests, req'[s] # req[s]
             PROVE  ~Reading(req[s]) /\ ~Reading(req'[s])
  OBVIOUS
<1>0. \A r \in Requests : req[r] \in Request
  BY DEF Inv, TypeOK
<1>1. ASSUME NEW r \in Requests, UploadStep(r)
      PROVE  ~Reading(req[s]) /\ ~Reading(req'[s])
  <2>1. ASSUME NEW user \in Users, NEW expires \in ParsedExpirations,
               EntryPost(r, user, expires)
        PROVE  ~Reading(req[s]) /\ ~Reading(req'[s])
    BY <2>1 DEF EntryPost, Reading, Idle, Inv, TypeOK
  <2>2. ASSUME NEW l \in GuestLinkIDs, NEW expires \in GuestExpirations(l),
               GuestEntryPost(r, l, expires)
        PROVE  ~Reading(req[s]) /\ ~Reading(req'[s])
    BY <2>2 DEF GuestEntryPost, Reading, Idle, Inv, TypeOK
  <2>3. ASSUME NEW e \in EntryIDs, NEW chunks \in 1..MaxChunks,
               BodyReceived(r, e, chunks)
        PROVE  ~Reading(req[s]) /\ ~Reading(req'[s])
    BY <1>0, <2>3 DEF BodyReceived, Reading, Request, Inv, TypeOK
  <2>4. CASE WriteChunk(r)
    BY <1>0, <2>4 DEF WriteChunk, Reading, Request, Inv, TypeOK
  <2>5. CASE BodyRejected(r) \/ InsertRow(r) \/ InsertFails(r)
    BY <2>5
    DEF BodyRejected, InsertRow, InsertFails, Answer, Reading, Idle, Inv, TypeOK
  <2> QED
    BY <1>1, <2>1, <2>2, <2>3, <2>4, <2>5 DEF UploadStep
<1>2. ASSUME NEW r \in Requests, ManagementStep(r)
      PROVE  ~Reading(req[s]) /\ ~Reading(req'[s])
  <2>1. ASSUME NEW user \in Users, NEW e \in EntryIDs, EntryDelete(r, user, e)
        PROVE  ~Reading(req[s]) /\ ~Reading(req'[s])
    BY <2>1 DEF EntryDelete, Reading, Idle, Inv, TypeOK
  <2>2. ASSUME NEW user \in Users, NEW e \in EntryIDs,
               NEW expires \in ParsedExpirations, EntryPut(r, user, e, expires)
        PROVE  ~Reading(req[s]) /\ ~Reading(req'[s])
    BY <2>2 DEF EntryPut, Reading, Idle, Inv, TypeOK
  <2>3. ASSUME NEW user \in Users, NEW l \in GuestLinkIDs,
               NEW op \in {"unlink", "enable", "disable"},
               GuestLinkChange(r, user, l, op)
        PROVE  ~Reading(req[s]) /\ ~Reading(req'[s])
    BY <2>3 DEF GuestLinkChange, Reading, Idle, Inv, TypeOK
  <2>4. CASE \/ DeleteEntry(r) \/ UpdateEntryMetadata(r) \/ DeleteGuestLink(r)
             \/ SetGuestLinkDisabled(r) \/ ManagementFails(r)
    BY <2>4
    DEF DeleteEntry, UpdateEntryMetadata, DeleteGuestLink, SetGuestLinkDisabled,
        ManagementFails, Answer, Reading, Idle, Inv, TypeOK
  <2> QED
    BY <1>2, <2>1, <2>2, <2>3, <2>4 DEF ManagementStep
<1>3. ASSUME \/ Collect \/ PurgeStep \/ PurgeFails \/ Tick
             \/ UNCHANGED vars
      PROVE  req' = req
  BY <1>3
  DEF Collect, PurgeStep, DeleteExpiredEntries, DeleteOrphanedRows,
      ReadRetention, DeleteExpiredDownloadHistory, PurgeFails, Tick, vars
<1>4. ASSUME ConfigurationStep PROVE ~Reading(req[s]) /\ ~Reading(req'[s])
  <2>1. CASE \E user \in Users : GrantAdmin(user) \/ RevokeAdmin(user)
    <3>1. /\ req[s].op = "delete"
          /\ req'[s] = [req[s] EXCEPT !.demoted = TRUE]
      BY <2>1, RolesChange DEF Inv
    <3>2. req'[s].op = "delete"
      BY <1>0, <3>1 DEF Request
    <3> QED
      BY <3>1, <3>2 DEF Reading
  <2> QED
    BY <1>4, <2>1 DEF ConfigurationStep, GuestLinksPost, SettingsPut
<1> QED
  BY <1>1, <1>2, <1>3, <1>4 DEF Next

\* At first there is no file, and nobody reads.
LEMMA FilesAbsentAtFirst == Init => \A e \in EntryIDs : Plain(e)!Init
<1> SUFFICES ASSUME Init, NEW e \in EntryIDs PROVE Plain(e)!Init
  OBVIOUS
<1>1. StoredLength(e) = NULL
  BY DEF Init, StoredLength
<1>2. \A r \in Requests : ResponseTo(e, req[r]) = NoResponse
  <2>1. ~Reading(Idle)
    BY DEF Reading, Idle
  <2> QED
    BY <2>1, OthersAreSilent DEF Init
<1> QED
  BY <1>1, <1>2 DEF Plain!Init, Plain!NoResponse, NoResponse, ResponsesTo

\* Every stored file, whatever surrounds it, is a file as PlainFile promises
\* one: it appears at once and whole, is served in order at the length that was
\* announced, and disappears at once.
THEOREM EntriesImplementPlainFile == Spec => EntriesArePlainFiles
<1>1. Inv /\ Inv' /\ SomethingSent /\ SomethingSent' /\ [Next]_vars =>
        [\A e \in EntryIDs : UNCHANGED Plain(e)!vars \/ Plain(e)!Next]_fileVars
  <2> SUFFICES ASSUME Inv, Inv', SomethingSent, SomethingSent', [Next]_vars,
                      NEW e \in EntryIDs
               PROVE  UNCHANGED Plain(e)!vars \/ Plain(e)!Next
    OBVIOUS
  <2>1. CASE Restart
    BY <2>1, ResponsesEndAtRestart
  <2>2. ASSUME NEW r \in Requests, DownloadStep(r)
        PROVE  UNCHANGED Plain(e)!vars \/ Plain(e)!Next
    BY <2>2, ResponseOfDownload
  <2>3. CASE ~Restart /\ \A r \in Requests : ~DownloadStep(r)
    <3>1. ResponsesTo(e)' = ResponsesTo(e)
      BY <2>3, ReadersAreLeftAlone, ResponsesStay
    <3> QED
      BY <3>1, FileOfStep
  <2> QED
    BY <2>1, <2>2, <2>3
<1> QED
  BY <1>1, FilesAbsentAtFirst, InvIsInvariant, UploadsAreNotEmpty, PTL
  DEF Spec, EntriesArePlainFiles

\* The same, as PlainFile's own specification of each entry.
THEOREM EachEntryIsAPlainFile ==
  ASSUME NEW i \in EntryIDs
  PROVE  Spec => Plain(i)!Spec
<1>1. (\A e \in EntryIDs : Plain(e)!Init) => Plain(i)!Init
  OBVIOUS
<1>2. [\A e \in EntryIDs : UNCHANGED Plain(e)!vars \/ Plain(e)!Next]_fileVars
        => [Plain(i)!Next]_(Plain(i)!vars)
  <2> SUFFICES ASSUME [\A e \in EntryIDs :
                         UNCHANGED Plain(e)!vars \/ Plain(e)!Next]_fileVars
               PROVE  [Plain(i)!Next]_(Plain(i)!vars)
    OBVIOUS
  <2>1. CASE UNCHANGED fileVars
    BY <2>1 DEF fileVars, Plain!vars, StoredLength, ResponsesTo, ResponseTo,
                NoResponse, Delivered
  <2> QED
    BY <2>1
<1> QED
  BY <1>1, <1>2, EntriesImplementPlainFile, PTL
  DEF EntriesArePlainFiles, Plain!Spec, Plain!vars

-----------------------------------------------------------------------------
(***************************************************************************)
(* Purges finish in the end.  FairSpec's fairness is taken with the guard  *)
(* of each step in the place of ENABLED, about which tlapm cannot reason;  *)
(* each of these steps is its guard and an assignment to every variable,   *)
(* so it is enabled exactly when its guard holds.                          *)
(***************************************************************************)
PurgesAreFair ==
  /\ <>[](gc.step = "idle") => []<><<Collect>>_vars
  /\ []<>(gc.step = "expired") => []<><<DeleteExpiredEntries>>_vars
  /\ []<>(gc.step = "orphans") => []<><<DeleteOrphanedRows>>_vars
  /\ []<>(gc.step = "history") => []<><<ReadRetention>>_vars
  /\ []<>(gc.step = "trim") => []<><<DeleteExpiredDownloadHistory>>_vars

GuardsSuffice ==
  /\ gc.step = "idle" => ENABLED <<Collect>>_vars
  /\ gc.step = "expired" => ENABLED <<DeleteExpiredEntries>>_vars
  /\ gc.step = "orphans" => ENABLED <<DeleteOrphanedRows>>_vars
  /\ gc.step = "history" => ENABLED <<ReadRetention>>_vars
  /\ gc.step = "trim" => ENABLED <<DeleteExpiredDownloadHistory>>_vars

\* So PurgesAreFair is what FairSpec says of the collector.
LEMMA FairSpecIsFair == FairSpec /\ []GuardsSuffice => PurgesAreFair
BY PTL DEF FairSpec, GuardsSuffice, PurgesAreFair

\* The steps a collection can take from each of its stages; every other step
\* leaves it where it is, and a crash takes it to its first stage.
LEMMA CollectionMoves ==
  ASSUME Inv, [Next]_vars
  PROVE  /\ gc.step = "idle" => gc'.step \in {"idle", "expired"}
         /\ gc.step = "expired" => gc'.step \in {"expired", "orphans", "idle"}
         /\ gc.step = "orphans" =>
              gc'.step \in {"orphans", "history", "idle", "expired"}
         /\ gc.step = "history" =>
              gc'.step \in {"history", "trim", "idle", "expired"}
         /\ gc.step = "trim" => gc'.step \in {"trim", "idle", "expired"}
<1>0. gc \in Collection
  BY DEF Inv, TypeOK
<1>1. ASSUME NEW r \in Requests,
             UploadStep(r) \/ DownloadStep(r) \/ ManagementStep(r)
      PROVE  gc' = gc
  <2>1. ASSUME UploadStep(r) PROVE gc' = gc
    BY <2>1
    DEF UploadStep, EntryPost, GuestEntryPost, BodyRejected, BodyReceived,
        WriteChunk, InsertRow, InsertFails
  <2>2. ASSUME DownloadStep(r) PROVE gc' = gc
    BY <2>2
    DEF DownloadStep, EntryGet, OpenReader, OpenReaderFails, ReadChunk,
        ServeContentReturns, RecordDownload, RecordDownloadFails
  <2>3. ASSUME ManagementStep(r) PROVE gc' = gc
    BY <2>3
    DEF ManagementStep, EntryDelete, EntryPut, GuestLinkChange, DeleteEntry,
        UpdateEntryMetadata, DeleteGuestLink, SetGuestLinkDisabled,
        ManagementFails
  <2> QED
    BY <1>1, <2>1, <2>2, <2>3
<1>2. ASSUME ConfigurationStep \/ Tick \/ UNCHANGED vars
      PROVE  gc'.step = gc.step
  BY <1>0, <1>2
  DEF ConfigurationStep, GuestLinksPost, SettingsPut, GrantAdmin, RevokeAdmin,
      Tick, vars, Collection
<1>3. ASSUME PurgeFails PROVE gc'.step = "idle"
  BY <1>3 DEF PurgeFails, IdleGC
<1>4. ASSUME Restart PROVE gc'.step = "expired" /\ gc.step \in GCStep
  BY <1>0, <1>4 DEF Restart, BeginsPurge, Collection
<1>5. ASSUME Collect PROVE gc.step = "idle" /\ gc'.step = "expired"
  BY <1>0, <1>5 DEF Collect, BeginsPurge
<1>6. ASSUME DeleteExpiredEntries
      PROVE  gc.step = "expired" /\ gc'.step = "orphans"
  BY <1>0, <1>6 DEF DeleteExpiredEntries, Collection
<1>7. ASSUME DeleteOrphanedRows
      PROVE  gc.step = "orphans" /\ gc'.step = "history"
  BY <1>0, <1>7 DEF DeleteOrphanedRows, Collection
<1>8. ASSUME ReadRetention
      PROVE  gc.step = "history" /\ gc'.step \in {"idle", "trim"}
  BY <1>0, <1>8 DEF ReadRetention, IdleGC, Collection
<1>9. ASSUME DeleteExpiredDownloadHistory
      PROVE  gc.step = "trim" /\ gc'.step = "idle"
  BY <1>9 DEF DeleteExpiredDownloadHistory, IdleGC
<1> QED
  BY <1>1, <1>2, <1>3, <1>4, <1>5, <1>6, <1>7, <1>8, <1>9 DEF Next, PurgeStep

\* Whatever fails and crashes, purges keep beginning, and keep getting past
\* the deletion of expired entries and that of orphaned rows.
LEMMA PurgesGetThrough ==
  Spec /\ PurgesAreFair => /\ []<><<DeleteExpiredEntries>>_vars
                          /\ []<><<DeleteOrphanedRows>>_vars
<1> DEFINE At(step) == gc.step = step
<1>1. Inv => At("idle") \/ At("expired") \/ At("orphans") \/ At("history") \/ At("trim")
  BY DEF Inv, TypeOK, Collection, GCStep
<1>2. Inv => /\ ~(At("idle") /\ At("expired")) /\ ~(At("idle") /\ At("trim"))
             /\ ~(At("expired") /\ At("orphans"))
  OBVIOUS
<1>3. Inv /\ At("idle") /\ [Next]_vars => At("idle")' \/ At("expired")'
  BY CollectionMoves
<1>4. Inv /\ At("expired") /\ [Next]_vars =>
        At("expired")' \/ At("orphans")' \/ At("idle")'
  BY CollectionMoves
<1>5. Inv /\ At("orphans") /\ [Next]_vars =>
        At("orphans")' \/ At("history")' \/ At("idle")' \/ At("expired")'
  BY CollectionMoves
<1>6. Inv /\ At("history") /\ [Next]_vars =>
        At("history")' \/ At("trim")' \/ At("idle")' \/ At("expired")'
  BY CollectionMoves
<1>7. Inv /\ At("trim") /\ [Next]_vars =>
        At("trim")' \/ At("idle")' \/ At("expired")'
  BY CollectionMoves
<1>8. /\ Inv /\ <<Collect>>_vars => At("expired")'
      /\ Inv /\ <<DeleteExpiredEntries>>_vars => At("orphans")'
      /\ Inv /\ <<DeleteOrphanedRows>>_vars => At("history")'
      /\ Inv /\ <<ReadRetention>>_vars => At("idle")' \/ At("trim")'
      /\ Inv /\ <<DeleteExpiredDownloadHistory>>_vars => At("idle")'
  <2> SUFFICES ASSUME Inv
               PROVE  /\ Collect => At("expired")'
                      /\ DeleteExpiredEntries => At("orphans")'
                      /\ DeleteOrphanedRows => At("history")'
                      /\ ReadRetention => At("idle")' \/ At("trim")'
                      /\ DeleteExpiredDownloadHistory => At("idle")'
    OBVIOUS
  <2>0. gc \in Collection
    BY DEF Inv, TypeOK
  <2>1. ASSUME Collect PROVE At("expired")'
    BY <2>1 DEF Collect, BeginsPurge
  <2>2. /\ DeleteExpiredEntries => At("orphans")'
        /\ DeleteOrphanedRows => At("history")'
    BY <2>0 DEF DeleteExpiredEntries, DeleteOrphanedRows, Collection
  <2>3. ReadRetention => At("idle")' \/ At("trim")'
    BY <2>0 DEF ReadRetention, IdleGC, Collection
  <2>4. DeleteExpiredDownloadHistory => At("idle")'
    BY DEF DeleteExpiredDownloadHistory, IdleGC
  <2> QED
    BY <2>1, <2>2, <2>3, <2>4
<1>9. /\ Inv /\ At("idle") => ~At("history") /\ ~At("orphans")
      /\ Inv /\ At("history") => ~At("orphans") /\ ~At("expired") /\ ~At("trim")
      /\ Inv /\ At("trim") => ~At("orphans") /\ ~At("expired")
  OBVIOUS
<1> HIDE DEF At
<1>10. Spec /\ PurgesAreFair => []<>At("expired")
  BY <1>1, <1>2, <1>3, <1>4, <1>5, <1>6, <1>7, <1>8, <1>9, InvIsInvariant, PTL
  DEF Spec, PurgesAreFair, At
<1> QED
  BY <1>8, <1>10, InvIsInvariant, PTL DEF Spec, PurgesAreFair, At

\* README.md: a file is deleted after its expiration time.
THEOREM ExpiredFilesGo == Spec /\ PurgesAreFair => ExpiredEventuallyRemoved
<1> SUFFICES ASSUME NEW e \in EntryIDs
             PROVE  Spec /\ PurgesAreFair => (Expired(e) ~> ~Expired(e))
  BY DEF ExpiredEventuallyRemoved
<1>1. <<DeleteExpiredEntries>>_vars => ~Expired(e)'
  <2> SUFFICES ASSUME DeleteExpiredEntries PROVE ~Expired(e)'
    OBVIOUS
  <2> QED
    BY DEF DeleteExpiredEntries, ExpiredEntries, Expired
<1> QED
  BY <1>1, PurgesGetThrough, PTL

\* An upload that has failed stays failed.
LEMMA FailedForGood ==
  ASSUME Inv, [Next]_vars, NEW e \in EntryIDs, fate[e] = "failed"
  PROVE  fate'[e] = "failed"
<1>1. ASSUME NEW r \in Requests, UploadStep(r) PROVE fate'[e] = "failed"
  <2>1. CASE \E f \in EntryIDs, chunks \in 1..MaxChunks :
               BodyReceived(r, f, chunks)
    BY <2>1 DEF BodyReceived, Inv, TypeOK
  <2>2. CASE InsertRow(r) \/ InsertFails(r)
    <3>1. req[r].id \in EntryIDs /\ fate[req[r].id] = "writing"
      BY <2>2 DEF InsertRow, InsertFails, Inv, WriterState
    <3> QED
      BY <2>2, <3>1 DEF InsertRow, InsertFails, Inv, TypeOK
  <2> QED
    BY <1>1, <2>1, <2>2
    DEF UploadStep, EntryPost, GuestEntryPost, BodyRejected, WriteChunk, history
<1>2. ASSUME NEW r \in Requests, DownloadStep(r) PROVE fate' = fate
  BY <1>2
  DEF DownloadStep, EntryGet, OpenReader, OpenReaderFails, ReadChunk,
      ServeContentReturns, RecordDownload, RecordDownloadFails, history
<1>3. ASSUME NEW r \in Requests, ManagementStep(r) PROVE fate'[e] = "failed"
  <2>1. CASE DeleteEntry(r)
    <3>1. req[r].id \in EntryIDs
      BY <2>1 DEF DeleteEntry, Inv, ReaderState
    <3> QED
      BY <2>1, <3>1 DEF DeleteEntry, RemovedFate, Inv, TypeOK
  <2> QED
    BY <1>3, <2>1
    DEF ManagementStep, EntryDelete, EntryPut, GuestLinkChange,
        UpdateEntryMetadata, DeleteGuestLink, SetGuestLinkDisabled,
        ManagementFails, history
<1>4. ASSUME \/ ConfigurationStep \/ Collect \/ PurgeFails \/ Tick
             \/ UNCHANGED vars
      PROVE  fate' = fate
  BY <1>4
  DEF ConfigurationStep, GuestLinksPost, SettingsPut, GrantAdmin, RevokeAdmin,
      Collect, PurgeFails, Tick, vars, history
<1>5. ASSUME PurgeStep PROVE fate'[e] = "failed"
  BY <1>5
  DEF PurgeStep, DeleteExpiredEntries, ExpiredEntries, Expired,
      DeleteOrphanedRows, ReadRetention, DeleteExpiredDownloadHistory, history,
      Inv, RowsAreStored
<1>6. ASSUME Restart PROVE fate'[e] = "failed"
  BY <1>6 DEF Restart
<1> QED
  BY <1>1, <1>2, <1>3, <1>4, <1>5, <1>6 DEF Next

\* The comment in InsertEntry: Purge clears what a failed upload has left.
THEOREM LeftoversGo == Spec /\ PurgesAreFair => LeftoversEventuallyPurged
<1> SUFFICES ASSUME NEW e \in EntryIDs
             PROVE  Spec /\ PurgesAreFair =>
                      (fate[e] = "failed" /\ entriesData[e] # {} ~>
                         entriesData[e] = {})
  BY DEF LeftoversEventuallyPurged
<1>1. Inv /\ fate[e] = "failed" /\ [Next]_vars => (fate[e] = "failed")'
  BY FailedForGood
<1>2. Inv /\ fate[e] = "failed" /\ <<DeleteOrphanedRows>>_vars =>
        (entriesData[e] = {})'
  <2> SUFFICES ASSUME Inv, fate[e] = "failed", DeleteOrphanedRows
               PROVE  entriesData'[e] = {}
    OBVIOUS
  <2> QED
    BY DEF DeleteOrphanedRows, Orphans, Inv, RowsAreStored
<1>3. entriesData[e] # {} <=> ~(entriesData[e] = {})
  OBVIOUS
<1> QED
  BY <1>1, <1>2, <1>3, PurgesGetThrough, InvIsInvariant, PTL DEF Spec

=============================================================================
