------------------------------ MODULE FileChunks ------------------------------
(***************************************************************************)
(* One uploaded file, byte by byte: the writer that cuts it into rows of   *)
(* entries_data (file/writer.go), the reader that puts it together again   *)
(* (file/reader.go), and http.ServeContent, which drives the reader by     *)
(* Seek and Read.  Every SQL statement is a step of its own, so the purge  *)
(* of orphaned rows may fall between two flushes, and a deletion between   *)
(* any two queries of a reader.                                            *)
(*                                                                         *)
(* Byte i of the upload is the number i, so that a byte in the wrong place *)
(* is seen; a chunk is a sequence of such bytes.                           *)
(***************************************************************************)
EXTENDS Integers, Sequences

CONSTANTS
  ChunkSize,  \* len(w.buf), the chunk size of the Store that wrote the file
  Sizes,      \* BOUND: lengths an upload may have, in bytes
  Readers,    \* goroutines that serve the file
  NULL        \* no value

ASSUME ChunkSizeAssumption == ChunkSize \in Nat \ {0}

\* picoshare.FileSizeFromInt64 refuses an empty file.
ASSUME SizesAssumption == Sizes \subseteq Nat \ {0}

ASSUME NullAssumption == NULL \notin Nat

VARIABLES
  upload,   \* what InsertEntry is doing, or what became of the file
  size,     \* bytes in the uploaded file
  written,  \* writer.written
  buf,      \* writer.buf
  chunks,   \* rows of entries_data: chunk_index -> chunk
  swept,    \* history: deleteOrphanedRows has deleted chunks of this upload
  fr        \* the fileReader of each goroutine, and the response it feeds

writer == <<size, written, buf>>
vars == <<upload, writer, chunks, swept, fr>>

Upload == {"none", "writing", "closed", "stored", "failed", "removed"}

\* What a goroutine does next: "size", "length": the two queries of
\* NewReader; "ready": call ServeContent; "serving": copy the announced part.
At == {"idle", "size", "length", "ready", "serving"}

\* start, want: the part of the file that the response announces; sent: the
\* bytes written to the client.
Reader == [at: At, chunkSize: Nat, fileLength: Nat, offset: Nat,
           buf: Seq(Nat), start: Nat, want: Nat, sent: Seq(Nat)]

NoReader == [at |-> "idle", chunkSize |-> 0, fileLength |-> 0, offset |-> 0,
             buf |-> <<>>, start |-> 0, want |-> 0, sent |-> <<>>]

TypeOK ==
  /\ upload \in Upload
  /\ size \in Sizes \cup {0}
  /\ written \in 0..size
  /\ buf \in [1..ChunkSize -> Nat]
  /\ DOMAIN chunks \subseteq Nat
  /\ \A i \in DOMAIN chunks : chunks[i] \in Seq(Nat)
  /\ swept \in BOOLEAN
  /\ fr \in [Readers -> Reader]

Init ==
  /\ upload = "none"
  /\ size = 0
  /\ written = 0
  /\ buf = [i \in 1..ChunkSize |-> 0]
  /\ chunks = <<>>
  /\ swept = FALSE
  /\ fr = [r \in Readers |-> NoReader]

-----------------------------------------------------------------------------
(***************************************************************************)
(* The writer                                                              *)
(***************************************************************************)

\* InsertEntry: NewWriter, and the call of io.Copy.
NewWriter(n) ==
  /\ upload = "none"
  /\ upload' = "writing"
  /\ size' = n
  /\ UNCHANGED <<written, buf, chunks, swept, fr>>

\* Mutant: as if the bytes of the chunk had been counted already.
FlushIndex_Late == (written \div ChunkSize) - 1

\* idx := w.written / len(w.buf)
FlushIndex == written \div ChunkSize

\* writer.flush: INSERT INTO entries_data
Flush(bytes) ==
  chunks' = [i \in DOMAIN chunks \cup {FlushIndex} |->
               IF i = FlushIndex THEN bytes ELSE chunks[i]]

DstStart == written % ChunkSize

\* The rest of the buffer keeps what earlier chunks have left in it.
Copied(copySize) ==
  [i \in 1..ChunkSize |->
     IF i \in DstStart + 1..DstStart + copySize
     THEN written + (i - DstStart - 1) ELSE buf[i]]

\* One turn of the loop in writer.Write.  io.Copy passes pieces of whatever
\* length it has read, so copySize is anything that fits the buffer.
Write(copySize) ==
  /\ upload = "writing"
  /\ copySize <= ChunkSize - DstStart
  /\ copySize <= size - written
  /\ buf' = Copied(copySize)
  /\ IF DstStart + copySize = ChunkSize THEN Flush(buf') ELSE UNCHANGED chunks
  /\ written' = written + copySize
  /\ UNCHANGED <<upload, size, swept, fr>>

\* writer.Close flushes the last, shorter chunk, if there is one.
Close ==
  /\ upload = "writing"
  /\ written = size
  /\ IF DstStart # 0 THEN Flush(SubSeq(buf, 1, DstStart)) ELSE UNCHANGED chunks
  /\ upload' = "closed"
  /\ UNCHANGED <<writer, swept, fr>>

\* InsertEntry's last statement, INSERT INTO entries.
InsertEntry ==
  /\ upload = "closed"
  /\ upload' = "stored"
  /\ UNCHANGED <<writer, chunks, swept, fr>>

\* A flush, the INSERT or the process fails; the chunks stay for the purge.
UploadFails ==
  /\ upload \in {"writing", "closed"}
  /\ upload' = "failed"
  /\ UNCHANGED <<writer, chunks, swept, fr>>

\* deleteOrphanedRows deletes the chunks of a file without a row in entries.
DeleteOrphanedRows ==
  /\ upload \in {"writing", "closed", "failed"}
  /\ DOMAIN chunks # {}
  /\ chunks' = <<>>
  /\ swept' = TRUE
  /\ UNCHANGED <<upload, writer, fr>>

\* DeleteEntry, or deleteExpiredEntries: row and chunks in one transaction.
DeleteEntry ==
  /\ upload = "stored"
  /\ upload' = "removed"
  /\ chunks' = <<>>
  /\ UNCHANGED <<writer, swept, fr>>

-----------------------------------------------------------------------------
(***************************************************************************)
(* The reader                                                              *)
(***************************************************************************)

\* GetEntryMetadata joins the entry with the sizes of its chunks.
GetEntryMetadata == upload = "stored" /\ DOMAIN chunks # {}

\* writeEntryContent, up to the call of NewReader.
ReadEntryFile(r) ==
  /\ fr[r].at = "idle"
  /\ GetEntryMetadata
  /\ fr' = [fr EXCEPT ![r].at = "size"]
  /\ UNCHANGED <<upload, writer, chunks, swept>>

IsFirst(i) == i \in DOMAIN chunks /\ \A j \in DOMAIN chunks : i <= j
IsLast(i) == i \in DOMAIN chunks /\ \A j \in DOMAIN chunks : j <= i

\* getChunkSize: ORDER BY chunk_index ASC LIMIT 1
GetChunkSize(r) ==
  /\ fr[r].at = "size"
  /\ \E i \in DOMAIN chunks :
       /\ IsFirst(i)
       /\ fr' = [fr EXCEPT ![r].at = "length",
                           ![r].chunkSize = Len(chunks[i])]
  /\ UNCHANGED <<upload, writer, chunks, swept>>

\* Mutant: the last chunk is taken to be as long as the others.
FileLength_WholeChunks(chunkSize, i) == chunkSize * (i + 1)

\* getFileLength: ORDER BY chunk_index DESC LIMIT 1
FileLength(chunkSize, i) == chunkSize * i + Len(chunks[i])

GetFileLength(r) ==
  /\ fr[r].at = "length"
  /\ \E i \in DOMAIN chunks :
       /\ IsLast(i)
       /\ fr' = [fr EXCEPT ![r].at = "ready",
                           ![r].fileLength = FileLength(fr[r].chunkSize, i)]
  /\ UNCHANGED <<upload, writer, chunks, swept>>

\* Either query fails, or finds no row: the answer is 500.
NewReaderFails(r) ==
  /\ fr[r].at \in {"size", "length"}
  /\ fr' = [fr EXCEPT ![r] = NoReader]
  /\ UNCHANGED <<upload, writer, chunks, swept>>

\* Mutant: the buffer stays.
SeekStart_KeepsBuffer(f, offset) == [f EXCEPT !.offset = offset]

\* fileReader.Seek: the buffer goes, whichever way the offset is given.
SeekStart(f, offset) == [f EXCEPT !.buf = <<>>, !.offset = offset]
SeekEnd(f, offset) == [f EXCEPT !.buf = <<>>, !.offset = f.fileLength - offset]

\* A part of a file of n bytes: all of it, or a range that the client names.
Parts(n) ==
  {[start |-> 0, want |-> n]} \cup
    {p \in [start: 0..n - 1, want: 1..n] : p.start + p.want <= n}

\* ServeContent takes the size from Seek(0, SeekEnd), seeks back to the
\* beginning, and to the start of the range if there is one.
ServeContent(r, part) ==
  LET atEnd == SeekEnd(fr[r], 0)
      sized == SeekStart(atEnd, 0)
  IN  /\ fr[r].at = "ready"
      /\ part \in Parts(atEnd.offset)
      /\ fr' = [fr EXCEPT ![r] =
                  [SeekStart(sized, part.start) EXCEPT
                     !.at = "serving", !.start = part.start,
                     !.want = part.want, !.sent = <<>>]]
      /\ UNCHANGED <<upload, writer, chunks, swept>>

Remaining(f) == f.want - Len(f.sent)

\* A request for several ranges: the next one, when a part is complete.
NextRange(r, part) ==
  /\ fr[r].at = "serving"
  /\ Remaining(fr[r]) = 0
  /\ part \in Parts(fr[r].fileLength)
  /\ fr' = [fr EXCEPT ![r] =
              [SeekStart(fr[r], part.start) EXCEPT
                 !.start = part.start, !.want = part.want, !.sent = <<>>]]
  /\ UNCHANGED <<upload, writer, chunks, swept>>

\* fr.buf.Read: io.CopyN asks for no more than is left of the part, in pieces
\* of its own choice.
ReadBuffer(r, n) ==
  /\ fr[r].at = "serving"
  /\ n <= Len(fr[r].buf)
  /\ n <= Remaining(fr[r])
  /\ fr' = [fr EXCEPT ![r].sent = @ \o SubSeq(fr[r].buf, 1, n),
                      ![r].buf = SubSeq(@, n + 1, Len(@))]
  /\ UNCHANGED <<upload, writer, chunks, swept>>

\* The buffer is empty, the part is not complete, and the end of the file has
\* not been reached: Read calls populateBuffer.
MustPopulate(f) ==
  /\ f.at = "serving"
  /\ Remaining(f) > 0
  /\ f.buf = <<>>
  /\ f.offset # f.fileLength

\* Mutant: chunk_index >= :chunk_index LIMIT 1, the next chunk there is.
ChunkIndex_NextPresent(f) ==
  CHOOSE i \in DOMAIN chunks \cup {-1} :
    LET later == {j \in DOMAIN chunks : j >= f.offset \div f.chunkSize}
    IN  IF later = {} THEN i = -1 ELSE i \in later /\ \A j \in later : i <= j

\* Mutant: the whole chunk is buffered, wherever reading starts.
ReadStart_Zero(f) == 0

ChunkIndex(f) == f.offset \div f.chunkSize
ReadStart(f) == f.offset % f.chunkSize

\* The slice chunk[readStart:] and the step of the offset.
PopulateBuffer(r) ==
  LET f == fr[r]
      chunk == chunks[ChunkIndex(f)]
  IN  /\ MustPopulate(f)
      /\ ChunkIndex(f) \in DOMAIN chunks
      /\ fr' = [fr EXCEPT
                  ![r].buf = SubSeq(chunk, ReadStart(f) + 1, Len(chunk)),
                  ![r].offset = @ + (Len(chunk) - ReadStart(f))]
      /\ UNCHANGED <<upload, writer, chunks, swept>>

\* ServeContent returns: the part is complete, the chunk was not found, Read
\* said EOF too early, or the client has gone away.
ServeContentReturns(r) ==
  /\ fr[r].at \in {"ready", "serving"}
  /\ fr' = [fr EXCEPT ![r] = NoReader]
  /\ UNCHANGED <<upload, writer, chunks, swept>>

WriterStep ==
  \/ \E n \in Sizes : NewWriter(n)
  \/ \E copySize \in 1..ChunkSize : Write(copySize)
  \/ Close
  \/ UploadFails
  \/ DeleteOrphanedRows
  \/ DeleteEntry

\* What follows NewReader's caller.
ReaderStep(r) ==
  \/ GetChunkSize(r)
  \/ GetFileLength(r)
  \/ NewReaderFails(r)
  \/ \E part \in Parts(fr[r].fileLength) : ServeContent(r, part)
                                           \/ NextRange(r, part)
  \/ \E n \in 1..Len(fr[r].buf) : ReadBuffer(r, n)
  \/ PopulateBuffer(r)
  \/ ServeContentReturns(r)

Next ==
  \/ WriterStep
  \/ InsertEntry
  \/ \E r \in Readers : ReadEntryFile(r) \/ ReaderStep(r)

Spec == Init /\ [][Next]_vars

-----------------------------------------------------------------------------
(***************************************************************************)
(* Properties                                                              *)
(***************************************************************************)

\* Unless a purge met the upload, a client receives the bytes of the part
\* that was announced, in order, whatever the ranges it asks for, and the
\* part lies within the file: writer, getChunkSize, getFileLength, Seek and
\* populateBuffer agree on where every byte is.
DeliveredIsFile ==
  \A r \in Readers :
    fr[r].at = "serving" /\ ~swept =>
      /\ fr[r].start + fr[r].want <= size
      /\ \A i \in 1..Len(fr[r].sent) : fr[r].sent[i] = fr[r].start + i - 1

\* Even of a file whose first chunks deleteOrphanedRows has taken, and whose
\* length and chunk size NewReader therefore gets wrong, a response that
\* starts at the beginning never carries a byte in the wrong place, and never
\* completes with less than the whole file.
WholeFileOrError ==
  \A r \in Readers :
    fr[r].at = "serving" /\ fr[r].start = 0 =>
      /\ \A i \in 1..Len(fr[r].sent) : fr[r].sent[i] = i - 1
      /\ Len(fr[r].sent) > 0 => fr[r].fileLength = size

\* chunk[readStart:] is not empty when populateBuffer takes it: an empty slice
\* would keep Read in its loop for ever, and a start beyond the end panics.
\* This holds for damaged files too.
PopulateAdvances ==
  \A r \in Readers :
    MustPopulate(fr[r]) /\ ChunkIndex(fr[r]) \in DOMAIN chunks =>
      ReadStart(fr[r]) < Len(chunks[ChunkIndex(fr[r])])

\* Rows, offsets and buffers behave like a plain sequence of bytes, for every
\* upload that no purge has met.
AbstractLength == IF upload = "stored" /\ ~swept THEN size ELSE NULL

AbstractResponse(f) ==
  LET Response(at, of, start, want, sent) ==
        [at |-> at, of |-> of, start |-> start, want |-> want, sent |-> sent]
  IN  IF swept \/ f.at = "idle" THEN Response("none", 0, 0, 0, <<>>)
      ELSE IF f.at = "serving"
           THEN Response("sending", size, f.start, f.want, f.sent)
           ELSE Response("found", size, 0, 0, <<>>)

AbstractResponses == [r \in Readers |-> AbstractResponse(fr[r])]

Plain == INSTANCE PlainFile WITH length <- AbstractLength,
                                 response <- AbstractResponses

ImplementsPlainFile == Plain!Spec

=============================================================================
