-------------------------- MODULE FileChunksProofs --------------------------
(***************************************************************************)
(* Theorems about FileChunks, for every chunk size, every length of the    *)
(* upload and any number of readers.  Writer and reader compute positions  *)
(* by division and remainder, each from a chunk size of its own; the       *)
(* invariant says where the bytes of a row lie in the file, which rows     *)
(* there are, what a reader has learnt of them, and how far it has got.    *)
(***************************************************************************)
EXTENDS FileChunks, SequenceTheorems, TLAPS

\* The offset in the file of the first byte of a chunk.
Base(i) == i * ChunkSize

\* What the writer has left behind.
WriterState ==
  /\ upload = "none" <=> size = 0
  /\ upload = "none" => written = 0 /\ ~swept
  /\ upload \in {"closed", "stored"} => written = size
  /\ upload \in {"none", "removed"} => DOMAIN chunks = {}

\* The beginning of writer.buf is the beginning of the next chunk.
BufferHoldsRest ==
  upload = "writing" =>
    \A j \in 1..DstStart : buf[j] = Base(FlushIndex) + j - 1

\* A row holds the bytes of its place in the file.  Only the last is short.
RowsHoldFile ==
  \A i \in DOMAIN chunks :
    /\ Len(chunks[i]) \in 1..ChunkSize
    /\ \A j \in 1..Len(chunks[i]) : chunks[i][j] = Base(i) + j - 1
    /\ Base(i) + Len(chunks[i]) <= written
    /\ \/ Len(chunks[i]) = ChunkSize
       \/ upload # "writing" /\ Base(i) + Len(chunks[i]) = size

\* How much of the file has been flushed, if no purge comes.
Flushed == IF upload = "writing" THEN Base(FlushIndex) ELSE size

\* No row is missing, but those before a purge, and then the first is.
NothingMissing ==
  /\ upload \in {"writing", "closed", "stored"} =>
       \A j \in Nat :
         Base(j) < Flushed /\ (swept => \E i \in DOMAIN chunks : i <= j)
           => j \in DOMAIN chunks
  /\ swept => 0 \notin DOMAIN chunks
              /\ (upload = "writing" => ChunkSize <= written)

\* What NewReader has found out.  DeleteEntry may take the rows afterwards.
Measured(f) ==
  /\ f.at # "idle" => upload \in {"stored", "removed"}
  /\ f.at \in {"length", "ready", "serving"} =>
       /\ f.chunkSize \in 1..ChunkSize
       /\ ~swept => f.chunkSize \in {ChunkSize, size}
       /\ DOMAIN chunks # {} =>
            \E i \in Nat : IsFirst(i) /\ f.chunkSize = Len(chunks[i])
  /\ f.at \in {"ready", "serving"} =>
       /\ ~swept => f.fileLength = size
       /\ DOMAIN chunks # {} =>
            \E i \in Nat : IsLast(i) /\ f.fileLength = FileLength(f.chunkSize, i)

\* How far the response has got.
Positioned(f) ==
  f.at = "serving" =>
    /\ f.offset <= f.fileLength
    /\ f.start + f.want <= f.fileLength
    /\ ~swept =>
         /\ f.offset = f.start + Len(f.sent) + Len(f.buf)
         /\ \A j \in 1..Len(f.buf) :
              f.buf[j] = f.start + Len(f.sent) + j - 1
         /\ \A j \in 1..Len(f.sent) : f.sent[j] = f.start + j - 1
    /\ swept /\ f.start = 0 => f.offset = 0 /\ f.buf = <<>> /\ f.sent = <<>>

Inv ==
  /\ TypeOK
  /\ WriterState
  /\ BufferHoldsRest
  /\ RowsHoldFile
  /\ NothingMissing
  /\ \A r \in Readers : Measured(fr[r]) /\ Positioned(fr[r])

-----------------------------------------------------------------------------
\* Quotient and remainder.
LEMMA Division ==
  ASSUME NEW x \in Nat, NEW d \in Nat \ {0}
  PROVE  /\ x \div d \in Nat
         /\ x % d \in 0..d - 1
         /\ x = d * (x \div d) + (x % d)
OBVIOUS

\* Chunks lie one after the other.
LEMMA Bases ==
  /\ Base(0) = 0
  /\ \A i \in Nat : Base(i) \in Nat /\ Base(i + 1) = Base(i) + ChunkSize
  /\ \A i, j \in Nat : i < j => Base(i) + ChunkSize <= Base(j)
  /\ \A i \in Nat : Base(i) = ChunkSize * i
<1>1. Base(0) = 0
  BY ChunkSizeAssumption DEF Base
<1>2. \A i \in Nat : Base(i) \in Nat /\ Base(i + 1) = Base(i) + ChunkSize
      /\ Base(i) = ChunkSize * i
  BY ChunkSizeAssumption DEF Base
<1>3. ASSUME NEW i \in Nat, NEW j \in Nat, i < j
      PROVE  Base(i) + ChunkSize <= Base(j)
  <2>1. PICK d \in Nat : j = i + 1 + d
    BY <1>3
  <2>2. j * ChunkSize = i * ChunkSize + ChunkSize + d * ChunkSize
    BY <2>1, ChunkSizeAssumption
  <2>3. d * ChunkSize \in Nat /\ i * ChunkSize \in Nat
    BY ChunkSizeAssumption
  <2> QED
    BY <2>2, <2>3, ChunkSizeAssumption DEF Base
<1> QED
  BY <1>1, <1>2, <1>3

\* Every byte lies in one chunk.
LEMMA InChunk ==
  ASSUME NEW x \in Nat
  PROVE  /\ x \div ChunkSize \in Nat
         /\ x % ChunkSize \in 0..ChunkSize - 1
         /\ x = Base(x \div ChunkSize) + (x % ChunkSize)
<1> DEFINE q == x \div ChunkSize
           b == x % ChunkSize
<1>1. q \in Nat /\ b \in 0..ChunkSize - 1 /\ x = ChunkSize * q + b
  BY Division, ChunkSizeAssumption
<1> HIDE DEF q, b
<1>2. x = Base(q) + b
  BY <1>1, Bases
<1> QED
  BY <1>1, <1>2 DEF q, b

LEMMA OnlyChunk ==
  ASSUME NEW x \in Nat, NEW q \in Nat, Base(q) <= x, x < Base(q) + ChunkSize
  PROVE  x \div ChunkSize = q /\ x % ChunkSize = x - Base(q)
<1> DEFINE p == x \div ChunkSize
           b == x % ChunkSize
<1>1. p \in Nat /\ b \in 0..ChunkSize - 1 /\ x = Base(p) + b
  BY InChunk
<1> HIDE DEF p, b
<1>2. Base(p) \in Nat /\ Base(q) \in Nat /\ ChunkSize \in Nat
  BY <1>1, Bases, ChunkSizeAssumption
<1>3. ~(p < q)
  <2>1. p < q => Base(p) + ChunkSize <= Base(q)
    BY <1>1, Bases
  <2> QED
    BY <1>1, <1>2, <2>1
<1>4. ~(q < p)
  <2>1. q < p => Base(q) + ChunkSize <= Base(p)
    BY <1>1, Bases
  <2> QED
    BY <1>1, <1>2, <2>1
<1>5. p = q /\ b = x - Base(q)
  BY <1>1, <1>2, <1>3, <1>4
<1> QED
  BY <1>5 DEF p, b

LEMMA ArraysAreSequences ==
  ASSUME NEW n \in Nat, NEW a \in [1..n -> Nat]
  PROVE  a \in Seq(Nat) /\ Len(a) = n
OBVIOUS

-----------------------------------------------------------------------------
LEMMA InitInv == Init => Inv
<1> SUFFICES ASSUME Init PROVE Inv
  OBVIOUS
<1>1. NoReader \in Reader /\ NoReader.at = "idle"
  BY DEF NoReader, Reader, At
<1>2. DOMAIN chunks = {}
  BY DEF Init
<1>3. TypeOK
  <2>1. buf \in [1..ChunkSize -> Nat] /\ fr \in [Readers -> Reader]
    BY <1>1 DEF Init
  <2>2. upload \in Upload /\ size \in Sizes \cup {0} /\ written \in 0..size
    BY DEF Init, Upload
  <2>3. swept \in BOOLEAN
    BY DEF Init
  <2>4. DOMAIN chunks \subseteq Nat
        /\ \A i \in DOMAIN chunks : chunks[i] \in Seq(Nat)
    BY <1>2
  <2> QED
    BY <2>1, <2>2, <2>3, <2>4 DEF TypeOK
<1>4. WriterState /\ BufferHoldsRest /\ RowsHoldFile /\ NothingMissing
  BY <1>2 DEF Init, WriterState, BufferHoldsRest, RowsHoldFile, NothingMissing
<1>5. \A r \in Readers : Measured(fr[r]) /\ Positioned(fr[r])
  BY <1>1 DEF Init, Measured, Positioned
<1> QED
  BY <1>3, <1>4, <1>5 DEF Inv

\* Nobody reads a file that is not stored yet.
LEMMA NobodyReads ==
  ASSUME Inv, upload \notin {"stored", "removed"}, UNCHANGED fr
  PROVE  \A r \in Readers : (Measured(fr[r]) /\ Positioned(fr[r]))'
BY DEF Inv, Measured, Positioned

LEMMA Numbers ==
  ASSUME Inv
  PROVE  /\ ChunkSize \in Nat \ {0} /\ size \in Nat /\ written \in Nat
         /\ written <= size
         /\ FlushIndex \in Nat /\ DstStart \in 0..ChunkSize - 1
         /\ written = Base(FlushIndex) + DstStart
         /\ Base(FlushIndex) \in Nat
         /\ DOMAIN chunks \subseteq Nat
         /\ \A i \in DOMAIN chunks : chunks[i] \in Seq(Nat) /\ Len(chunks[i]) \in Nat
<1>1. size \in Nat /\ written \in Nat /\ written <= size
  BY SizesAssumption DEF Inv, TypeOK
<1>2. /\ FlushIndex \in Nat /\ DstStart \in 0..ChunkSize - 1
      /\ written = Base(FlushIndex) + DstStart
  BY <1>1, InChunk DEF FlushIndex, DstStart
<1>3. DOMAIN chunks \subseteq Nat
      /\ \A i \in DOMAIN chunks : chunks[i] \in Seq(Nat)
  BY DEF Inv, TypeOK
<1> QED
  BY <1>1, <1>2, <1>3, Bases, LenProperties, ChunkSizeAssumption

\* InsertEntry begins.
LEMMA NewWriterKeepsInv ==
  ASSUME Inv, NEW n \in Sizes, NewWriter(n)
  PROVE  Inv'
<1> USE DEF NewWriter
<1>1. n \in Nat \ {0} /\ written = 0 /\ DOMAIN chunks = {} /\ ~swept
  BY SizesAssumption DEF Inv, WriterState
<1>2. TypeOK'
  BY <1>1 DEF Inv, TypeOK, Upload
<1>3. DstStart' = 0 /\ FlushIndex' = 0
  <2>1. 0 \div ChunkSize = 0 /\ 0 % ChunkSize = 0
    BY OnlyChunk, Bases, ChunkSizeAssumption
  <2> QED
    BY <1>1, <2>1 DEF DstStart, FlushIndex
<1>4. WriterState' /\ BufferHoldsRest' /\ RowsHoldFile'
  BY <1>1, <1>3 DEF WriterState, BufferHoldsRest, RowsHoldFile
<1>5. NothingMissing'
  <2>1. Flushed' = 0
    BY <1>3, Bases DEF Flushed
  <2> QED
    BY <1>1, <2>1, Bases DEF NothingMissing
<1>6. \A r \in Readers : (Measured(fr[r]) /\ Positioned(fr[r]))'
  BY NobodyReads
<1> QED
  BY <1>2, <1>4, <1>5, <1>6 DEF Inv

\* A row for the chunk that comes next.
LEMMA FlushAdds ==
  ASSUME Inv, NEW bytes \in Seq(Nat), Flush(bytes),
         Len(bytes) \in 1..ChunkSize,
         \A j \in 1..Len(bytes) : bytes[j] = Base(FlushIndex) + j - 1
  PROVE  /\ DOMAIN chunks' = DOMAIN chunks \cup {FlushIndex}
         /\ DOMAIN chunks' \subseteq Nat
         /\ \A i \in DOMAIN chunks' : chunks'[i] \in Seq(Nat)
         /\ chunks'[FlushIndex] = bytes
         /\ \A i \in DOMAIN chunks : i # FlushIndex => chunks'[i] = chunks[i]
<1>1. DOMAIN chunks' = DOMAIN chunks \cup {FlushIndex}
      /\ \A i \in DOMAIN chunks' :
           chunks'[i] = IF i = FlushIndex THEN bytes ELSE chunks[i]
  BY DEF Flush
<1> QED
  BY <1>1, Numbers

\* What writer.buf holds after a piece has been copied into it.
LEMMA CopiedBytes ==
  ASSUME Inv, upload = "writing", NEW n \in 1..ChunkSize,
         n <= ChunkSize - DstStart
  PROVE  /\ Copied(n) \in [1..ChunkSize -> Nat]
         /\ \A j \in 1..DstStart + n : Copied(n)[j] = Base(FlushIndex) + j - 1
<1>1. /\ ChunkSize \in Nat \ {0} /\ written \in Nat
      /\ DstStart \in 0..ChunkSize - 1
      /\ Base(FlushIndex) \in Nat /\ written = Base(FlushIndex) + DstStart
  BY Numbers
<1>2. buf \in [1..ChunkSize -> Nat]
      /\ \A j \in 1..DstStart : buf[j] = Base(FlushIndex) + j - 1
  BY DEF Inv, TypeOK, BufferHoldsRest
<1>3. ASSUME NEW d \in Nat, d = DstStart, NEW b \in Nat, b = Base(FlushIndex)
      PROVE  /\ Copied(n) \in [1..ChunkSize -> Nat]
             /\ \A j \in 1..d + n : Copied(n)[j] = b + j - 1
  <2>1. Copied(n) = [i \in 1..ChunkSize |-> IF i \in d + 1..d + n
                       THEN b + d + (i - d - 1) ELSE buf[i]]
    BY <1>1, <1>3 DEF Copied
  <2>2. \A i \in d + 1..d + n : b + d + (i - d - 1) = b + i - 1 /\ b + i - 1 \in Nat
    BY <1>3
  <2>3. d + n <= ChunkSize
    BY <1>1, <1>3
  <2> HIDE DEF Copied
  <2>4. Copied(n) \in [1..ChunkSize -> Nat]
    BY <1>2, <2>1, <2>2
  <2>5. ASSUME NEW j \in 1..d + n
        PROVE  Copied(n)[j] = b + j - 1
    <3>1. j \in 1..ChunkSize /\ j \in Nat
      BY <1>1, <1>3, <2>3
    <3>2. CASE j \in d + 1..d + n
      BY <2>1, <2>2, <3>1, <3>2
    <3>3. CASE j \in 1..d
      <4>1. Copied(n)[j] = buf[j]
        BY <1>3, <2>1, <3>1, <3>3
      <4> QED
        BY <1>2, <1>3, <3>3, <4>1
    <3> QED
      BY <1>3, <3>1, <3>2, <3>3
  <2> QED
    BY <2>4, <2>5
<1> QED
  BY <1>1, <1>3

\* Where the writer is after the chunk it is filling.
LEMMA NextChunk ==
  ASSUME Inv, written' = Base(FlushIndex) + ChunkSize
  PROVE  FlushIndex' = FlushIndex + 1 /\ DstStart' = 0
<1>1. FlushIndex \in Nat /\ FlushIndex + 1 \in Nat /\ ChunkSize \in Nat \ {0}
      /\ Base(FlushIndex) \in Nat
  BY Numbers
<1>2. written' = Base(FlushIndex + 1) /\ written' \in Nat
  BY <1>1, Bases
<1>3. written' \div ChunkSize = FlushIndex + 1 /\ written' % ChunkSize = 0
  BY <1>1, <1>2, OnlyChunk
<1> QED
  BY <1>3 DEF FlushIndex, DstStart

LEMMA SameChunk ==
  ASSUME Inv, NEW n \in Nat, written' = written + n, DstStart + n < ChunkSize
  PROVE  FlushIndex' = FlushIndex /\ DstStart' = DstStart + n
<1>1. FlushIndex \in Nat /\ ChunkSize \in Nat \ {0} /\ DstStart \in Nat
      /\ Base(FlushIndex) \in Nat /\ written = Base(FlushIndex) + DstStart
  BY Numbers
<1>2. written' \in Nat /\ Base(FlushIndex) <= written'
      /\ written' < Base(FlushIndex) + ChunkSize
      /\ written' - Base(FlushIndex) = DstStart + n
  BY <1>1
<1>3. written' \div ChunkSize = FlushIndex
      /\ written' % ChunkSize = written' - Base(FlushIndex)
  BY <1>1, <1>2, OnlyChunk
<1> QED
  BY <1>2, <1>3 DEF FlushIndex, DstStart

\* A piece that leaves the buffer with room for more.
LEMMA WriteNoFlush ==
  ASSUME Inv, NEW n \in 1..ChunkSize, Write(n), DstStart + n # ChunkSize
  PROVE  Inv'
<1>1. /\ upload = "writing" /\ n <= ChunkSize - DstStart /\ n <= size - written
      /\ buf' = Copied(n) /\ written' = written + n
      /\ UNCHANGED <<upload, size, swept, fr, chunks>>
  BY DEF Write
<1>2. /\ ChunkSize \in Nat \ {0} /\ size \in Nat /\ written \in Nat
      /\ DstStart \in Nat
  BY Numbers
<1>3. FlushIndex' = FlushIndex /\ DstStart' = DstStart + n
  BY <1>1, <1>2, SameChunk
<1>4. TypeOK'
  <2>1. buf' \in [1..ChunkSize -> Nat]
    BY <1>1, CopiedBytes
  <2>2. written' \in 0..size
    BY <1>1, <1>2
  <2> QED
    BY <1>1, <2>1, <2>2 DEF Inv, TypeOK
<1>5. WriterState'
  BY <1>1 DEF Inv, WriterState
<1>6. BufferHoldsRest'
  BY <1>1, <1>3, CopiedBytes DEF BufferHoldsRest, Base
<1>7. RowsHoldFile'
  <2>1. \A i \in DOMAIN chunks :
          /\ Len(chunks[i]) \in 1..ChunkSize
          /\ \A j \in 1..Len(chunks[i]) : chunks[i][j] = Base(i) + j - 1
          /\ Base(i) + Len(chunks[i]) <= written
          /\ Len(chunks[i]) = ChunkSize
    BY <1>1 DEF Inv, RowsHoldFile
  <2>2. \A i \in DOMAIN chunks : Base(i) + Len(chunks[i]) <= written'
    <3>1. \A i \in DOMAIN chunks : Base(i) \in Nat
      BY Numbers, Bases
    <3> QED
      BY <1>1, <1>2, <2>1, <3>1
  <2> QED
    BY <1>1, <2>1, <2>2 DEF RowsHoldFile, Base
<1>8. NothingMissing'
  <2>1. Flushed' = Flushed
    BY <1>1, <1>3 DEF Flushed, Base
  <2>2. ChunkSize <= written => ChunkSize <= written'
    BY <1>1, <1>2
  <2> QED
    BY <1>1, <2>1, <2>2 DEF Inv, NothingMissing, Base
<1>9. \A r \in Readers : (Measured(fr[r]) /\ Positioned(fr[r]))'
  BY <1>1, NobodyReads
<1> QED
  BY <1>4, <1>5, <1>6, <1>7, <1>8, <1>9 DEF Inv

\* A piece that fills the buffer.
LEMMA WriteAndFlush ==
  ASSUME Inv, NEW n \in 1..ChunkSize, Write(n), DstStart + n = ChunkSize
  PROVE  Inv'
<1>1. /\ upload = "writing" /\ n <= ChunkSize - DstStart /\ n <= size - written
      /\ buf' = Copied(n) /\ Flush(buf') /\ written' = written + n
      /\ UNCHANGED <<upload, size, swept, fr>>
  BY DEF Write
<1>2. /\ ChunkSize \in Nat \ {0} /\ size \in Nat /\ written \in Nat
      /\ DstStart \in Nat /\ FlushIndex \in Nat /\ Base(FlushIndex) \in Nat
      /\ written = Base(FlushIndex) + DstStart
  BY Numbers
<1>3. written' = Base(FlushIndex) + ChunkSize
  BY <1>1, <1>2
<1>4. FlushIndex' = FlushIndex + 1 /\ DstStart' = 0
  BY <1>3, NextChunk
<1>5. /\ buf' \in [1..ChunkSize -> Nat]
      /\ \A j \in 1..ChunkSize : buf'[j] = Base(FlushIndex) + j - 1
  BY <1>1, CopiedBytes
<1>6. buf' \in Seq(Nat) /\ Len(buf') = ChunkSize
  BY <1>2, <1>5, ArraysAreSequences
<1>7. /\ DOMAIN chunks' = DOMAIN chunks \cup {FlushIndex}
      /\ DOMAIN chunks' \subseteq Nat
      /\ \A i \in DOMAIN chunks' : chunks'[i] \in Seq(Nat)
      /\ chunks'[FlushIndex] = buf'
      /\ \A i \in DOMAIN chunks : i # FlushIndex => chunks'[i] = chunks[i]
  <2>1. Len(buf') \in 1..ChunkSize
        /\ \A j \in 1..Len(buf') : buf'[j] = Base(FlushIndex) + j - 1
    BY <1>2, <1>5, <1>6
  <2>2. Flush(buf')
    BY <1>1
  <2> QED
    BY <1>6, <2>1, <2>2, FlushAdds
<1>8. TypeOK'
  <2>1. written' \in 0..size
    BY <1>1, <1>2
  <2> QED
    BY <1>1, <1>5, <1>7, <2>1 DEF Inv, TypeOK
<1>9. WriterState' /\ BufferHoldsRest'
  BY <1>1, <1>4 DEF Inv, WriterState, BufferHoldsRest
<1>10. RowsHoldFile'
  <2>1. ASSUME NEW i \in DOMAIN chunks'
        PROVE  /\ Len(chunks'[i]) = ChunkSize
               /\ \A j \in 1..ChunkSize : chunks'[i][j] = Base(i) + j - 1
               /\ Base(i) + ChunkSize <= written'
    <3>1. CASE i = FlushIndex
      BY <1>2, <1>3, <1>5, <1>6, <1>7, <3>1
    <3>2. CASE i # FlushIndex
      <4>1. i \in DOMAIN chunks /\ chunks'[i] = chunks[i] /\ Base(i) \in Nat
        BY <1>7, <3>2, Bases
      <4>2. /\ Len(chunks[i]) = ChunkSize
            /\ \A j \in 1..Len(chunks[i]) : chunks[i][j] = Base(i) + j - 1
            /\ Base(i) + Len(chunks[i]) <= written
        BY <1>1, <4>1 DEF Inv, RowsHoldFile
      <4>3. Base(i) + ChunkSize <= written'
        <5>1. Base(i) + ChunkSize <= written
          BY <4>2
        <5> QED
          BY <1>1, <1>2, <4>1, <5>1
      <4> QED
        BY <4>1, <4>2, <4>3
    <3> QED
      BY <3>1, <3>2
  <2> QED
    BY <1>2, <2>1 DEF RowsHoldFile, Base
<1>11. NothingMissing'
  <2>1. Flushed = Base(FlushIndex) /\ Flushed' = Base(FlushIndex + 1)
    BY <1>1, <1>4 DEF Flushed, Base
  <2>2. \A j \in Nat : Base(j) < Base(FlushIndex + 1) =>
          j = FlushIndex \/ Base(j) < Base(FlushIndex)
    <3>1. SUFFICES ASSUME NEW j \in Nat, Base(j) < Base(FlushIndex + 1),
                          j # FlushIndex
                   PROVE  Base(j) < Base(FlushIndex)
      OBVIOUS
    <3>2. CASE j < FlushIndex
      BY <1>2, <3>2, Bases
    <3>3. CASE FlushIndex < j
      <4>1. Base(FlushIndex) + ChunkSize <= Base(j)
            /\ Base(FlushIndex + 1) = Base(FlushIndex) + ChunkSize
            /\ Base(j) \in Nat
        BY <1>2, <3>3, Bases
      <4> QED
        BY <1>2, <3>1, <4>1
    <3> QED
      BY <1>2, <3>1, <3>2, <3>3
  <2>3. swept => FlushIndex # 0
    <3>1. swept => ChunkSize <= written
      BY <1>1 DEF Inv, NothingMissing
    <3>2. DstStart < ChunkSize
      BY Numbers
    <3>3. Base(0) = 0
      BY Bases
    <3> QED
      BY <1>2, <3>1, <3>2, <3>3
  <2>4. ASSUME NEW j \in Nat, Base(j) < Base(FlushIndex + 1),
               swept => \E i \in DOMAIN chunks' : i <= j
        PROVE  j \in DOMAIN chunks'
    <3>1. CASE j = FlushIndex
      BY <1>7, <3>1
    <3>2. CASE j # FlushIndex
      <4>1. Base(j) < Base(FlushIndex)
        BY <2>2, <2>4, <3>2
      <4>2. j < FlushIndex
        <5>1. FlushIndex < j => Base(FlushIndex) + ChunkSize <= Base(j)
          BY <1>2, Bases
        <5>2. Base(j) \in Nat
          BY Bases
        <5> QED
          BY <1>2, <3>2, <4>1, <5>1, <5>2
      <4>3. swept => \E i \in DOMAIN chunks : i <= j
        BY <1>2, <1>7, <2>4, <4>2
      <4>4. j \in DOMAIN chunks
        BY <1>1, <2>1, <4>1, <4>3 DEF Inv, NothingMissing
      <4> QED
        BY <1>7, <4>4
    <3> QED
      BY <3>1, <3>2
  <2>5. swept => 0 \notin DOMAIN chunks' /\ ChunkSize <= written'
    <3>1. swept => 0 \notin DOMAIN chunks
      BY DEF Inv, NothingMissing
    <3> QED
      BY <1>2, <1>3, <1>7, <2>3, <3>1
  <2> QED
    BY <1>1, <2>1, <2>4, <2>5 DEF NothingMissing, Base
<1>12. \A r \in Readers : (Measured(fr[r]) /\ Positioned(fr[r]))'
  BY <1>1, NobodyReads
<1> QED
  BY <1>8, <1>9, <1>10, <1>11, <1>12 DEF Inv

\* The end of a file that is a whole number of chunks.
LEMMA CloseNoFlush ==
  ASSUME Inv, Close, DstStart = 0
  PROVE  Inv'
<1>1. /\ upload = "writing" /\ written = size /\ upload' = "closed"
      /\ UNCHANGED <<size, written, buf, chunks, swept, fr>>
  BY DEF Close, writer
<1>2. written = Base(FlushIndex) /\ size # 0
  BY <1>1, Numbers DEF Inv, WriterState
<1>3. TypeOK' /\ WriterState'
  BY <1>1, <1>2 DEF Inv, TypeOK, Upload, WriterState
<1>4. BufferHoldsRest' /\ RowsHoldFile'
  BY <1>1 DEF Inv, BufferHoldsRest, RowsHoldFile, Base
<1>5. NothingMissing'
  <2>1. Flushed' = Flushed
    BY <1>1, <1>2 DEF Flushed
  <2> QED
    BY <1>1, <2>1 DEF Inv, NothingMissing, Base
<1>6. \A r \in Readers : (Measured(fr[r]) /\ Positioned(fr[r]))'
  BY <1>1, NobodyReads
<1> QED
  BY <1>3, <1>4, <1>5, <1>6 DEF Inv

\* The end of a file whose last chunk is short.
LEMMA CloseAndFlush ==
  ASSUME Inv, Close, DstStart # 0
  PROVE  Inv'
<1> DEFINE bytes == SubSeq(buf, 1, DstStart)
<1>1. /\ upload = "writing" /\ written = size /\ upload' = "closed"
      /\ Flush(bytes)
      /\ UNCHANGED <<size, written, buf, swept, fr>>
  BY DEF Close, writer
<1>2. /\ ChunkSize \in Nat \ {0} /\ size \in Nat /\ written \in Nat
      /\ DstStart \in 1..ChunkSize - 1 /\ FlushIndex \in Nat
      /\ Base(FlushIndex) \in Nat
      /\ written = Base(FlushIndex) + DstStart
  BY Numbers
<1>3. /\ bytes \in Seq(Nat) /\ Len(bytes) = DstStart
      /\ \A j \in 1..DstStart : bytes[j] = Base(FlushIndex) + j - 1
  <2>1. buf \in [1..ChunkSize -> Nat]
        /\ \A j \in 1..DstStart : buf[j] = Base(FlushIndex) + j - 1
    BY <1>1 DEF Inv, TypeOK, BufferHoldsRest
  <2>2. \A j \in 1..DstStart : buf[j] \in Nat
    BY <1>2, <2>1
  <2>3. /\ bytes \in Seq(Nat) /\ Len(bytes) = DstStart
        /\ \A j \in 1..DstStart : bytes[j] = buf[j]
    BY <1>2, <2>2, SubSeqProperties
  <2> QED
    BY <2>1, <2>3
<1> HIDE DEF bytes
<1>4. /\ DOMAIN chunks' = DOMAIN chunks \cup {FlushIndex}
      /\ DOMAIN chunks' \subseteq Nat
      /\ \A i \in DOMAIN chunks' : chunks'[i] \in Seq(Nat)
      /\ chunks'[FlushIndex] = bytes
      /\ \A i \in DOMAIN chunks : i # FlushIndex => chunks'[i] = chunks[i]
  <2>1. Len(bytes) \in 1..ChunkSize
        /\ \A j \in 1..Len(bytes) : bytes[j] = Base(FlushIndex) + j - 1
    BY <1>2, <1>3
  <2> QED
    BY <1>1, <1>3, <2>1, FlushAdds
<1>5. TypeOK' /\ WriterState'
  BY <1>1, <1>2, <1>4 DEF Inv, TypeOK, Upload, WriterState
<1>6. BufferHoldsRest'
  BY <1>1 DEF BufferHoldsRest
<1>7. RowsHoldFile'
  <2>1. ASSUME NEW i \in DOMAIN chunks'
        PROVE  /\ Len(chunks'[i]) \in 1..ChunkSize
               /\ \A j \in 1..Len(chunks'[i]) : chunks'[i][j] = Base(i) + j - 1
               /\ Base(i) + Len(chunks'[i]) <= written
               /\ \/ Len(chunks'[i]) = ChunkSize
                  \/ Base(i) + Len(chunks'[i]) = size
    <3>1. CASE i = FlushIndex
      BY <1>1, <1>2, <1>3, <1>4, <3>1
    <3>2. CASE i # FlushIndex
      BY <1>1, <1>4, <3>2 DEF Inv, RowsHoldFile
    <3> QED
      BY <3>1, <3>2
  <2> QED
    BY <1>1, <2>1 DEF RowsHoldFile, Base
<1>8. NothingMissing'
  <2>1. Flushed = Base(FlushIndex) /\ Flushed' = size
    BY <1>1 DEF Flushed
  <2>2. swept => FlushIndex # 0
    <3>1. swept => ChunkSize <= written
      BY <1>1 DEF Inv, NothingMissing
    <3>2. Base(0) = 0
      BY Bases
    <3> QED
      BY <1>2, <3>1, <3>2
  <2>3. ASSUME NEW j \in Nat, Base(j) < size,
               swept => \E i \in DOMAIN chunks' : i <= j
        PROVE  j \in DOMAIN chunks'
    <3>1. CASE j = FlushIndex
      BY <1>4, <3>1
    <3>2. CASE j # FlushIndex
      <4>1. j < FlushIndex
        <5>1. FlushIndex < j => Base(FlushIndex) + ChunkSize <= Base(j)
          BY <1>2, Bases
        <5>2. Base(j) \in Nat
          BY Bases
        <5> QED
          BY <1>1, <1>2, <2>3, <3>2, <5>1, <5>2
      <4>2. Base(j) < Base(FlushIndex)
        <5>1. Base(j) \in Nat /\ Base(j) + ChunkSize <= Base(FlushIndex)
          BY <1>2, <4>1, Bases
        <5> QED
          BY <1>2, <5>1
      <4>3. swept => \E i \in DOMAIN chunks : i <= j
        BY <1>2, <1>4, <2>3, <4>1
      <4>4. j \in DOMAIN chunks
        BY <1>1, <2>1, <4>2, <4>3 DEF Inv, NothingMissing
      <4> QED
        BY <1>4, <4>4
    <3> QED
      BY <3>1, <3>2
  <2>4. swept => 0 \notin DOMAIN chunks'
    <3>1. swept => 0 \notin DOMAIN chunks
      BY DEF Inv, NothingMissing
    <3> QED
      BY <1>4, <2>2, <3>1
  <2> QED
    BY <1>1, <2>1, <2>3, <2>4 DEF NothingMissing, Base
<1>9. \A r \in Readers : (Measured(fr[r]) /\ Positioned(fr[r]))'
  BY <1>1, NobodyReads
<1> QED
  BY <1>5, <1>6, <1>7, <1>8, <1>9 DEF Inv

\* The file gets its row, or will never get one.
LEMMA InsertEntryKeepsInv ==
  ASSUME Inv, InsertEntry
  PROVE  Inv'
<1> USE DEF InsertEntry, writer
<1>1. TypeOK' /\ WriterState'
  BY DEF Inv, TypeOK, Upload, WriterState
<1>2. BufferHoldsRest' /\ RowsHoldFile'
  BY DEF Inv, BufferHoldsRest, RowsHoldFile, Base
<1>3. NothingMissing'
  BY DEF Inv, NothingMissing, Flushed, Base
<1>4. \A r \in Readers : (Measured(fr[r]) /\ Positioned(fr[r]))'
  BY NobodyReads
<1> QED
  BY <1>1, <1>2, <1>3, <1>4 DEF Inv

LEMMA UploadFailsKeepsInv ==
  ASSUME Inv, UploadFails
  PROVE  Inv'
<1> USE DEF UploadFails, writer
<1>1. TypeOK' /\ WriterState'
  BY DEF Inv, TypeOK, Upload, WriterState
<1>2. BufferHoldsRest' /\ RowsHoldFile'
  BY DEF Inv, BufferHoldsRest, RowsHoldFile, Base
<1>3. NothingMissing'
  BY DEF Inv, NothingMissing
<1>4. \A r \in Readers : (Measured(fr[r]) /\ Positioned(fr[r]))'
  BY NobodyReads
<1> QED
  BY <1>1, <1>2, <1>3, <1>4 DEF Inv

\* The purge: if the upload goes on, it is past its first chunk.
LEMMA DeleteOrphanedRowsKeepsInv ==
  ASSUME Inv, DeleteOrphanedRows
  PROVE  Inv'
<1>1. /\ upload \in {"writing", "closed", "failed"} /\ DOMAIN chunks # {}
      /\ DOMAIN chunks' = {} /\ swept'
      /\ UNCHANGED <<upload, size, written, buf, fr>>
  BY DEF DeleteOrphanedRows, writer
<1>2. TypeOK'
  <2>1. swept' \in BOOLEAN
    BY DEF DeleteOrphanedRows
  <2> QED
    BY <1>1, <2>1 DEF Inv, TypeOK
<1>3. WriterState' /\ RowsHoldFile'
  BY <1>1 DEF Inv, WriterState, RowsHoldFile
<1>4. BufferHoldsRest'
  BY <1>1 DEF Inv, BufferHoldsRest, DstStart, FlushIndex, Base
<1>5. NothingMissing'
  <2>1. upload = "writing" => ChunkSize <= written
    <3>1. PICK i \in DOMAIN chunks : TRUE
      BY <1>1
    <3>2. upload = "writing" => Base(i) + ChunkSize <= written
      BY DEF Inv, RowsHoldFile
    <3>3. Base(i) \in Nat /\ ChunkSize \in Nat /\ written \in Nat
      BY Numbers, Bases
    <3> QED
      BY <3>2, <3>3
  <2> QED
    BY <1>1, <2>1 DEF NothingMissing
<1>6. \A r \in Readers : (Measured(fr[r]) /\ Positioned(fr[r]))'
  BY <1>1, NobodyReads
<1> QED
  BY <1>2, <1>3, <1>4, <1>5, <1>6 DEF Inv

\* What a reader knows of the rows is of no use any more.
LEMMA DeleteEntryKeepsInv ==
  ASSUME Inv, DeleteEntry
  PROVE  Inv'
<1>1. /\ upload = "stored" /\ upload' = "removed" /\ DOMAIN chunks' = {}
      /\ UNCHANGED <<size, written, buf, swept, fr>>
  BY DEF DeleteEntry, writer
<1>2. TypeOK' /\ WriterState' /\ RowsHoldFile' /\ BufferHoldsRest'
  BY <1>1 DEF Inv, TypeOK, Upload, WriterState, RowsHoldFile, BufferHoldsRest
<1>3. NothingMissing'
  BY <1>1 DEF NothingMissing
<1>4. ASSUME NEW r \in Readers
      PROVE  Measured(fr[r])' /\ Positioned(fr[r])'
  <2>1. Measured(fr[r]) /\ Positioned(fr[r])
    BY DEF Inv
  <2>2. Measured(fr[r])'
    BY <1>1, <2>1 DEF Measured
  <2>3. Positioned(fr[r])'
    BY <1>1, <2>1 DEF Positioned
  <2> QED
    BY <2>2, <2>3
<1> QED
  BY <1>2, <1>3, <1>4 DEF Inv

-----------------------------------------------------------------------------
\* A step of one reader, to a state that agrees with the rows.
LEMMA ReaderMoves ==
  ASSUME Inv, NEW r \in Readers, NEW f \in Reader, Measured(f), Positioned(f),
         fr' = [fr EXCEPT ![r] = f],
         UNCHANGED <<upload, size, written, buf, chunks, swept>>
  PROVE  Inv'
<1>1. TypeOK'
  BY DEF Inv, TypeOK
<1>2. WriterState' /\ BufferHoldsRest' /\ RowsHoldFile' /\ NothingMissing'
  BY DEF Inv, WriterState, BufferHoldsRest, RowsHoldFile, NothingMissing,
         Flushed, DstStart, FlushIndex, Base
<1>3. ASSUME NEW q \in Readers
      PROVE  (Measured(fr[q]) /\ Positioned(fr[q]))'
  <2>1. fr'[q] = IF q = r THEN f ELSE fr[q]
    BY DEF Inv, TypeOK
  <2> DEFINE g == IF q = r THEN f ELSE fr[q]
  <2>2. Measured(g) /\ Positioned(g)
    BY DEF Inv
  <2>3. fr'[q] = g
    BY <2>1
  <2> HIDE DEF g
  <2>4. Measured(fr[q])'
    BY <2>2, <2>3 DEF Measured, IsFirst, IsLast, FileLength
  <2>5. Positioned(fr[q])'
    BY <2>2, <2>3 DEF Positioned
  <2> QED
    BY <2>4, <2>5
<1> QED
  BY <1>1, <1>2, <1>3 DEF Inv

LEMMA NoReaderIsIdle ==
  /\ NoReader \in Reader /\ NoReader.at = "idle"
  /\ Measured(NoReader) /\ Positioned(NoReader)
<1>1. NoReader \in Reader /\ NoReader.at = "idle"
  BY DEF NoReader, Reader, At
<1> QED
  BY <1>1 DEF Measured, Positioned

LEMMA ReadEntryFileKeepsInv ==
  ASSUME Inv, NEW r \in Readers, ReadEntryFile(r)
  PROVE  Inv'
<1> DEFINE f == [fr[r] EXCEPT !.at = "size"]
<1>1. fr' = [fr EXCEPT ![r] = f] /\ upload = "stored"
      /\ UNCHANGED <<upload, size, written, buf, chunks, swept>>
  BY DEF ReadEntryFile, writer, GetEntryMetadata
<1>2. f \in Reader /\ f.at = "size"
  BY DEF Inv, TypeOK, Reader, At
<1> HIDE DEF f
<1>3. Measured(f) /\ Positioned(f)
  BY <1>1, <1>2 DEF Measured, Positioned
<1> QED
  BY <1>1, <1>2, <1>3, ReaderMoves

LEMMA ReadingEnds ==
  ASSUME Inv, NEW r \in Readers, NewReaderFails(r) \/ ServeContentReturns(r)
  PROVE  Inv'
BY NoReaderIsIdle, ReaderMoves DEF NewReaderFails, ServeContentReturns, writer

\* While the rows are there, the file is stored, and unless a purge has met it
\* the first row is there as well.
LEMMA FirstRow ==
  ASSUME Inv, upload \in {"stored", "removed"}, NEW i, IsFirst(i)
  PROVE  /\ upload = "stored" /\ i \in DOMAIN chunks /\ i \in Nat
         /\ written = size
         /\ ~swept => i = 0
<1>1. i \in DOMAIN chunks /\ i \in Nat
  BY Numbers DEF IsFirst
<1>2. upload = "stored" /\ written = size
  BY <1>1 DEF Inv, WriterState
<1>3. ASSUME ~swept PROVE i = 0
  <2>1. Base(0) < Flushed
    BY <1>2, Bases, Numbers DEF Flushed, Inv, WriterState
  <2>2. 0 \in DOMAIN chunks
    BY <1>2, <1>3, <2>1 DEF Inv, NothingMissing
  <2> QED
    BY <1>1, <2>2 DEF IsFirst
<1> QED
  BY <1>1, <1>2, <1>3

\* The last row ends where the file does.
LEMMA LastRow ==
  ASSUME Inv, upload = "stored", NEW i, IsLast(i)
  PROVE  i \in DOMAIN chunks /\ i \in Nat /\ Base(i) + Len(chunks[i]) = size
<1>1. i \in DOMAIN chunks /\ i \in Nat /\ Len(chunks[i]) \in Nat
      /\ Base(i) \in Nat /\ size \in Nat /\ written = size
  BY Numbers, Bases DEF IsLast, Inv, WriterState
<1>2. Base(i) + Len(chunks[i]) <= size
      /\ (Len(chunks[i]) = ChunkSize \/ Base(i) + Len(chunks[i]) = size)
  BY <1>1 DEF Inv, RowsHoldFile
<1>3. CASE Len(chunks[i]) = ChunkSize /\ Base(i) + Len(chunks[i]) # size
  <2>1. Base(i + 1) < size
    <3>1. Base(i + 1) = Base(i) + ChunkSize
      BY <1>1, Bases
    <3> QED
      BY <1>1, <1>2, <1>3, <3>1
  <2>2. i + 1 \in Nat /\ i <= i + 1 /\ ~(i + 1 <= i)
    BY <1>1
  <2>3. i + 1 \in DOMAIN chunks
    BY <1>1, <2>1, <2>2 DEF Inv, NothingMissing, Flushed
  <2> QED
    BY <2>2, <2>3 DEF IsLast
<1> QED
  BY <1>1, <1>2, <1>3

LEMMA GetChunkSizeKeepsInv ==
  ASSUME Inv, NEW r \in Readers, GetChunkSize(r)
  PROVE  Inv'
<1>1. PICK i \in DOMAIN chunks :
        /\ IsFirst(i)
        /\ fr' = [fr EXCEPT ![r].at = "length",
                            ![r].chunkSize = Len(chunks[i])]
  BY DEF GetChunkSize
<1>2. fr[r] \in Reader /\ fr[r].at = "size"
      /\ UNCHANGED <<upload, size, written, buf, chunks, swept>>
  BY DEF GetChunkSize, Inv, TypeOK, writer
<1>3. upload \in {"stored", "removed"}
  BY <1>2 DEF Inv, Measured
<1>4. /\ i \in Nat /\ upload = "stored" /\ written = size
      /\ ~swept => i = 0
      /\ Len(chunks[i]) \in Nat
  BY <1>1, <1>3, FirstRow, Numbers
<1>5. Len(chunks[i]) \in 1..ChunkSize
      /\ (Len(chunks[i]) = ChunkSize \/ Base(i) + Len(chunks[i]) = size)
  BY <1>1 DEF Inv, RowsHoldFile
<1>6. ~swept => Len(chunks[i]) \in {ChunkSize, size}
  <2>1. i = 0 => Base(i) = 0
    BY Bases
  <2> QED
    BY <1>4, <1>5, <2>1
<1> DEFINE f == [fr[r] EXCEPT !.at = "length", !.chunkSize = Len(chunks[i])]
<1>7. f \in Reader /\ f.at = "length" /\ f.chunkSize = Len(chunks[i])
  BY <1>2, <1>4 DEF Reader, At
<1>8. fr' = [fr EXCEPT ![r] = f]
  BY <1>1
<1> HIDE DEF f
<1>9. Measured(f) /\ Positioned(f)
  BY <1>1, <1>3, <1>4, <1>5, <1>6, <1>7 DEF Measured, Positioned
<1> QED
  BY <1>2, <1>7, <1>8, <1>9, ReaderMoves

\* A file that no purge has met is measured right.
LEMMA LengthIsSize ==
  ASSUME Inv, upload = "stored", ~swept, NEW k, IsFirst(k), NEW i, IsLast(i)
  PROVE  FileLength(Len(chunks[k]), i) = size
<1>1. /\ k = 0 /\ k \in DOMAIN chunks /\ Len(chunks[k]) \in Nat
      /\ i \in DOMAIN chunks /\ i \in Nat /\ Len(chunks[i]) \in Nat
      /\ Base(i) + Len(chunks[i]) = size
      /\ size \in Nat /\ ChunkSize \in Nat \ {0} /\ Base(i) \in Nat
  BY FirstRow, LastRow, Numbers, Bases
<1>2. CASE Len(chunks[k]) = ChunkSize
  <2>1. Base(i) = ChunkSize * i
    BY <1>1, Bases
  <2> QED
    BY <1>1, <1>2, <2>1 DEF FileLength
<1>3. CASE Len(chunks[k]) # ChunkSize
  <2>1. Len(chunks[k]) < ChunkSize /\ Len(chunks[k]) = size
    <3>1. Base(k) = 0
      BY <1>1, Bases
    <3>2. Len(chunks[k]) \in 1..ChunkSize /\ Base(k) + Len(chunks[k]) = size
      BY <1>1, <1>3 DEF Inv, RowsHoldFile
    <3> QED
      BY <1>1, <1>3, <3>1, <3>2
  <2>2. i = 0
    <3>1. 0 < i => Base(0) + ChunkSize <= Base(i) /\ Base(0) = 0
      BY <1>1, Bases
    <3> QED
      BY <1>1, <2>1, <3>1
  <2> QED
    BY <1>1, <2>1, <2>2 DEF FileLength
<1> QED
  BY <1>2, <1>3

LEMMA GetFileLengthKeepsInv ==
  ASSUME Inv, NEW r \in Readers, GetFileLength(r)
  PROVE  Inv'
<1>1. PICK i \in DOMAIN chunks :
        /\ IsLast(i)
        /\ fr' = [fr EXCEPT ![r].at = "ready",
                    ![r].fileLength = FileLength(fr[r].chunkSize, i)]
  BY DEF GetFileLength
<1>2. fr[r] \in Reader /\ fr[r].at = "length" /\ Measured(fr[r])
      /\ UNCHANGED <<upload, size, written, buf, chunks, swept>>
  BY DEF GetFileLength, Inv, TypeOK, writer
<1>3. /\ upload \in {"stored", "removed"}
      /\ fr[r].chunkSize \in 1..ChunkSize
      /\ ~swept => fr[r].chunkSize \in {ChunkSize, size}
  BY <1>2 DEF Measured
<1>4. PICK k \in Nat : IsFirst(k) /\ fr[r].chunkSize = Len(chunks[k])
  BY <1>1, <1>2 DEF Measured
<1>5. i \in Nat /\ Len(chunks[i]) \in Nat /\ upload = "stored"
  BY <1>3, <1>4, FirstRow, Numbers
<1>6. ~swept => FileLength(fr[r].chunkSize, i) = size
  BY <1>1, <1>4, <1>5, LengthIsSize
<1>7. FileLength(fr[r].chunkSize, i) \in Nat
  <2>1. ASSUME NEW c \in Nat, NEW l \in Nat
        PROVE  c * i + l \in Nat
    BY <1>5
  <2>2. fr[r].chunkSize \in Nat
    BY <1>3, Numbers
  <2> QED
    BY <1>5, <2>1, <2>2 DEF FileLength
<1> DEFINE l == FileLength(fr[r].chunkSize, i)
           f == [fr[r] EXCEPT !.at = "ready", !.fileLength = l]
<1> HIDE DEF l
<1>8. f \in Reader /\ f.at = "ready" /\ f.fileLength = l
      /\ f.chunkSize = fr[r].chunkSize
  BY <1>2, <1>7 DEF Reader, At, l
<1>9. fr' = [fr EXCEPT ![r] = f]
  BY <1>1 DEF l
<1> HIDE DEF f
<1>10. /\ DOMAIN chunks # {}
       /\ IsLast(i) /\ f.fileLength = FileLength(f.chunkSize, i)
       /\ ~swept => f.fileLength = size
  BY <1>1, <1>6, <1>8 DEF l
<1>11. Measured(f) /\ Positioned(f)
  BY <1>3, <1>4, <1>5, <1>8, <1>10 DEF Measured, Positioned
<1> QED
  BY <1>2, <1>8, <1>9, <1>11, ReaderMoves

\* Seek leaves a reader without a buffer, at the beginning of a part.
LEMMA PartBegins ==
  ASSUME Inv, NEW r \in Readers, fr[r].at \in {"ready", "serving"},
         NEW part \in Parts(fr[r].fileLength), NEW f \in Reader,
         f.at = "serving", f.chunkSize = fr[r].chunkSize,
         f.fileLength = fr[r].fileLength, f.offset = part.start,
         f.start = part.start, f.want = part.want,
         f.buf = <<>>, f.sent = <<>>,
         fr' = [fr EXCEPT ![r] = f],
         UNCHANGED <<upload, size, written, buf, chunks, swept>>
  PROVE  Inv'
<1>1. fr[r].fileLength \in Nat
  BY DEF Inv, TypeOK, Reader
<1>2. /\ part.start \in Nat /\ part.want \in Nat
      /\ part.start + part.want <= fr[r].fileLength
  BY <1>1 DEF Parts
<1>3. Measured(f)
  <2>1. Measured(fr[r])
    BY DEF Inv
  <2> QED
    BY <2>1 DEF Measured
<1>4. Positioned(f)
  BY <1>1, <1>2 DEF Positioned
<1> QED
  BY <1>3, <1>4, ReaderMoves

LEMMA Seeking ==
  ASSUME NEW g \in Reader, NEW o \in Nat
  PROVE  /\ SeekStart(g, o) \in Reader /\ SeekStart(g, o).at = g.at
         /\ SeekStart(g, o).chunkSize = g.chunkSize
         /\ SeekStart(g, o).fileLength = g.fileLength
         /\ SeekStart(g, o).offset = o /\ SeekStart(g, o).buf = <<>>
<1>1. ASSUME NEW e \in Seq(Nat)
      PROVE  LET h == [g EXCEPT !.buf = e, !.offset = o]
             IN  /\ h \in Reader /\ h.at = g.at /\ h.chunkSize = g.chunkSize
                 /\ h.fileLength = g.fileLength /\ h.offset = o /\ h.buf = e
  BY DEF Reader
<1>2. <<>> \in Seq(Nat)
  OBVIOUS
<1> QED
  BY <1>1, <1>2 DEF SeekStart

LEMMA SeekingTheEnd ==
  ASSUME NEW g \in Reader
  PROVE  /\ SeekEnd(g, 0) \in Reader
         /\ SeekEnd(g, 0).chunkSize = g.chunkSize
         /\ SeekEnd(g, 0).fileLength = g.fileLength
         /\ SeekEnd(g, 0).offset = g.fileLength
<1>1. g.fileLength - 0 = g.fileLength /\ g.fileLength \in Nat
  BY DEF Reader
<1>2. SeekEnd(g, 0) = SeekStart(g, g.fileLength)
  BY <1>1 DEF SeekEnd, SeekStart
<1> QED
  BY <1>1, <1>2, Seeking

Announced(g, s, w) ==
  [g EXCEPT !.at = "serving", !.start = s, !.want = w, !.sent = <<>>]

LEMMA Announcing ==
  ASSUME NEW g \in Reader, g.buf = <<>>, NEW s \in Nat, NEW w \in Nat
  PROVE  /\ Announced(g, s, w) \in Reader
         /\ Announced(g, s, w).at = "serving"
         /\ Announced(g, s, w).chunkSize = g.chunkSize
         /\ Announced(g, s, w).fileLength = g.fileLength
         /\ Announced(g, s, w).offset = g.offset
         /\ Announced(g, s, w).start = s /\ Announced(g, s, w).want = w
         /\ Announced(g, s, w).buf = <<>> /\ Announced(g, s, w).sent = <<>>
<1>1. ASSUME NEW e \in Seq(Nat)
      PROVE  LET h == [g EXCEPT !.at = "serving", !.start = s, !.want = w,
                                !.sent = e]
             IN  /\ h \in Reader /\ h.at = "serving"
                 /\ h.chunkSize = g.chunkSize /\ h.fileLength = g.fileLength
                 /\ h.offset = g.offset /\ h.start = s /\ h.want = w
                 /\ h.buf = g.buf /\ h.sent = e
  BY DEF Reader, At
<1>2. <<>> \in Seq(Nat)
  OBVIOUS
<1> QED
  BY <1>1, <1>2 DEF Announced

LEMMA ServeContentKeepsInv ==
  ASSUME Inv, NEW r \in Readers, NEW part \in Parts(fr[r].fileLength),
         ServeContent(r, part)
  PROVE  Inv'
<1> DEFINE f == [SeekStart(SeekStart(SeekEnd(fr[r], 0), 0), part.start) EXCEPT
                   !.at = "serving", !.start = part.start,
                   !.want = part.want, !.sent = <<>>]
<1>1. fr[r] \in Reader /\ fr[r].at = "ready" /\ fr[r].fileLength \in Nat
  BY DEF ServeContent, Inv, TypeOK, Reader
<1>2. part.start \in Nat /\ part.want \in Nat
  BY <1>1 DEF Parts
<1>3. /\ f \in Reader /\ f.at = "serving" /\ f.chunkSize = fr[r].chunkSize
      /\ f.fileLength = fr[r].fileLength /\ f.offset = part.start
      /\ f.start = part.start /\ f.want = part.want
      /\ f.buf = <<>> /\ f.sent = <<>>
  <2> DEFINE g == SeekStart(SeekStart(SeekEnd(fr[r], 0), 0), part.start)
  <2>1. /\ g \in Reader /\ g.chunkSize = fr[r].chunkSize
        /\ g.fileLength = fr[r].fileLength /\ g.offset = part.start
        /\ g.buf = <<>>
    <3> DEFINE end == SeekEnd(fr[r], 0)
               beginning == SeekStart(end, 0)
    <3>1. /\ end \in Reader /\ end.chunkSize = fr[r].chunkSize
          /\ end.fileLength = fr[r].fileLength
      BY <1>1, SeekingTheEnd
    <3> HIDE DEF end
    <3>2. /\ beginning \in Reader /\ beginning.chunkSize = fr[r].chunkSize
          /\ beginning.fileLength = fr[r].fileLength
      BY <3>1, Seeking
    <3>3. g = SeekStart(beginning, part.start)
      BY DEF end
    <3> HIDE DEF beginning, g
    <3> QED
      BY <1>2, <3>2, <3>3, Seeking
  <2>2. f = Announced(g, part.start, part.want)
    BY DEF Announced
  <2> HIDE DEF f, g
  <2>3. /\ f \in Reader /\ f.at = "serving" /\ f.chunkSize = g.chunkSize
        /\ f.fileLength = g.fileLength /\ f.offset = g.offset
        /\ f.start = part.start /\ f.want = part.want
        /\ f.buf = <<>> /\ f.sent = <<>>
    BY <1>2, <2>1, <2>2, Announcing
  <2> QED
    BY <2>1, <2>3
<1>4. fr' = [fr EXCEPT ![r] = f]
      /\ UNCHANGED <<upload, size, written, buf, chunks, swept>>
  BY DEF ServeContent, writer
<1> HIDE DEF f
<1> QED
  BY <1>1, <1>3, <1>4, PartBegins

LEMMA NextRangeKeepsInv ==
  ASSUME Inv, NEW r \in Readers, NEW part \in Parts(fr[r].fileLength),
         NextRange(r, part)
  PROVE  Inv'
<1> DEFINE f == [SeekStart(fr[r], part.start) EXCEPT
                   !.start = part.start, !.want = part.want, !.sent = <<>>]
<1>1. fr[r] \in Reader /\ fr[r].at = "serving" /\ fr[r].fileLength \in Nat
  BY DEF NextRange, Inv, TypeOK, Reader
<1>2. part.start \in Nat /\ part.want \in Nat
  BY <1>1 DEF Parts
<1>3. /\ f \in Reader /\ f.at = "serving" /\ f.chunkSize = fr[r].chunkSize
      /\ f.fileLength = fr[r].fileLength /\ f.offset = part.start
      /\ f.start = part.start /\ f.want = part.want
      /\ f.buf = <<>> /\ f.sent = <<>>
  <2> DEFINE g == SeekStart(fr[r], part.start)
  <2>1. /\ g \in Reader /\ g.at = "serving" /\ g.chunkSize = fr[r].chunkSize
        /\ g.fileLength = fr[r].fileLength /\ g.offset = part.start
        /\ g.buf = <<>>
    BY <1>1, <1>2, Seeking
  <2>2. f = Announced(g, part.start, part.want)
    BY <2>1 DEF Announced, Reader
  <2> HIDE DEF f, g
  <2>3. /\ f \in Reader /\ f.at = "serving" /\ f.chunkSize = g.chunkSize
        /\ f.fileLength = g.fileLength /\ f.offset = g.offset
        /\ f.start = part.start /\ f.want = part.want
        /\ f.buf = <<>> /\ f.sent = <<>>
    BY <1>2, <2>1, <2>2, Announcing
  <2> QED
    BY <2>1, <2>3
<1>4. fr' = [fr EXCEPT ![r] = f]
      /\ UNCHANGED <<upload, size, written, buf, chunks, swept>>
  BY DEF NextRange, writer
<1> HIDE DEF f
<1> QED
  BY <1>1, <1>3, <1>4, PartBegins

\* What is left of a sequence of bytes when the first k are gone.
LEMMA Remainder ==
  ASSUME NEW c \in Seq(Nat), NEW k \in 0..Len(c)
  PROVE  /\ SubSeq(c, k + 1, Len(c)) \in Seq(Nat)
         /\ Len(SubSeq(c, k + 1, Len(c))) = Len(c) - k
         /\ \A i \in 1..Len(c) - k : SubSeq(c, k + 1, Len(c))[i] = c[k + i]
<1> DEFINE b == SubSeq(c, k + 1, Len(c))
<1>1. Len(c) \in Nat /\ k \in Nat /\ k <= Len(c)
  BY LenProperties
<1>2. \A i \in k + 1..Len(c) : c[i] \in Nat
  BY <1>1, ElementOfSeq
<1>3. k + 1 \in Int /\ Len(c) \in Int
  BY <1>1
<1>4. /\ b \in Seq(Nat)
      /\ Len(b) = IF k + 1 <= Len(c) THEN Len(c) - (k + 1) + 1 ELSE 0
      /\ \A i \in 1..Len(c) - (k + 1) + 1 : b[i] = c[k + 1 + i - 1]
  BY <1>2, <1>3, SubSeqProperties
<1> HIDE DEF b
<1>5. Len(b) = Len(c) - k
  BY <1>1, <1>4
<1>6. ASSUME NEW i \in 1..Len(c) - k
      PROVE  b[i] = c[k + i]
  <2>1. k + 1 + i - 1 = k + i /\ i \in 1..Len(c) - (k + 1) + 1
    BY <1>1
  <2> QED
    BY <1>4, <2>1
<1> QED
  BY <1>4, <1>5, <1>6 DEF b

\* Bytes move from the buffer to the client.
LEMMA ReadBufferKeepsInv ==
  ASSUME Inv, NEW r \in Readers, NEW n \in 1..Len(fr[r].buf), ReadBuffer(r, n)
  PROVE  Inv'
<1> DEFINE g == fr[r]
           s == g.sent \o SubSeq(g.buf, 1, n)
           b == SubSeq(g.buf, n + 1, Len(g.buf))
           f == [g EXCEPT !.sent = s, !.buf = b]
<1>1. /\ g \in Reader /\ g.at = "serving" /\ Measured(g) /\ Positioned(g)
      /\ fr' = [fr EXCEPT ![r] = f]
      /\ UNCHANGED <<upload, size, written, buf, chunks, swept>>
  BY DEF ReadBuffer, Inv, TypeOK, writer
<1> HIDE DEF f
<1>2. /\ g.sent \in Seq(Nat) /\ g.buf \in Seq(Nat) /\ g.start \in Nat
      /\ Len(g.sent) \in Nat /\ Len(g.buf) \in Nat /\ n <= Len(g.buf)
      /\ n \in Nat \ {0}
  BY <1>1, LenProperties DEF Reader
<1> HIDE DEF g
<1>3. \A i \in 1..Len(g.buf) : g.buf[i] \in Nat
  BY <1>2, ElementOfSeq
<1>4. /\ SubSeq(g.buf, 1, n) \in Seq(Nat) /\ Len(SubSeq(g.buf, 1, n)) = n
      /\ \A i \in 1..n : SubSeq(g.buf, 1, n)[i] = g.buf[i]
  <2>1. \A i \in 1..n : g.buf[i] \in Nat
    BY <1>2, <1>3
  <2> QED
    BY <1>2, <2>1, SubSeqProperties
<1>5. /\ s \in Seq(Nat) /\ Len(s) = Len(g.sent) + n
      /\ \A i \in 1..Len(g.sent) + n :
           s[i] = IF i <= Len(g.sent) THEN g.sent[i] ELSE g.buf[i - Len(g.sent)]
  <2> DEFINE a == SubSeq(g.buf, 1, n)
  <2>1. /\ s \in Seq(Nat) /\ Len(s) = Len(g.sent) + n
        /\ \A i \in 1..Len(g.sent) + n :
             s[i] = IF i <= Len(g.sent) THEN g.sent[i] ELSE a[i - Len(g.sent)]
    <3>1. a \in Seq(Nat) /\ Len(a) = n /\ s = g.sent \o a
      BY <1>4
    <3> HIDE DEF a, s
    <3>2. /\ s \in Seq(Nat) /\ Len(s) = Len(g.sent) + Len(a)
          /\ \A i \in 1..Len(g.sent) + Len(a) :
               s[i] = IF i <= Len(g.sent) THEN g.sent[i] ELSE a[i - Len(g.sent)]
      BY <1>2, <3>1, ConcatProperties
    <3> QED
      BY <3>1, <3>2
  <2>2. /\ Len(g.sent) \in Nat /\ n \in Nat
        /\ \A i \in 1..n : a[i] = g.buf[i]
    BY <1>2, <1>4
  <2> HIDE DEF a, s
  <2>3. ASSUME NEW i \in 1..Len(g.sent) + n, i > Len(g.sent)
        PROVE  a[i - Len(g.sent)] = g.buf[i - Len(g.sent)]
    <3>1. i - Len(g.sent) \in 1..n
      BY <2>2, <2>3
    <3> QED
      BY <2>2, <3>1
  <2> QED
    BY <2>1, <2>2, <2>3
<1>6. /\ b \in Seq(Nat) /\ Len(b) = Len(g.buf) - n
      /\ \A i \in 1..Len(g.buf) - n : b[i] = g.buf[n + i]
  <2>1. n \in 0..Len(g.buf)
    BY <1>2
  <2> QED
    BY <1>2, <2>1, Remainder
<1> HIDE DEF s, b
<1>7. /\ f \in Reader /\ f.at = "serving" /\ f.chunkSize = g.chunkSize
      /\ f.fileLength = g.fileLength /\ f.offset = g.offset
      /\ f.start = g.start /\ f.want = g.want /\ f.sent = s /\ f.buf = b
  BY <1>1, <1>5, <1>6 DEF Reader, f
<1>8. Measured(f)
  BY <1>1, <1>7 DEF Measured
<1>9. Positioned(f)
  <2>1. /\ g.offset <= g.fileLength /\ g.start + g.want <= g.fileLength
        /\ ~swept =>
             /\ g.offset = g.start + Len(g.sent) + Len(g.buf)
             /\ \A j \in 1..Len(g.buf) : g.buf[j] = g.start + Len(g.sent) + j - 1
             /\ \A j \in 1..Len(g.sent) : g.sent[j] = g.start + j - 1
        /\ ~(swept /\ g.start = 0)
    BY <1>1, <1>2 DEF Positioned
  <2>2. ASSUME ~swept
        PROVE  /\ g.offset = g.start + Len(s) + Len(b)
               /\ \A j \in 1..Len(b) : b[j] = g.start + Len(s) + j - 1
               /\ \A j \in 1..Len(s) : s[j] = g.start + j - 1
    <3> DEFINE l == Len(g.sent)
               m == Len(g.buf)
    <3>1. /\ l \in Nat /\ m \in Nat /\ g.start \in Nat /\ n \in 1..m
          /\ Len(s) = l + n /\ Len(b) = m - n
          /\ g.offset = g.start + l + m
      BY <1>2, <1>5, <1>6, <2>1, <2>2
    <3>2. /\ \A j \in 1..m : g.buf[j] = g.start + l + j - 1
          /\ \A j \in 1..l : g.sent[j] = g.start + j - 1
          /\ \A j \in 1..m - n : b[j] = g.buf[n + j]
          /\ \A j \in 1..l + n : s[j] = IF j <= l THEN g.sent[j] ELSE g.buf[j - l]
      BY <1>5, <1>6, <2>1, <2>2
    <3> HIDE DEF l, m
    <3>3. ASSUME NEW j \in 1..m - n
          PROVE  b[j] = g.start + (l + n) + j - 1
      <4>1. n + j \in 1..m /\ j \in Nat
        BY <3>1
      <4>2. b[j] = g.start + l + (n + j) - 1
        BY <3>2, <4>1
      <4> QED
        BY <3>1, <4>1, <4>2
    <3>4. ASSUME NEW j \in 1..l + n
          PROVE  s[j] = g.start + j - 1
      <4>1. CASE j <= l
        <5>1. j \in 1..l
          BY <3>1, <4>1
        <5> QED
          BY <3>2, <4>1, <5>1
      <4>2. CASE ~(j <= l)
        <5>1. j - l \in 1..m /\ j \in Nat
          BY <3>1, <4>2
        <5>2. s[j] = g.start + l + (j - l) - 1
          BY <3>2, <4>2, <5>1
        <5> QED
          BY <3>1, <5>1, <5>2
      <4> QED
        BY <4>1, <4>2
    <3> QED
      BY <3>1, <3>3, <3>4
  <2> QED
    BY <1>7, <2>1, <2>2 DEF Positioned
<1> QED
  BY <1>1, <1>7, <1>8, <1>9, ReaderMoves

\* A row that is followed by others is a whole chunk.
LEMMA OnlyTheLastIsShort ==
  ASSUME Inv, upload = "stored", NEW l, IsLast(l), NEW i \in DOMAIN chunks, i < l
  PROVE  Len(chunks[i]) = ChunkSize /\ Base(i) + ChunkSize <= Base(l)
<1>1. /\ l \in DOMAIN chunks /\ l \in Nat /\ Base(l) + Len(chunks[l]) = size
  BY LastRow
<1>2. /\ i \in Nat /\ Base(i) \in Nat /\ Base(l) \in Nat /\ ChunkSize \in Nat
      /\ Base(i) + ChunkSize <= Base(l)
  BY <1>1, Numbers, Bases
<1>3. /\ Len(chunks[l]) \in 1..ChunkSize /\ Len(chunks[i]) \in 1..ChunkSize
      /\ (Len(chunks[i]) = ChunkSize \/ Base(i) + Len(chunks[i]) = size)
  BY <1>1 DEF Inv, RowsHoldFile
<1> QED
  BY <1>1, <1>2, <1>3

\* Where populateBuffer reads is within the row, and the row ends within what
\* the reader takes for the file; unless a purge has met the upload it is the
\* place of the offset.
LEMMA ReadingFits ==
  ASSUME Inv, NEW r \in Readers, MustPopulate(fr[r]),
         ChunkIndex(fr[r]) \in DOMAIN chunks
  PROVE  LET f == fr[r]
             i == ChunkIndex(f)
             n == Len(chunks[i])
         IN  /\ f.offset \in Nat /\ n \in 1..ChunkSize /\ i \in Nat
             /\ ReadStart(f) \in 0..n - 1
             /\ f.offset + (n - ReadStart(f)) <= f.fileLength
             /\ ~swept => Base(i) + ReadStart(f) = f.offset
             /\ swept => f.offset # 0
<1> DEFINE f == fr[r]
           o == f.offset
           cs == f.chunkSize
           fl == f.fileLength
           i == ChunkIndex(f)
           rs == ReadStart(f)
           n == Len(chunks[i])
<1>1. /\ f \in Reader /\ Measured(f) /\ Positioned(f) /\ f.at = "serving"
      /\ o # fl /\ i \in DOMAIN chunks
  BY DEF MustPopulate, Inv, TypeOK
<1>2. /\ upload \in {"stored", "removed"} /\ cs \in 1..ChunkSize /\ o <= fl
      /\ o \in Nat /\ fl \in Nat
  BY <1>1 DEF Measured, Positioned, Reader
<1>3. PICK k \in Nat : IsFirst(k) /\ cs = Len(chunks[k])
  BY <1>1 DEF Measured
<1>4. PICK l \in Nat : IsLast(l) /\ fl = FileLength(cs, l)
  BY <1>1 DEF Measured
<1>5. /\ k \in DOMAIN chunks /\ k <= i /\ l \in DOMAIN chunks /\ i <= l
  BY <1>1, <1>3, <1>4 DEF IsFirst, IsLast
<1>6. /\ upload = "stored" /\ ~swept => k = 0
      /\ Base(l) + Len(chunks[l]) = size
      /\ upload = "stored"
  BY <1>2, <1>3, <1>4, FirstRow, LastRow
<1>7. /\ ChunkSize \in Nat \ {0} /\ n \in 1..ChunkSize
      /\ Len(chunks[l]) \in 1..ChunkSize
  BY <1>1, <1>5, Numbers DEF Inv, RowsHoldFile
<1>8. /\ i \in Nat /\ rs \in 0..cs - 1 /\ o = cs * i + rs
  <2>1. o \div cs = i /\ o % cs = rs
    BY DEF ChunkIndex, ReadStart
  <2>2. cs \in Nat \ {0}
    BY <1>2, <1>7
  <2> HIDE DEF o, cs, i, rs
  <2> QED
    BY <1>2, <2>1, <2>2, Division
<1>9. fl = cs * l + Len(chunks[l])
  BY <1>4 DEF FileLength
<1>10. swept => o # 0
  <2>1. ASSUME NEW a \in Nat \ {0}, NEW b \in Nat, NEW c \in Nat, a * b + c = 0
        PROVE  b = 0
    <3>1. a * b \in Nat /\ (b # 0 => a * b >= a)
      <4>1. ASSUME b # 0 PROVE a * b >= a
        <5>1. PICK d \in Nat : b = d + 1
          BY <4>1
        <5>2. a * b = a * d + a /\ a * d \in Nat
          BY <5>1
        <5> QED
          BY <5>2
      <4> QED
        BY <4>1
    <3> QED
      BY <2>1, <3>1
  <2>2. o = 0 => i = 0
    <3>1. cs \in Nat \ {0} /\ rs \in Nat
      BY <1>2, <1>7, <1>8
    <3> HIDE DEF o, cs, i, rs
    <3> QED
      BY <1>8, <2>1, <3>1
  <2>3. swept => 0 \notin DOMAIN chunks
    BY DEF Inv, NothingMissing
  <2> QED
    BY <1>1, <2>2, <2>3
<1> HIDE DEF f, o, cs, fl, i, rs, n
<1>11. CASE k = l
  <2>1. i = k /\ i = l /\ n = cs
    BY <1>3, <1>5, <1>8, <1>11 DEF n
  <2>2. fl = cs * i + cs
    BY <1>9, <2>1, <1>3
  <2>3. cs * i \in Nat
    BY <1>2, <1>7, <1>8
  <2>4. o + (n - rs) <= fl /\ rs \in 0..n - 1
    BY <1>2, <1>7, <1>8, <2>1, <2>2, <2>3
  <2>5. ~swept => Base(i) + rs = o
    <3>1. i = 0 => Base(i) = 0 /\ cs * i = 0
      BY <1>2, <1>7, Bases
    <3> QED
      BY <1>6, <1>8, <2>1, <3>1
  <2> QED
    BY <1>2, <1>7, <1>8, <1>10, <2>4, <2>5 DEF f, o, fl, i, rs, n
<1>12. CASE k # l
  <2>1. cs = ChunkSize
    <3>1. k < l
      BY <1>5, <1>8, <1>12
    <3> QED
      BY <1>3, <1>4, <1>5, <1>6, <3>1, OnlyTheLastIsShort
  <2>2. /\ o = Base(i) + rs /\ fl = Base(l) + Len(chunks[l])
        /\ Base(i) \in Nat /\ Base(l) \in Nat
    BY <1>8, <1>9, <2>1, Bases
  <2>3. CASE i < l
    <3>1. n = ChunkSize /\ Base(i) + ChunkSize <= Base(l)
      BY <1>1, <1>4, <1>6, <2>3, OnlyTheLastIsShort DEF n
    <3>2. rs \in 0..n - 1 /\ o + (n - rs) <= fl
      <4>1. rs \in Nat /\ n \in Nat /\ rs <= n - 1 /\ Len(chunks[l]) \in Nat
        BY <1>7, <1>8, <2>1, <3>1
      <4>2. o + (n - rs) = Base(i) + n
        BY <2>2, <4>1
      <4> QED
        BY <1>7, <2>2, <3>1, <4>1, <4>2
    <3> QED
      BY <1>2, <1>7, <1>8, <1>10, <2>2, <3>2 DEF f, o, fl, i, rs, n
  <2>4. CASE i = l
    <3>1. n = Len(chunks[l]) /\ fl = Base(i) + n
      BY <2>2, <2>4 DEF n
    <3>2. rs \in 0..n - 1 /\ o + (n - rs) <= fl
      <4>1. rs \in Nat /\ n \in Nat
        BY <1>2, <1>7, <1>8
      <4>2. o + (n - rs) = Base(i) + n
        BY <2>2, <4>1
      <4>3. rs < n
        <5>1. o <= fl /\ o # fl
          BY <1>1, <1>2
        <5> QED
          BY <2>2, <3>1, <4>1, <5>1
      <4> QED
        BY <2>2, <3>1, <4>1, <4>2, <4>3
    <3> QED
      BY <1>2, <1>7, <1>8, <1>10, <2>2, <3>2 DEF f, o, fl, i, rs, n
  <2> QED
    BY <1>5, <1>8, <2>3, <2>4
<1> QED
  BY <1>11, <1>12

\* A row, or what is left of it, becomes the buffer.
LEMMA PopulateBufferKeepsInv ==
  ASSUME Inv, NEW r \in Readers, PopulateBuffer(r)
  PROVE  Inv'
<1> DEFINE g == fr[r]
           i == ChunkIndex(g)
           rs == ReadStart(g)
           n == Len(chunks[i])
           b == SubSeq(chunks[i], rs + 1, n)
           o == g.offset + (n - rs)
           f == [g EXCEPT !.buf = b, !.offset = o]
<1>1. /\ g \in Reader /\ Measured(g) /\ Positioned(g)
      /\ MustPopulate(g) /\ i \in DOMAIN chunks
      /\ fr' = [fr EXCEPT ![r] = f]
      /\ UNCHANGED <<upload, size, written, buf, chunks, swept>>
  BY DEF PopulateBuffer, Inv, TypeOK, writer
<1>2. /\ g.offset \in Nat /\ n \in 1..ChunkSize /\ i \in Nat
      /\ rs \in 0..n - 1
      /\ o <= g.fileLength
      /\ ~swept => Base(i) + rs = g.offset
      /\ swept => g.offset # 0
  BY <1>1, ReadingFits
<1>3. /\ chunks[i] \in Seq(Nat) /\ n \in Nat /\ rs \in Nat
      /\ \A j \in 1..n : chunks[i][j] = Base(i) + j - 1
      /\ Base(i) \in Nat
  <2>1. n \in Nat /\ chunks[i] \in Seq(Nat)
    BY <1>1, Numbers
  <2>2. \A j \in 1..n : chunks[i][j] = Base(i) + j - 1
    BY <1>1 DEF Inv, RowsHoldFile
  <2>3. Base(i) \in Nat
    BY <1>2, Bases
  <2>4. rs \in Nat
    <3> HIDE DEF rs, n
    <3> QED
      BY <1>2, <2>1
  <2> QED
    BY <2>1, <2>2, <2>3, <2>4
<1>4. g.at = "serving" /\ g.buf = <<>> /\ Len(g.buf) = 0
  BY <1>1 DEF MustPopulate
<1>5. /\ g.start \in Nat /\ Len(g.sent) \in Nat
  BY <1>1, LenProperties DEF Reader
<1> DEFINE c == chunks[i]
<1>6. /\ c \in Seq(Nat) /\ n = Len(c)
      /\ \A j \in 1..n : c[j] = Base(i) + j - 1
      /\ b = SubSeq(c, rs + 1, n)
  BY <1>3
<1> HIDE DEF g, i, rs, n, c, b, o, f
<1>7. /\ b \in Seq(Nat) /\ Len(b) = n - rs
      /\ \A j \in 1..n - rs : b[j] = Base(i) + (rs + j) - 1
  <2>1. rs \in 0..Len(c)
    BY <1>2, <1>3, <1>6
  <2>2. /\ b \in Seq(Nat) /\ Len(b) = n - rs
        /\ \A j \in 1..n - rs : b[j] = c[rs + j]
    <3>1. b = SubSeq(c, rs + 1, Len(c)) /\ c \in Seq(Nat)
      BY <1>6
    <3>2. /\ b \in Seq(Nat) /\ Len(b) = Len(c) - rs
          /\ \A j \in 1..Len(c) - rs : b[j] = c[rs + j]
      BY <2>1, <3>1, Remainder, Zenon
    <3> QED
      BY <1>6, <3>2
  <2>3. \A j \in 1..n - rs : rs + j \in 1..n
    BY <1>2, <1>3
  <2> QED
    BY <1>6, <2>2, <2>3
<1>8. o = g.offset + (n - rs) /\ o \in Nat
  BY <1>2, <1>3 DEF o
<1>9. /\ f \in Reader /\ f.at = "serving" /\ f.chunkSize = g.chunkSize
      /\ f.fileLength = g.fileLength /\ f.offset = o
      /\ f.start = g.start /\ f.want = g.want /\ f.sent = g.sent /\ f.buf = b
  BY <1>1, <1>4, <1>7, <1>8 DEF Reader, f
<1>10. Measured(f)
  BY <1>1, <1>4, <1>9 DEF Measured
<1>11. Positioned(f)
  <2>1. /\ g.start + g.want <= g.fileLength
        /\ ~swept =>
             /\ g.offset = g.start + Len(g.sent) + Len(g.buf)
             /\ \A j \in 1..Len(g.sent) : g.sent[j] = g.start + j - 1
        /\ swept /\ g.start = 0 => g.offset = 0
    BY <1>1, <1>4 DEF Positioned
  <2>2. ASSUME ~swept
        PROVE  /\ o = g.start + Len(g.sent) + Len(b)
               /\ \A j \in 1..Len(b) : b[j] = g.start + Len(g.sent) + j - 1
    <3>1. Base(i) + rs = g.start + Len(g.sent)
      BY <1>2, <1>4, <1>5, <2>1, <2>2
    <3>2. g.offset = g.start + Len(g.sent)
      BY <1>4, <1>5, <2>1, <2>2
    <3>3. ASSUME NEW j \in 1..n - rs
          PROVE  b[j] = g.start + Len(g.sent) + j - 1
      <4>1. b[j] = Base(i) + (rs + j) - 1 /\ j \in Nat
        BY <1>2, <1>3, <1>7
      <4> QED
        BY <1>3, <1>5, <3>1, <4>1
    <3> QED
      BY <1>7, <1>8, <3>2, <3>3
  <2>3. ~(swept /\ g.start = 0)
    BY <1>2, <2>1
  <2> QED
    BY <1>2, <1>9, <2>1, <2>2, <2>3 DEF Positioned
<1> QED
  BY <1>1, <1>9, <1>10, <1>11, ReaderMoves

-----------------------------------------------------------------------------
LEMMA StutteringKeepsInv ==
  ASSUME Inv, UNCHANGED vars
  PROVE  Inv'
<1>1. /\ TypeOK' /\ WriterState' /\ BufferHoldsRest' /\ RowsHoldFile'
      /\ NothingMissing'
  BY DEF vars, writer, Inv, TypeOK, WriterState, BufferHoldsRest, RowsHoldFile,
         NothingMissing, Flushed, DstStart, FlushIndex, Base
<1>2. \A r \in Readers : (Measured(fr[r]) /\ Positioned(fr[r]))'
  BY DEF vars, writer, Inv, Measured, Positioned, IsFirst, IsLast, FileLength
<1> QED
  BY <1>1, <1>2 DEF Inv

LEMMA WriteKeepsInv ==
  ASSUME Inv, NEW n \in 1..ChunkSize, Write(n)
  PROVE  Inv'
BY WriteNoFlush, WriteAndFlush

LEMMA CloseKeepsInv ==
  ASSUME Inv, Close
  PROVE  Inv'
BY CloseNoFlush, CloseAndFlush

LEMMA WriterStepKeepsInv ==
  ASSUME Inv, WriterStep
  PROVE  Inv'
BY NewWriterKeepsInv, WriteKeepsInv, CloseKeepsInv, UploadFailsKeepsInv,
   DeleteOrphanedRowsKeepsInv, DeleteEntryKeepsInv DEF WriterStep

LEMMA ReaderStepKeepsInv ==
  ASSUME Inv, NEW r \in Readers, ReaderStep(r)
  PROVE  Inv'
BY GetChunkSizeKeepsInv, GetFileLengthKeepsInv, ReadingEnds,
   ServeContentKeepsInv, NextRangeKeepsInv, ReadBufferKeepsInv,
   PopulateBufferKeepsInv DEF ReaderStep

\* Every step of writer, purge and readers preserves the invariant.
LEMMA NextKeepsInv ==
  ASSUME Inv, [Next]_vars
  PROVE  Inv'
<1>1. CASE WriterStep
  BY <1>1, WriterStepKeepsInv
<1>2. CASE InsertEntry
  BY <1>2, InsertEntryKeepsInv
<1>3. ASSUME NEW r \in Readers, ReadEntryFile(r) \/ ReaderStep(r)
      PROVE  Inv'
  BY <1>3, ReadEntryFileKeepsInv, ReaderStepKeepsInv
<1>4. CASE UNCHANGED vars
  BY <1>4, StutteringKeepsInv
<1> QED
  BY <1>1, <1>2, <1>3, <1>4 DEF Next

LEMMA Invariance == Spec => []Inv
<1>1. Inv /\ [Next]_vars => Inv'
  BY NextKeepsInv
<1> QED
  BY InitInv, <1>1, PTL DEF Spec

-----------------------------------------------------------------------------
\* What the invariant says of bytes, of whole files and of populateBuffer.
LEMMA InvDelivers == Inv => DeliveredIsFile
<1> SUFFICES ASSUME Inv, NEW r \in Readers, fr[r].at = "serving", ~swept
             PROVE  /\ fr[r].start + fr[r].want <= size
                    /\ \A i \in 1..Len(fr[r].sent) :
                         fr[r].sent[i] = fr[r].start + i - 1
  BY DEF DeliveredIsFile
<1> QED
  BY DEF Inv, Measured, Positioned

LEMMA InvWholeFile == Inv => WholeFileOrError
<1> SUFFICES ASSUME Inv, NEW r \in Readers, fr[r].at = "serving",
                    fr[r].start = 0
             PROVE  /\ \A i \in 1..Len(fr[r].sent) : fr[r].sent[i] = i - 1
                    /\ Len(fr[r].sent) > 0 => fr[r].fileLength = size
  BY DEF WholeFileOrError
<1>1. Measured(fr[r]) /\ Positioned(fr[r]) /\ fr[r] \in Reader
  BY DEF Inv, TypeOK
<1>2. CASE swept
  <2>1. fr[r].sent = <<>> /\ Len(fr[r].sent) = 0
    BY <1>1, <1>2 DEF Positioned
  <2> QED
    BY <2>1
<1>3. CASE ~swept
  <2>1. \A i \in 1..Len(fr[r].sent) : fr[r].sent[i] = 0 + i - 1
    BY <1>1, <1>3 DEF Positioned
  <2>2. fr[r].fileLength = size
    BY <1>1, <1>3 DEF Measured
  <2>3. Len(fr[r].sent) \in Nat
    BY <1>1, LenProperties DEF Reader
  <2> QED
    BY <2>1, <2>2, <2>3
<1> QED
  BY <1>2, <1>3

LEMMA InvAdvances == Inv => PopulateAdvances
<1> SUFFICES ASSUME Inv, NEW r \in Readers, MustPopulate(fr[r]),
                    ChunkIndex(fr[r]) \in DOMAIN chunks
             PROVE  ReadStart(fr[r]) < Len(chunks[ChunkIndex(fr[r])])
  BY DEF PopulateAdvances
<1>1. /\ Len(chunks[ChunkIndex(fr[r])]) \in Nat
      /\ ReadStart(fr[r]) \in 0..Len(chunks[ChunkIndex(fr[r])]) - 1
  BY ReadingFits, Numbers
<1> QED
  BY <1>1

-----------------------------------------------------------------------------
(***************************************************************************)
(* The refinement.  Only what the client sees changes a response: a part   *)
(* is announced, bytes are sent, it ends.  Everything else stutters.       *)
(***************************************************************************)

\* The steps of a reader that the client does not see.
LEMMA Unseen ==
  ASSUME TypeOK, NEW r \in Readers, NEW f, fr' = [fr EXCEPT ![r] = f],
         AbstractResponse(f) = AbstractResponse(fr[r]),
         UNCHANGED <<upload, size, swept>>
  PROVE  UNCHANGED Plain!vars
<1>1. \A q \in Readers : fr'[q] = IF q = r THEN f ELSE fr[q]
  BY DEF TypeOK
<1>2. AbstractResponses' = AbstractResponses
  BY <1>1 DEF AbstractResponses, AbstractResponse
<1>3. AbstractLength' = AbstractLength
  BY DEF AbstractLength
<1> QED
  BY <1>2, <1>3 DEF Plain!vars

\* Those that it sees.
LEMMA Seen ==
  ASSUME TypeOK, NEW r \in Readers, NEW f, fr' = [fr EXCEPT ![r] = f],
         UNCHANGED <<upload, size, swept>>
  PROVE  /\ AbstractResponses' = [AbstractResponses EXCEPT ![r] = AbstractResponse(f)]
         /\ AbstractResponses[r] = AbstractResponse(fr[r])
         /\ AbstractLength' = AbstractLength
         /\ AbstractResponses \in
              [Readers -> {AbstractResponse(fr[q]) : q \in Readers}]
<1>1. \A q \in Readers : fr'[q] = IF q = r THEN f ELSE fr[q]
  BY DEF TypeOK
<1> QED
  BY <1>1 DEF AbstractResponses, AbstractResponse, AbstractLength

\* What AbstractResponse gives.
Responding(at, of, start, want, sent) ==
  [at |-> at, of |-> of, start |-> start, want |-> want, sent |-> sent]

LEMMA FoundUpdate ==
  ASSUME NEW r \in Readers, NEW e, NEW l,
         AbstractResponses[r] = Responding("none", 0, 0, 0, e)
  PROVE  [AbstractResponses EXCEPT ![r].at = "found", ![r].of = l] =
           [AbstractResponses EXCEPT ![r] = Responding("found", l, 0, 0, e)]
<1> DEFINE A == AbstractResponses
           V == {AbstractResponse(fr[q]) : q \in Readers}
<1>1. A \in [Readers -> V]
  BY DEF AbstractResponses
<1>2. PICK x : x = A[r]
  OBVIOUS
<1> HIDE DEF A, V
<1>3. PICK g : g = [x EXCEPT !.at = "found", !.of = l]
  OBVIOUS
<1>4. [A EXCEPT ![r].at = "found", ![r].of = l] = [A EXCEPT ![r] = g]
  BY <1>1, <1>2, <1>3
<1>5. x = Responding("none", 0, 0, 0, e)
  BY <1>2 DEF A
<1>6. g = Responding("found", l, 0, 0, e)
  BY <1>3, <1>5 DEF Responding
<1> QED
  BY <1>4, <1>6 DEF A

LEMMA SendUpdate ==
  ASSUME NEW r \in Readers, NEW d,
         AbstractResponses[r] =
           Responding("sending", size, fr[r].start, fr[r].want, fr[r].sent)
  PROVE  [AbstractResponses EXCEPT ![r].sent = d] =
           [AbstractResponses EXCEPT ![r] =
              Responding("sending", size, fr[r].start, fr[r].want, d)]
<1> DEFINE A == AbstractResponses
           V == {AbstractResponse(fr[q]) : q \in Readers}
<1>1. A \in [Readers -> V]
  BY DEF AbstractResponses
<1>2. PICK x : x = A[r]
  OBVIOUS
<1> HIDE DEF A, V
<1>3. PICK g : g = [x EXCEPT !.sent = d]
  OBVIOUS
<1>4. [A EXCEPT ![r].sent = d] = [A EXCEPT ![r] = g]
  BY <1>1, <1>2, <1>3
<1>5. x = Responding("sending", size, fr[r].start, fr[r].want, fr[r].sent)
  BY <1>2 DEF A
<1>6. g = Responding("sending", size, fr[r].start, fr[r].want, d)
  BY <1>3, <1>5 DEF Responding
<1> QED
  BY <1>4, <1>6 DEF A

LEMMA InitRefines == Init => Plain!Init
<1> SUFFICES ASSUME Init PROVE Plain!Init
  OBVIOUS
<1>1. AbstractLength = NULL
  BY DEF Init, AbstractLength
<1>2. \A r \in Readers : AbstractResponse(fr[r]) = Plain!NoResponse
  BY DEF Init, AbstractResponse, NoReader, Plain!NoResponse
<1> QED
  BY <1>1, <1>2 DEF Plain!Init, AbstractResponses

\* Writer and purge work before there is a file to be read.
LEMMA WriterRefines ==
  ASSUME Inv, WriterStep \/ InsertEntry
  PROVE  [Plain!Next]_Plain!vars
<1>1. CASE upload \notin {"stored", "removed"} /\ upload' # "stored" /\ UNCHANGED fr
  <2>1. \A r \in Readers : AbstractResponse(fr[r])' = AbstractResponse(fr[r])
    BY <1>1 DEF Inv, Measured, AbstractResponse
  <2>2. AbstractResponses' = AbstractResponses
    BY <2>1 DEF AbstractResponses
  <2>3. AbstractLength' = AbstractLength
    BY <1>1 DEF AbstractLength
  <2> QED
    BY <2>2, <2>3 DEF Plain!vars
<1>2. CASE InsertEntry \/ DeleteEntry
  <2>1. UNCHANGED <<size, swept, fr>>
    BY <1>2 DEF InsertEntry, DeleteEntry, writer
  <2>2. AbstractResponses' = AbstractResponses
    BY <2>1 DEF AbstractResponses, AbstractResponse
  <2>3. CASE swept
    BY <2>1, <2>2, <2>3 DEF AbstractLength, Plain!vars
  <2>4. CASE ~swept /\ InsertEntry
    <3>1. upload = "closed" /\ upload' = "stored" /\ ~swept'
      BY <2>1, <2>4 DEF InsertEntry
    <3>2. size \in Nat \ {0}
      BY <3>1, Numbers DEF Inv, WriterState
    <3> QED
      BY <2>1, <2>2, <3>1, <3>2 DEF AbstractLength, Plain!Next, Plain!Store
  <2>5. CASE ~swept /\ DeleteEntry
    <3>1. upload = "stored" /\ upload' = "removed"
      BY <2>5 DEF DeleteEntry
    <3>2. size # NULL
      BY Numbers, NullAssumption
    <3> QED
      BY <2>2, <2>5, <3>1, <3>2 DEF AbstractLength, Plain!Next, Plain!Remove
  <2> QED
    BY <1>2, <2>3, <2>4, <2>5
<1>3. WriterStep => DeleteEntry \/
        (upload \notin {"stored", "removed"} /\ upload' # "stored" /\ UNCHANGED fr)
  BY DEF WriterStep, NewWriter, Write, Close, UploadFails, DeleteOrphanedRows
<1> QED
  BY <1>1, <1>2, <1>3

\* A visitor's goroutine finds the file.
LEMMA ReadEntryFileRefines ==
  ASSUME Inv, NEW r \in Readers, ReadEntryFile(r)
  PROVE  [Plain!Next]_Plain!vars
<1> DEFINE f == [fr[r] EXCEPT !.at = "size"]
<1>1. /\ TypeOK /\ fr[r] \in Reader /\ fr[r].at = "idle" /\ upload = "stored"
      /\ fr' = [fr EXCEPT ![r] = f] /\ UNCHANGED <<upload, size, swept>>
  BY DEF ReadEntryFile, GetEntryMetadata, Inv, TypeOK, writer
<1>2. f.at = "size"
  BY <1>1 DEF Reader
<1> HIDE DEF f
<1>3. CASE swept
  <2>1. AbstractResponse(f) = AbstractResponse(fr[r])
    BY <1>3 DEF AbstractResponse
  <2> QED
    BY <1>1, <2>1, Unseen
<1>4. CASE ~swept
  <2>1. /\ AbstractResponses' = [AbstractResponses EXCEPT ![r] = AbstractResponse(f)]
        /\ AbstractResponses[r] = AbstractResponse(fr[r])
        /\ AbstractLength' = AbstractLength
        /\ AbstractResponses \in
             [Readers -> {AbstractResponse(fr[q]) : q \in Readers}]
    BY <1>1, Seen
  <2>2. AbstractLength = size /\ size # NULL
    BY <1>1, <1>4, Numbers, NullAssumption DEF AbstractLength
  <2>3. /\ AbstractResponse(fr[r]) = Responding("none", 0, 0, 0, <<>>)
        /\ AbstractResponse(f) = Responding("found", size, 0, 0, <<>>)
    BY <1>1, <1>2, <1>4 DEF AbstractResponse, Responding
  <2>4. /\ AbstractResponses' =
             [AbstractResponses EXCEPT ![r].at = "found", ![r].of = AbstractLength]
        /\ AbstractResponses[r].at = "none"
    <3>1. PICK e : e = <<>>
      OBVIOUS
    <3>2. /\ AbstractResponses[r] = Responding("none", 0, 0, 0, e)
          /\ AbstractResponses' =
               [AbstractResponses EXCEPT ![r] = Responding("found", size, 0, 0, e)]
      BY <2>1, <2>3, <3>1
    <3>3. [AbstractResponses EXCEPT ![r].at = "found", ![r].of = size] =
            [AbstractResponses EXCEPT ![r] = Responding("found", size, 0, 0, e)]
      BY <3>2, FoundUpdate
    <3>4. AbstractResponses[r].at = "none"
      BY <3>2 DEF Responding
    <3> QED
      BY <2>2, <3>2, <3>3, <3>4
  <2>5. Plain!Find(r)
    BY <2>1, <2>2, <2>4 DEF Plain!Find
  <2> QED
    BY <2>5 DEF Plain!Next
<1> QED
  BY <1>3, <1>4

\* The queries of NewReader, and populateBuffer.
LEMMA QueriesRefine ==
  ASSUME Inv, NEW r \in Readers,
         GetChunkSize(r) \/ GetFileLength(r) \/ PopulateBuffer(r)
  PROVE  UNCHANGED Plain!vars
<1>1. TypeOK /\ fr[r] \in Reader /\ UNCHANGED <<upload, size, swept>>
  BY DEF GetChunkSize, GetFileLength, PopulateBuffer, Inv, TypeOK, writer
<1>2. CASE GetChunkSize(r)
  <2>1. PICK i \in DOMAIN chunks :
          fr' = [fr EXCEPT ![r].at = "length", ![r].chunkSize = Len(chunks[i])]
    BY <1>2 DEF GetChunkSize
  <2> DEFINE f == [fr[r] EXCEPT !.at = "length", !.chunkSize = Len(chunks[i])]
  <2>2. fr' = [fr EXCEPT ![r] = f]
    BY <2>1
  <2>3. AbstractResponse(f) = AbstractResponse(fr[r])
    BY <1>1, <1>2 DEF GetChunkSize, AbstractResponse, Reader
  <2> QED
    BY <1>1, <2>2, <2>3, Unseen
<1>3. CASE GetFileLength(r)
  <2>1. PICK l :
          fr' = [fr EXCEPT ![r].at = "ready", ![r].fileLength = l]
    BY <1>3 DEF GetFileLength
  <2> DEFINE f == [fr[r] EXCEPT !.at = "ready", !.fileLength = l]
  <2>2. fr' = [fr EXCEPT ![r] = f]
    BY <2>1
  <2>3. AbstractResponse(f) = AbstractResponse(fr[r])
    BY <1>1, <1>3 DEF GetFileLength, AbstractResponse, Reader
  <2> QED
    BY <1>1, <2>2, <2>3, Unseen
<1>4. CASE PopulateBuffer(r)
  <2>1. PICK b, o : fr' = [fr EXCEPT ![r].buf = b, ![r].offset = o]
    BY <1>4 DEF PopulateBuffer
  <2> DEFINE f == [fr[r] EXCEPT !.buf = b, !.offset = o]
  <2>2. fr' = [fr EXCEPT ![r] = f]
    BY <2>1
  <2>3. AbstractResponse(f) = AbstractResponse(fr[r])
    BY <1>1 DEF AbstractResponse, Reader
  <2> QED
    BY <1>1, <2>2, <2>3, Unseen
<1> QED
  BY <1>2, <1>3, <1>4

\* The response breaks off, or is complete.
LEMMA EndingRefines ==
  ASSUME Inv, NEW r \in Readers, NewReaderFails(r) \/ ServeContentReturns(r)
  PROVE  [Plain!Next]_Plain!vars
<1>1. /\ TypeOK /\ fr[r].at # "idle" /\ fr' = [fr EXCEPT ![r] = NoReader]
      /\ UNCHANGED <<upload, size, swept>>
  BY DEF NewReaderFails, ServeContentReturns, Inv, writer
<1>2. CASE swept
  <2>1. AbstractResponse(NoReader) = AbstractResponse(fr[r])
    BY <1>2 DEF AbstractResponse
  <2> QED
    BY <1>1, <2>1, Unseen
<1>3. CASE ~swept
  <2>1. /\ AbstractResponses' =
             [AbstractResponses EXCEPT ![r] = AbstractResponse(NoReader)]
        /\ AbstractResponses[r] = AbstractResponse(fr[r])
        /\ AbstractLength' = AbstractLength
        /\ AbstractResponses \in
             [Readers -> {AbstractResponse(fr[q]) : q \in Readers}]
    BY <1>1, Seen
  <2>2. AbstractResponse(NoReader) = Plain!NoResponse
    BY DEF AbstractResponse, NoReader, Plain!NoResponse
  <2>3. AbstractResponse(fr[r]).at # "none"
    BY <1>1, <1>3 DEF AbstractResponse
  <2>4. Plain!End(r)
    BY <2>1, <2>2, <2>3 DEF Plain!End
  <2> QED
    BY <2>4 DEF Plain!Next
<1> QED
  BY <1>2, <1>3

\* A part is announced, the first one or the next.
LEMMA PartRefines ==
  ASSUME Inv, NEW r \in Readers, NEW s \in Nat, NEW w \in Nat,
         s + w <= fr[r].fileLength,
         \/ fr[r].at = "ready"
         \/ fr[r].at = "serving" /\ Remaining(fr[r]) = 0,
         NEW f, f.at = "serving", f.start = s, f.want = w, f.sent = <<>>,
         fr' = [fr EXCEPT ![r] = f], UNCHANGED <<upload, size, swept>>
  PROVE  [Plain!Next]_Plain!vars
<1>1. TypeOK /\ Measured(fr[r]) /\ fr[r] \in Reader
  BY DEF Inv, TypeOK
<1>2. CASE swept
  <2>1. AbstractResponse(f) = AbstractResponse(fr[r])
    BY <1>2 DEF AbstractResponse
  <2> QED
    BY <1>1, <2>1, Unseen
<1>3. CASE ~swept
  <2>1. /\ AbstractResponses' = [AbstractResponses EXCEPT ![r] = AbstractResponse(f)]
        /\ AbstractResponses[r] = AbstractResponse(fr[r])
        /\ AbstractLength' = AbstractLength
        /\ AbstractResponses \in
             [Readers -> {AbstractResponse(fr[q]) : q \in Readers}]
    BY <1>1, Seen
  <2>2. PICK at, st, wa, se :
          /\ AbstractResponse(fr[r]) = Responding(at, size, st, wa, se)
          /\ at = "found" \/ (at = "sending" /\ Len(se) = wa)
    <3>1. CASE fr[r].at = "ready"
      BY <1>3, <3>1 DEF AbstractResponse, Responding
    <3>2. CASE fr[r].at = "serving" /\ Remaining(fr[r]) = 0
      <4>1. Len(fr[r].sent) = fr[r].want
        BY <1>1, <3>2, LenProperties DEF Remaining, Reader
      <4> QED
        BY <1>3, <3>2, <4>1 DEF AbstractResponse, Responding
    <3> QED
      BY <3>1, <3>2
  <2>3. PICK e : e = <<>>
    OBVIOUS
  <2>4. AbstractResponse(f) = Responding("sending", size, s, w, e)
    BY <1>3, <2>3 DEF AbstractResponse, Responding
  <2>5. size \in Nat /\ s + w <= size
    BY <1>1, <1>3, Numbers DEF Measured
  <2>6. AbstractResponses' =
          [AbstractResponses EXCEPT ![r].at = "sending", ![r].start = s,
                                    ![r].want = w, ![r].sent = <<>>]
    <3> DEFINE A == AbstractResponses
               V == {AbstractResponse(fr[q]) : q \in Readers}
    <3>1. A \in [Readers -> V] /\ A[r] = Responding(at, size, st, wa, se)
          /\ A' = [A EXCEPT ![r] = Responding("sending", size, s, w, e)]
      BY <2>1, <2>2, <2>4
    <3>2. PICK B : B = A'
      OBVIOUS
    <3>3. PICK x : x = A[r]
      OBVIOUS
    <3> HIDE DEF A, V
    <3>4. PICK g : g = [x EXCEPT !.at = "sending", !.start = s, !.want = w,
                                 !.sent = e]
      OBVIOUS
    <3>5. x = Responding(at, size, st, wa, se)
      BY <3>1, <3>3
    <3>6. g = Responding("sending", size, s, w, e)
      BY <3>4, <3>5 DEF Responding
    <3>7. B = [A EXCEPT ![r] = g]
      BY <3>1, <3>2, <3>6
    <3>8. B = [A EXCEPT ![r].at = "sending", ![r].start = s, ![r].want = w,
                        ![r].sent = e]
      BY <3>1, <3>3, <3>4, <3>7
    <3> QED
      BY <2>3, <3>2, <3>8 DEF A
  <2>7. /\ AbstractResponses[r].of = size
        /\ \/ AbstractResponses[r].at = "found"
           \/ /\ AbstractResponses[r].at = "sending"
              /\ Len(AbstractResponses[r].sent) = AbstractResponses[r].want
    BY <2>1, <2>2 DEF Responding
  <2>8. s \in 0..size /\ w \in 0..size
    BY <2>5
  <2>9. \E start, want \in 0..AbstractResponses[r].of :
          /\ start + want <= AbstractResponses[r].of
          /\ AbstractResponses' =
               [AbstractResponses EXCEPT ![r].at = "sending",
                                         ![r].start = start,
                                         ![r].want = want, ![r].sent = <<>>]
    <3>1. s + w <= AbstractResponses[r].of
      BY <2>5, <2>7
    <3>2. s \in 0..AbstractResponses[r].of
      BY <2>7, <2>8
    <3>3. w \in 0..AbstractResponses[r].of
      BY <2>7, <2>8
    <3> WITNESS s \in 0..AbstractResponses[r].of
    <3> WITNESS w \in 0..AbstractResponses[r].of
    <3> QED
      BY <2>6, <3>1
  <2>10. Plain!Announce(r)
    BY <2>1, <2>7, <2>9, Zenon DEF Plain!Announce
  <2> QED
    BY <2>10 DEF Plain!Next
<1> QED
  BY <1>2, <1>3

LEMMA ServeContentRefines ==
  ASSUME Inv, NEW r \in Readers, NEW part \in Parts(fr[r].fileLength),
         ServeContent(r, part)
  PROVE  [Plain!Next]_Plain!vars
<1>1. fr[r] \in Reader /\ fr[r].at = "ready" /\ fr[r].fileLength \in Nat
      /\ UNCHANGED <<upload, size, swept>>
  BY DEF ServeContent, Inv, TypeOK, Reader, writer
<1>2. /\ part.start \in Nat /\ part.want \in Nat
      /\ part.start + part.want <= fr[r].fileLength
  BY <1>1 DEF Parts
<1> DEFINE end == SeekEnd(fr[r], 0)
           beginning == SeekStart(end, 0)
           g == SeekStart(beginning, part.start)
<1>3. fr' = [fr EXCEPT ![r] = Announced(g, part.start, part.want)]
  BY DEF ServeContent, Announced
<1>4. g \in Reader /\ g.buf = <<>>
  <2>1. end \in Reader
    BY <1>1, SeekingTheEnd
  <2> HIDE DEF end
  <2>2. beginning \in Reader
    BY <2>1, Seeking
  <2> HIDE DEF beginning
  <2> QED
    BY <1>2, <2>2, Seeking
<1> HIDE DEF end, beginning, g
<1> DEFINE f == Announced(g, part.start, part.want)
<1>5. f.at = "serving" /\ f.start = part.start /\ f.want = part.want /\ f.sent = <<>>
  BY <1>2, <1>4, Announcing
<1>6. fr' = [fr EXCEPT ![r] = f]
  BY <1>3
<1> HIDE DEF f
<1> QED
  BY <1>1, <1>2, <1>5, <1>6, PartRefines

LEMMA NextRangeRefines ==
  ASSUME Inv, NEW r \in Readers, NEW part \in Parts(fr[r].fileLength),
         NextRange(r, part)
  PROVE  [Plain!Next]_Plain!vars
<1>1. /\ fr[r] \in Reader /\ fr[r].at = "serving" /\ Remaining(fr[r]) = 0
      /\ fr[r].fileLength \in Nat /\ UNCHANGED <<upload, size, swept>>
  BY DEF NextRange, Inv, TypeOK, Reader, writer
<1>2. /\ part.start \in Nat /\ part.want \in Nat
      /\ part.start + part.want <= fr[r].fileLength
  BY <1>1 DEF Parts
<1> DEFINE g == SeekStart(fr[r], part.start)
<1>3. g \in Reader /\ g.at = "serving" /\ g.buf = <<>>
  BY <1>1, <1>2, Seeking
<1>4. fr' = [fr EXCEPT ![r] = Announced(g, part.start, part.want)]
  <2>1. fr' = [fr EXCEPT ![r] = [g EXCEPT !.start = part.start,
                                          !.want = part.want, !.sent = <<>>]]
    BY DEF NextRange
  <2>2. [g EXCEPT !.start = part.start, !.want = part.want, !.sent = <<>>]
          = Announced(g, part.start, part.want)
    BY <1>3 DEF Announced, Reader
  <2> QED
    BY <2>1, <2>2
<1> HIDE DEF g
<1> DEFINE f == Announced(g, part.start, part.want)
<1>5. f.at = "serving" /\ f.start = part.start /\ f.want = part.want /\ f.sent = <<>>
  BY <1>2, <1>3, Announcing
<1>6. fr' = [fr EXCEPT ![r] = f]
  BY <1>4
<1> HIDE DEF f
<1> QED
  BY <1>1, <1>2, <1>5, <1>6, PartRefines

\* io.CopyN takes bytes out of the buffer: those that come next in the file.
LEMMA ReadBufferRefines ==
  ASSUME Inv, NEW r \in Readers, NEW n \in 1..Len(fr[r].buf), ReadBuffer(r, n)
  PROVE  [Plain!Next]_Plain!vars
<1> DEFINE s == fr[r].sent \o SubSeq(fr[r].buf, 1, n)
           f == [fr[r] EXCEPT !.sent = s,
                              !.buf = SubSeq(fr[r].buf, n + 1, Len(fr[r].buf))]
<1>1. /\ TypeOK /\ fr[r] \in Reader /\ fr[r].at = "serving"
      /\ Positioned(fr[r]) /\ Measured(fr[r])
      /\ n <= Len(fr[r].buf) /\ n <= Remaining(fr[r])
      /\ UNCHANGED <<upload, size, swept>>
  BY DEF ReadBuffer, Inv, TypeOK, writer
<1>2. fr' = [fr EXCEPT ![r] = f]
  BY <1>1 DEF ReadBuffer
<1>3. f.at = "serving" /\ f.start = fr[r].start /\ f.want = fr[r].want
      /\ f.sent = s
  BY <1>1 DEF Reader
<1>4. /\ fr[r].sent \in Seq(Nat) /\ fr[r].buf \in Seq(Nat)
      /\ fr[r].start \in Nat /\ fr[r].want \in Nat
      /\ Len(fr[r].sent) \in Nat /\ Len(fr[r].buf) \in Nat
      /\ n \in 1..fr[r].want - Len(fr[r].sent)
  BY <1>1, LenProperties DEF Reader, Remaining
<1> HIDE DEF f, s
<1>5. CASE swept
  <2>1. AbstractResponse(f) = AbstractResponse(fr[r])
    BY <1>5 DEF AbstractResponse
  <2> QED
    BY <1>1, <1>2, <2>1, Unseen
<1>6. CASE ~swept
  <2> DEFINE g == AbstractResponse(fr[r])
             bytes == [i \in 1..n |-> g.start + Len(g.sent) + i - 1]
  <2>1. /\ AbstractResponses' = [AbstractResponses EXCEPT ![r] = AbstractResponse(f)]
        /\ AbstractResponses[r] = g
        /\ AbstractLength' = AbstractLength
        /\ AbstractResponses \in
             [Readers -> {AbstractResponse(fr[q]) : q \in Readers}]
    BY <1>1, <1>2, Seen
  <2>2. /\ g = Responding("sending", size, fr[r].start, fr[r].want, fr[r].sent)
        /\ AbstractResponse(f) =
             Responding("sending", size, fr[r].start, fr[r].want, s)
        /\ g.at = "sending" /\ g.start = fr[r].start /\ g.want = fr[r].want
        /\ g.sent = fr[r].sent
    BY <1>1, <1>3, <1>6 DEF AbstractResponse, Responding
  <2> HIDE DEF g
  <2>3. SubSeq(fr[r].buf, 1, n) = bytes
    <3> DEFINE b == fr[r].buf
               k == fr[r].start + Len(fr[r].sent)
    <3>1. \A j \in 1..Len(b) : b[j] = k + j - 1
      BY <1>1, <1>6 DEF Positioned
    <3>2. b \in Seq(Nat) /\ n \in 1..Len(b) /\ Len(b) \in Nat
      BY <1>4
    <3>3. g.start = fr[r].start /\ g.sent = fr[r].sent
      BY <2>2
    <3>4. bytes = [i \in 1..n |-> k + i - 1]
      BY <3>3
    <3> HIDE DEF b, k, bytes
    <3>5. SubSeq(b, 1, n) = [i \in 1..n |-> b[i]]
      BY <3>2
    <3>6. \A i \in 1..n : b[i] = k + i - 1
      BY <3>1, <3>2
    <3>7. SubSeq(b, 1, n) = bytes
      BY <3>4, <3>5, <3>6
    <3> QED
      BY <3>7 DEF b
  <2>4. s = g.sent \o bytes
    BY <2>2, <2>3 DEF s
  <2>5. n \in 1..g.want - Len(g.sent)
    BY <1>4, <2>2
  <2> HIDE DEF bytes
  <2>6. AbstractResponses' = [AbstractResponses EXCEPT ![r].sent = s]
    <3>1. AbstractResponses[r] =
            Responding("sending", size, fr[r].start, fr[r].want, fr[r].sent)
      BY <2>1, <2>2
    <3>2. [AbstractResponses EXCEPT ![r].sent = s] =
            [AbstractResponses EXCEPT ![r] =
               Responding("sending", size, fr[r].start, fr[r].want, s)]
      BY <3>1, SendUpdate
    <3> QED
      BY <2>1, <2>2, <3>2
  <2>7. \E m \in 1..AbstractResponses[r].want - Len(AbstractResponses[r].sent) :
          AbstractResponses' = [AbstractResponses EXCEPT ![r].sent =
            @ \o [i \in 1..m |-> AbstractResponses[r].start + Len(@) + i - 1]]
    <3>1. AbstractResponses' = [AbstractResponses EXCEPT ![r].sent =
            @ \o [i \in 1..n |-> AbstractResponses[r].start
                                   + Len(AbstractResponses[r].sent) + i - 1]]
      BY <2>1, <2>4, <2>6 DEF bytes
    <3>2. n \in 1..AbstractResponses[r].want - Len(AbstractResponses[r].sent)
      BY <2>1, <2>5
    <3> WITNESS n \in 1..AbstractResponses[r].want - Len(AbstractResponses[r].sent)
    <3> QED
      BY <3>1
  <2>8. Plain!Send(r)
    BY <2>1, <2>2, <2>7 DEF Plain!Send
  <2> QED
    BY <2>8 DEF Plain!Next
<1> QED
  BY <1>5, <1>6

LEMMA NextRefines ==
  ASSUME Inv, [Next]_vars
  PROVE  [Plain!Next]_Plain!vars
<1>1. CASE WriterStep \/ InsertEntry
  BY <1>1, WriterRefines
<1>2. ASSUME NEW r \in Readers, ReadEntryFile(r) \/ ReaderStep(r)
      PROVE  [Plain!Next]_Plain!vars
  BY <1>2, ReadEntryFileRefines, QueriesRefine, EndingRefines,
     ServeContentRefines, NextRangeRefines, ReadBufferRefines DEF ReaderStep
<1>3. CASE UNCHANGED vars
  <2>1. UNCHANGED <<upload, size, swept, fr>>
    BY <1>3 DEF vars, writer
  <2> QED
    BY <2>1 DEF Plain!vars, AbstractLength, AbstractResponses, AbstractResponse
<1> QED
  BY <1>1, <1>2, <1>3 DEF Next

-----------------------------------------------------------------------------
\* Rows, offsets and buffers keep their types.
THEOREM TypeCorrect == Spec => []TypeOK
<1>1. Inv => TypeOK
  BY DEF Inv
<1> QED
  BY Invariance, <1>1, PTL

\* A client receives the bytes that were announced: for every chunk size and
\* length of the file, whatever pieces io.Copy reads it in and whatever ranges
\* are asked for.
THEOREM Delivered == Spec => []DeliveredIsFile
BY Invariance, InvDelivers, PTL

\* Of a file that a purge has damaged no response from the beginning on
\* carries a wrong byte.
THEOREM WholeFiles == Spec => []WholeFileOrError
BY Invariance, InvWholeFile, PTL

\* populateBuffer never takes an empty slice, and never a start beyond the end.
THEOREM ReadingAdvances == Spec => []PopulateAdvances
BY Invariance, InvAdvances, PTL

\* Writer, rows and reader together are a plain sequence of bytes.
THEOREM Refinement == Spec => ImplementsPlainFile
<1>1. Inv /\ [Next]_vars => [Plain!Next]_Plain!vars
  BY NextRefines
<1> QED
  BY Invariance, InitRefines, <1>1, PTL DEF Spec, ImplementsPlainFile, Plain!Spec

=============================================================================
