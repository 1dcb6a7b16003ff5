------------------------ MODULE EncryptedFileProofs ------------------------
(***************************************************************************)
(* Theorems about EncryptedFile, for files of any length that change in    *)
(* any way while they are encrypted: upload, list and download agree on    *)
(* the sizes, and a missing end shows.  Both rest on EncryptionInv: while  *)
(* the file is not found shorter than it was, every chunk but the last is  *)
(* full and ends before file_size.                                         *)
(***************************************************************************)
EXTENDS EncryptedFile, WellFoundedInduction, TLAPS

EncryptionType ==
  /\ length \in Nat
  /\ upload \in {"closed", "reading", "encrypted"}
  /\ file_size \in Nat
  /\ total_read \in Nat
  /\ chunks \in Seq(Nat)
  /\ cut \in BOOLEAN

\* The first n chunks are full, and none of them is the last one.
FullChunks(n) ==
  \A i \in 1..n : chunks[i] = i * CHUNK_SIZE /\ chunks[i] < file_size

\* The last chunk ends at or behind the size that the file had.
Complete ==
  /\ Len(chunks) > 0
  /\ FullChunks(Len(chunks) - 1)
  /\ file_size <= total_read
  /\ total_read \in (Len(chunks) - 1) * CHUNK_SIZE..Len(chunks) * CHUNK_SIZE

EncryptionInv ==
  /\ EncryptionType
  /\ total_read = Held(Len(chunks))
  /\ upload = "reading" /\ ~cut => FullChunks(Len(chunks))
  /\ upload = "encrypted" /\ ~cut => Complete

-----------------------------------------------------------------------------
LEMMA ChunkSize == CHUNK_SIZE \in Nat /\ CHUNK_SIZE > 0
BY SMT DEF CHUNK_SIZE

LEMMA Multiples ==
  ASSUME NEW k \in Nat
  PROVE  /\ k * CHUNK_SIZE \in Nat
         /\ (k + 1) * CHUNK_SIZE = k * CHUNK_SIZE + CHUNK_SIZE
BY SMT DEF CHUNK_SIZE

\* What a read returns: what is there, up to the size of the buffer.
LEMMA ReadSize ==
  ASSUME NEW n \in Int
  PROVE  LET bytes_read == Max({0, Min({CHUNK_SIZE, n})}) IN
           /\ bytes_read \in 0..CHUNK_SIZE
           /\ n >= CHUNK_SIZE => bytes_read = CHUNK_SIZE
           /\ n \in 0..CHUNK_SIZE => bytes_read = n
<1>1. Min({CHUNK_SIZE, n}) = IF n < CHUNK_SIZE THEN n ELSE CHUNK_SIZE
  BY ChunkSize, SMT DEF Min
<1>2. ASSUME NEW m \in Int
      PROVE  Max({0, m}) = IF m < 0 THEN 0 ELSE m
  BY SMT DEF Max
<1> QED
  BY <1>1, <1>2, ChunkSize, SMT

LEMMA ReadsStep ==
  ASSUME EncryptionInv, Reads
  PROVE  EncryptionInv'
<1> DEFINE bytes_read == Max({0, Min({CHUNK_SIZE, length - total_read})})
<1> PICK k \in Nat : k = Len(chunks)
  BY DEF EncryptionInv, EncryptionType
<1>1. /\ bytes_read \in 0..CHUNK_SIZE
      /\ length - total_read >= CHUNK_SIZE => bytes_read = CHUNK_SIZE
      /\ length - total_read \in 0..CHUNK_SIZE => bytes_read = length - total_read
  <2>1. length - total_read \in Int
    BY DEF EncryptionInv, EncryptionType
  <2> QED
    BY <2>1, ReadSize
<1>2. /\ upload = "reading" /\ UNCHANGED <<length, file_size>>
      /\ total_read' = total_read + bytes_read
      /\ chunks' = Append(chunks, total_read')
      /\ upload' = IF total_read' >= file_size THEN "encrypted" ELSE "reading"
      /\ cut' = (cut \/ length < file_size)
  BY DEF Reads, is_last
<1> HIDE DEF bytes_read
<1>3. EncryptionType'
  <2>1. total_read' \in Nat
    BY <1>1, <1>2, ChunkSize DEF EncryptionInv, EncryptionType
  <2>2. cut' \in BOOLEAN
    BY <1>2
  <2> QED
    BY <1>2, <2>1, <2>2 DEF EncryptionInv, EncryptionType
<1>4. /\ k \in Nat
      /\ Len(chunks') = k + 1
      /\ chunks'[k + 1] = total_read'
      /\ \A i \in 1..k : chunks'[i] = chunks[i]
  BY <1>2, <1>3 DEF EncryptionInv, EncryptionType
<1>5. total_read' = Held(Len(chunks))'
  BY <1>4 DEF Held
<1>6. ASSUME ~cut'
      PROVE  /\ FullChunks(k)'
             /\ total_read = k * CHUNK_SIZE
             /\ total_read' < file_size => bytes_read = CHUNK_SIZE
  <2>1. ~cut /\ file_size <= length
    <3>1. ~cut /\ ~(length < file_size)
      BY <1>2, <1>6
    <3> QED
      BY <3>1 DEF EncryptionInv, EncryptionType
  <2>2. FullChunks(k)
    BY <1>2, <2>1 DEF EncryptionInv
  <2>3. FullChunks(k)'
    BY <1>2, <1>4, <2>2 DEF FullChunks
  <2>4. total_read = k * CHUNK_SIZE
    <3>1. CASE k = 0
      BY <3>1, ChunkSize DEF EncryptionInv, Held
    <3>2. CASE k # 0
      BY <1>4, <2>2, <3>2 DEF EncryptionInv, Held, FullChunks
    <3> QED
      BY <3>1, <3>2
  <2>5. total_read' < file_size => bytes_read = CHUNK_SIZE
    BY <1>1, <1>2, <1>3, <2>1, ChunkSize DEF EncryptionInv, EncryptionType
  <2> QED
    BY <2>3, <2>4, <2>5
<1>7. CASE total_read' < file_size
  <2>1. upload' = "reading"
    BY <1>2, <1>3, <1>7 DEF EncryptionInv, EncryptionType
  <2>2. ASSUME ~cut'
        PROVE  FullChunks(k + 1)'
    <3>1. total_read' = (k + 1) * CHUNK_SIZE
      BY <1>2, <1>4, <1>6, <1>7, <2>2, Multiples
    <3>2. ASSUME NEW i \in 1..k + 1
          PROVE  chunks'[i] = i * CHUNK_SIZE /\ chunks'[i] < file_size'
      <4>1. CASE i = k + 1
        BY <1>2, <1>4, <1>7, <3>1, <4>1
      <4>2. CASE i # k + 1
        <5>1. i \in 1..k
          BY <1>4, <4>2
        <5> QED
          BY <1>6, <2>2, <5>1 DEF FullChunks
      <4> QED
        BY <4>1, <4>2
    <3> QED
      BY <3>2 DEF FullChunks
  <2> QED
    BY <1>3, <1>4, <1>5, <2>1, <2>2 DEF EncryptionInv
<1>8. CASE ~(total_read' < file_size)
  <2>1. upload' = "encrypted" /\ file_size' <= total_read'
    BY <1>2, <1>3, <1>8 DEF EncryptionInv, EncryptionType
  <2>2. ASSUME ~cut'
        PROVE  Complete'
    <3>1. (k + 1) - 1 = k
      BY <1>4
    <3>2. total_read' \in k * CHUNK_SIZE..(k + 1) * CHUNK_SIZE
      BY <1>1, <1>2, <1>4, <1>6, <2>2, Multiples, ChunkSize
    <3> QED
      BY <1>4, <1>6, <2>1, <2>2, <3>1, <3>2 DEF Complete
  <2> QED
    BY <1>3, <1>5, <2>1, <2>2 DEF EncryptionInv
<1> QED
  BY <1>7, <1>8

LEMMA EncryptionStep ==
  ASSUME EncryptionInv, [EncryptionNext]_encryptionVars
  PROVE  EncryptionInv'
<1> USE DEF EncryptionInv, EncryptionType, Held, FullChunks, Complete
<1>1. CASE Opens
  <2>1. <<>> \in Seq(Nat) /\ Len(<<>>) = 0
    OBVIOUS
  <2>2. chunks' = <<>> /\ total_read' = 0 /\ upload' = "reading" /\ cut' = FALSE
    BY <1>1 DEF Opens
  <2>3. EncryptionType'
    <3>1. cut' \in BOOLEAN
      BY <2>2
    <3>2. length' \in Nat /\ file_size' \in Nat /\ total_read' \in Nat
      BY <1>1, <2>2 DEF Opens
    <3>3. upload' \in {"closed", "reading", "encrypted"} /\ chunks' \in Seq(Nat)
      BY <2>1, <2>2
    <3> QED
      BY <3>1, <3>2, <3>3
  <2>4. total_read' = Held(Len(chunks))' /\ FullChunks(Len(chunks))'
    BY <2>1, <2>2
  <2> QED
    BY <2>2, <2>3, <2>4
<1>2. CASE Closes
  BY <1>2 DEF Closes
<1>3. CASE FileChanges
  BY <1>3, EncryptionAssumption DEF FileChanges
<1>4. CASE UNCHANGED encryptionVars
  BY <1>4 DEF encryptionVars
<1> QED
  BY <1>1, <1>2, <1>3, <1>4, ReadsStep DEF EncryptionNext

(* While upload has not found the file shorter than it was, every chunk but the
   last is full and ends before the size that the file had (encryption.rs:110). *)
THEOREM ChunksAreFull == EncryptionSpec => []EncryptionInv
<1>1. EncryptionInit => EncryptionInv
  <2> SUFFICES ASSUME EncryptionInit PROVE EncryptionInv
    OBVIOUS
  <2>1. <<>> \in Seq(Nat) /\ Len(<<>>) = 0
    OBVIOUS
  <2>2. EncryptionType
    BY <2>1, EncryptionAssumption DEF EncryptionInit, EncryptionType
  <2>3. total_read = Held(Len(chunks))
    BY <2>1 DEF EncryptionInit, Held
  <2> QED
    BY <2>2, <2>3 DEF EncryptionInit, EncryptionInv
<1> QED
  BY <1>1, EncryptionStep, PTL DEF EncryptionSpec

-----------------------------------------------------------------------------
\* What a download finds among the first bytes of an encrypted file.

LEMMA Minimum ==
  ASSUME NEW T, T \subseteq Nat, T # {}
  PROVE  \E m \in T : \A n \in T : m <= n
<1> DEFINE R == OpToRel(<, Nat)
<1>1. IsWellFoundedOn(R, Nat)
  BY NatLessThanWellFounded
<1>2. ASSUME NEW m \in Nat, NEW n \in Nat, n < m
      PROVE  <<n, m>> \in R
  BY <1>2 DEF OpToRel
<1> HIDE DEF R
<1>3. PICK m \in T : \A n \in T : ~(<<n, m>> \in R)
  BY <1>1, WFMin, Zenon
<1>4. ASSUME NEW n \in T
      PROVE  m <= n
  <2>1. m \in Nat /\ n \in Nat
    OBVIOUS
  <2>2. ~(n < m)
    BY <1>2, <1>3, <2>1, Zenon
  <2> QED
    BY <2>1, <2>2
<1> QED
  BY <1>4

LEMMA Maximum ==
  ASSUME NEW k \in Nat, NEW S, S \subseteq 0..k, S # {}
  PROVE  Max(S) \in S /\ \A n \in S : n <= Max(S)
<1> DEFINE T == {j \in 0..k : k - j \in S}
<1>1. T \subseteq Nat /\ T # {}
  <2>1. PICK n \in S : n \in 0..k
    OBVIOUS
  <2>2. k - n \in 0..k /\ k - (k - n) = n
    BY <2>1
  <2>3. k - (k - n) \in S
    BY <2>2
  <2>4. k - n \in T
    BY <2>2, <2>3, Zenon
  <2>5. T \subseteq Nat
    OBVIOUS
  <2>6. T # {}
    <3> HIDE DEF T
    <3> QED
      BY <2>4, Zenon
  <2> QED
    BY <2>5, <2>6
<1>2. PICK m \in T : \A j \in T : m <= j
  <2> HIDE DEF T
  <2> QED
    BY <1>1, Minimum
<1>3. k - m \in S
  BY <1>2
<1>4. ASSUME NEW n \in S
      PROVE  k - m >= n
  <2>1. n \in 0..k /\ k - n \in 0..k /\ k - (k - n) = n
    OBVIOUS
  <2>2. k - n \in T
    BY <2>1, Zenon
  <2>3. m <= k - n
    BY <1>2, <2>2, Zenon
  <2>4. m \in 0..k
    BY <1>2, Zenon
  <2> QED
    BY <2>1, <2>3, <2>4
<1>5. \E x \in S : \A n \in S : x >= n
  BY <1>3, <1>4
<1>6. Max(S) \in S /\ \A n \in S : Max(S) >= n
  BY <1>5 DEF Max
<1> QED
  BY <1>6

LEMMA TakenTyped ==
  ASSUME EncryptionInv, NEW n \in 0..Len(chunks)
  PROVE  Held(n) \in Nat /\ Taken(n) \in Nat /\ Taken(n) = Header + n * Frame + Held(n)
<1>1. Held(n) \in Nat
  BY DEF EncryptionInv, EncryptionType, Held
<1> QED
  BY <1>1, SMT DEF Taken, Header, Frame

LEMMA WholeChunksIs ==
  ASSUME EncryptionInv, NEW stored \in Int, stored >= Header
  PROVE  /\ WholeChunks(stored) \in 0..Len(chunks)
         /\ Taken(WholeChunks(stored)) <= stored
         /\ \A n \in 0..Len(chunks) : Taken(n) <= stored => n <= WholeChunks(stored)
<1> DEFINE S == {n \in 0..Len(chunks) : Taken(n) <= stored}
<1>1. Len(chunks) \in Nat
  BY DEF EncryptionInv, EncryptionType
<1>2. 0 \in S
  BY <1>1, SMT DEF Taken, Held, Header, Frame
<1>3. S \subseteq 0..Len(chunks) /\ S # {}
  BY <1>2
<1>4. Max(S) \in S /\ \A n \in S : n <= Max(S)
  <2> HIDE DEF S
  <2> QED
    BY <1>1, <1>3, Maximum
<1> QED
  BY <1>4 DEF WholeChunks

\* list computes the number of chunks from the size.
LEMMA ListsChunks ==
  ASSUME NEW k \in Nat, NEW total \in Nat, k > 0,
         total \in (k - 1) * CHUNK_SIZE..k * CHUNK_SIZE
  PROVE  listed_size(Header + k * Frame + total) = total
<1> DEFINE stored == Header + k * Frame + total
           num == (stored - Header + CHUNK_SIZE + Frame - 1) \div (CHUNK_SIZE + Frame)
<1>1. stored >= Header /\ num = k
  BY SMT DEF Header, Frame, CHUNK_SIZE
<1>2. listed_size(stored) = stored - Header - Frame * num
  BY <1>1, SMT DEF listed_size
<1> QED
  BY <1>1, <1>2, SMT DEF Header, Frame

LEMMA InvSizesAgree == EncryptionInv => SizesAgree
<1> SUFFICES ASSUME EncryptionInv, upload = "encrypted", ~cut
             PROVE  /\ download_ends(encrypted)
                    /\ downloaded(encrypted) = listed_size(encrypted)
                    /\ listed_size(encrypted) \in file_size..file_size + CHUNK_SIZE
  BY DEF SizesAgree
<1> DEFINE k == Len(chunks)
<1>1. Complete /\ k \in Nat /\ total_read = Held(k)
  BY DEF EncryptionInv, EncryptionType
<1>2. total_read \in Nat /\ file_size \in Nat
  BY DEF EncryptionInv, EncryptionType
<1>3. encrypted = Header + k * Frame + total_read /\ encrypted \in Nat /\ encrypted >= Header
  <2>1. encrypted = Header + k * Frame + total_read
    BY <1>1 DEF encrypted, Taken
  <2> QED
    BY <1>1, <1>2, <2>1, SMT DEF Header, Frame
<1>4. listed_size(encrypted) = total_read
  BY <1>1, <1>2, <1>3, ListsChunks DEF Complete
<1>5. WholeChunks(encrypted) = k
  <2>1. k \in 0..Len(chunks) /\ Taken(k) <= encrypted
    BY <1>1, <1>3 DEF encrypted
  <2> QED
    BY <1>1, <1>3, <2>1, WholeChunksIs
<1>6. total_read <= file_size + CHUNK_SIZE
  <2>1. CASE k = 1
    BY <1>1, <1>2, <2>1, ChunkSize DEF Complete
  <2>2. CASE k # 1
    <3>1. k - 1 \in 1..k - 1 /\ FullChunks(k - 1)
      <4>1. k > 0 /\ FullChunks(k - 1)
        BY <1>1 DEF Complete
      <4>2. k \in Nat
        BY <1>1
      <4>3. k - 1 \in 1..k - 1
        <5> HIDE DEF k
        <5> QED
          BY <2>2, <4>1, <4>2
      <4> QED
        BY <4>1, <4>3
    <3>2. (k - 1) * CHUNK_SIZE < file_size
      BY <1>1, <3>1 DEF Complete, FullChunks
    <3>3. k * CHUNK_SIZE = (k - 1) * CHUNK_SIZE + CHUNK_SIZE /\ (k - 1) * CHUNK_SIZE \in Nat
      BY <1>1, <3>1, SMT DEF CHUNK_SIZE
    <3> QED
      BY <1>1, <1>2, <3>2, <3>3, ChunkSize DEF Complete
  <2> QED
    BY <2>1, <2>2
<1> QED
  BY <1>1, <1>2, <1>3, <1>4, <1>5, <1>6, ChunkSize DEF download_ends, downloaded, Complete

(* Whatever is written to a file of any length while it is encrypted, as long as it
   does not get shorter: a download gives what upload has read, the list says how
   much that is, and it is at least what the file was when it was opened
   (encryption.rs:113, :304). *)
THEOREM SizesAlwaysAgree == EncryptionSpec => []SizesAgree
BY ChunksAreFull, InvSizesAgree, PTL

-----------------------------------------------------------------------------
\* Wherever an encrypted file is cut off, and also if the download fails there.
MissingEnd ==
  upload = "encrypted" /\ ~cut /\ file_size > 0 =>
    \A stored \in Int :
      stored >= Header /\ stored < encrypted => downloaded(stored) < file_size

LEMMA InvMissingEnd == EncryptionInv => MissingEnd
<1> SUFFICES ASSUME EncryptionInv, upload = "encrypted", ~cut, file_size > 0,
                    NEW stored \in Int, stored >= Header, stored < encrypted
             PROVE  downloaded(stored) < file_size
  BY DEF MissingEnd
<1> DEFINE w == WholeChunks(stored)
<1>1. Complete /\ Len(chunks) \in Nat
  BY DEF EncryptionInv, EncryptionType
<1>2. w \in 0..Len(chunks) /\ Taken(w) <= stored
  BY WholeChunksIs
<1>3. w # Len(chunks)
  BY <1>1, <1>2, TakenTyped DEF encrypted
<1>4. CASE w = 0
  BY <1>4 DEF downloaded, Held
<1>5. CASE w # 0
  <2>1. w \in 1..Len(chunks) - 1
    BY <1>1, <1>2, <1>3, <1>5
  <2> QED
    BY <1>1, <1>5, <2>1 DEF Complete, FullChunks, downloaded, Held
<1> QED
  BY <1>4, <1>5

(* A download of a file that has lost its end, wherever it was cut off, gives fewer
   bytes than the file had, whatever was written while it was encrypted: no chunk
   that follows the end of the file is an empty one (encryption.rs:113, :213). *)
THEOREM MissingEndAlwaysShows == EncryptionSpec => []MissingEndShows
<1>1. EncryptionInv => MissingEndShows
  <2> SUFFICES ASSUME EncryptionInv, upload = "encrypted", ~cut, file_size > 0,
                      NEW n \in 0..Len(chunks), NEW d \in -22..26,
                      Taken(n) + d < encrypted, download_ends(Taken(n) + d)
               PROVE  downloaded(Taken(n) + d) < file_size
    BY DEF MissingEndShows
  <2>1. Taken(n) + d \in Int
    BY TakenTyped
  <2> QED
    BY <2>1, InvMissingEnd DEF MissingEnd, download_ends
<1> QED
  BY <1>1, ChunksAreFull, PTL

=============================================================================
