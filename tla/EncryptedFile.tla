--------------------------- MODULE EncryptedFile ---------------------------
(***************************************************************************)
(* The format of EncryptedBackend (providers/encryption.rs): a header and  *)
(* the chunks of the file, each behind its length and the flag is_last.    *)
(* A user may write the file while upload encrypts it.  Only sizes are     *)
(* modelled: the cipher refuses chunks that have been changed or moved.    *)
(***************************************************************************)
EXTENDS Integers, Sequences, FiniteSetsExt

CONSTANTS
  Lengths,      \* the lengths that the file may have
  MaxChunks     \* bound: upload may go on for ever

ASSUME EncryptionAssumption == Lengths \subseteq Nat /\ MaxChunks \in Nat

VARIABLES
  length,       \* of the file, now
  upload,       \* "closed", "reading" or "encrypted"
  file_size,    \* as upload has found it
  total_read,
  chunks,       \* total_read behind every chunk of the temporary file
  cut           \* History: upload has found the file shorter than file_size

encryptionVars == <<length, upload, file_size, total_read, chunks, cut>>

CHUNK_SIZE == 65536
Header == 4 + 1 + 16 + 8
Frame == 4 + 1 + 16     \* the length of the chunk, is_last, the tag of the cipher

EncryptionInit ==
  /\ length \in Lengths
  /\ upload = "closed"
  /\ file_size = 0
  /\ total_read = 0
  /\ chunks = <<>>
  /\ cut = FALSE

-----------------------------------------------------------------------------
(* upload *)

Opens ==
  /\ upload = "closed"
  /\ upload' = "reading"
  /\ file_size' = length
  /\ total_read' = 0
  /\ chunks' = <<>>
  /\ cut' = FALSE
  /\ UNCHANGED length

\* Slip: the last chunk is the first that is not full.
is_short(read, bytes_read) == bytes_read < CHUNK_SIZE

is_last(read, bytes_read) == read >= file_size

\* A read fills the buffer unless the file ends before.  At the end of a file that
\* has been cut short it goes on to read no bytes.
Reads ==
  /\ upload = "reading"
  /\ Len(chunks) < MaxChunks
  /\ LET bytes_read == Max({0, Min({CHUNK_SIZE, length - total_read})}) IN
       /\ total_read' = total_read + bytes_read
       /\ chunks' = Append(chunks, total_read')
       /\ upload' = IF is_last(total_read', bytes_read) THEN "encrypted" ELSE "reading"
  /\ cut' = (cut \/ length < file_size)
  /\ UNCHANGED <<length, file_size>>

\* The temporary file has been uploaded, or not.
Closes ==
  /\ upload = "encrypted"
  /\ upload' = "closed"
  /\ UNCHANGED <<length, file_size, total_read, chunks, cut>>

FileChanges ==
  /\ length' \in Lengths
  /\ UNCHANGED <<upload, file_size, total_read, chunks, cut>>

EncryptionNext == Opens \/ Reads \/ Closes \/ FileChanges

EncryptionSpec == EncryptionInit /\ [][EncryptionNext]_encryptionVars

-----------------------------------------------------------------------------
(* list: the size of a file, from that of the encrypted one. *)

\* Slip: the last chunk counts only if it is full.
ListsFullChunks(stored) ==
  IF stored >= Header
    THEN stored - Header - Frame * ((stored - Header) \div (CHUNK_SIZE + Frame))
    ELSE Max({0, stored - 28})

listed_size(stored) ==
  IF stored >= Header
    THEN LET body_size == stored - Header
             num_chunks == (body_size + CHUNK_SIZE + Frame - 1) \div (CHUNK_SIZE + Frame)
         IN body_size - Frame * num_chunks
    ELSE Max({0, stored - 28})

-----------------------------------------------------------------------------
(* download, of the first `stored` bytes of an encrypted file.  Without a whole  *)
(* header the file is taken for one of the older format, and does not decrypt.   *)

\* What the first n chunks hold, and what they take up.
Held(n) == IF n = 0 THEN 0 ELSE chunks[n]
Taken(n) == Header + n * Frame + Held(n)

encrypted == Taken(Len(chunks))

WholeChunks(stored) == Max({n \in 0..Len(chunks) : Taken(n) <= stored})

\* The loop ends behind the last chunk, or where no four bytes are left for the
\* length of one; inside a chunk the end of the file is an error.
download_ends(stored) ==
  /\ stored >= Header
  /\ LET n == WholeChunks(stored) IN n = Len(chunks) \/ stored - Taken(n) < 4

downloaded(stored) == Held(WholeChunks(stored))

-----------------------------------------------------------------------------
(* Properties. *)

(* Whatever is added to a file while it is encrypted, what comes back is at least
   what the file was when it was opened and at most a chunk more, and the list
   says how much: the number of chunks that list works out from the size is the
   one that upload has made (encryption.rs:113, :304). *)
SizesAgree ==
  upload = "encrypted" /\ ~cut =>
    /\ download_ends(encrypted)
    /\ downloaded(encrypted) = listed_size(encrypted)
    /\ listed_size(encrypted) \in file_size..file_size + CHUNK_SIZE

(* A download that has lost its end fails or gives fewer bytes than the file has,
   so that the caller can tell, although it may end with Ok between two chunks:
   the last chunk must not be an empty one (encryption.rs:113, :213). *)
MissingEndShows ==
  upload = "encrypted" /\ ~cut /\ file_size > 0 =>
    \A n \in 0..Len(chunks), d \in -22..26 :
      Taken(n) + d < encrypted /\ download_ends(Taken(n) + d) =>
        downloaded(Taken(n) + d) < file_size

=============================================================================
