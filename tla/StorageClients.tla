--------------------------- MODULE StorageClients ---------------------------
(***************************************************************************)
(* The clients of all storage services together: one of them is configured *)
(* and serves the calls of the tasks.                                      *)
(***************************************************************************)
EXTENDS GoogleDrive, ObjectStores, FileTrees

BeginsCall(c) ==
  /\ ~Running(c) /\ calls < MaxCalls[client]
  /\ \/ \E p \in Path : BeginsDownload(c, p) \/ BeginsDelete(c, p)
     \/ \E p \in Path, v \in Content : BeginsUpload(c, p, v)
     \/ \E p, q \in Path : BeginsRename(c, p, q) \/ BeginsCopy(c, p, q)
     \/ \E q \in Folders : BeginsCreateFolder(c, q) \/ BeginsList(c, q)

Goes(c) ==
  \/ GoesOnGoogleDrive(c) \/ GoesOnObjectStore(c) \/ GoesOnFileTree(c)
  \/ Retries(c) \/ Refused(c)

Next ==
  \/ \E c \in Caller : BeginsCall(c) \/ Goes(c)
  \/ ExpiresB2
  \/ Crash

Spec == Init /\ [][Next]_vars

-----------------------------------------------------------------------------
(* Properties.  They hold as long as the client was not mistaken; calls run *)
(* at the same time, for one file too.  On Google Drive and MEGA they hold  *)
(* for the paths that are clean.                                            *)

\* The contents of the files at p, of each its newest version.
ContentsAt(p) ==
  IF client = "GoogleDrive" THEN {drive[i].content : i \in ItemsAt(p)}
  ELSE IF client = "Mega" THEN Versions(p)
  ELSE IF There(p) THEN {Newest(p)} ELSE {}

(* There are never two files at a path, but on Google Drive and MEGA where two
   calls at a time were for it, or for a folder above it that was to be made: both
   clients look before they create (google_drive.rs:221, mega_provider.rs:235), and
   nothing keeps two calls from looking before either creates.  A retry after a
   create that succeeded, a lost answer or a crash makes none.  B2 keeps versions,
   and IPFS pins. *)
OneFilePerPath ==
  ~mistaken => \A p \in Path :
    /\ Clean(p) => Cardinality(ItemsAt(p)) <= 1
    /\ Clean(p) /\ client \notin {"B2", "Ipfs"} => Len(objects[p]) <= 1

(* The service holds what the calls may have left: after one that succeeded what it
   was to leave, or what another left that ran at the same time for the same file;
   after one that failed what it found, too.  What was there before one that
   succeeded is gone (but on B2, where a deletion brings it back, and where another
   call runs at the same time that may leave it), whatever requests and retries of
   the calls come in between.  Around a rename or copy that another call meets at a
   file, anything may be left; pins of IPFS are not replaced; on Google Drive and
   MEGA a path that calls raced for is left out. *)
KeptIsThere ==
  ~mistaken /\ client # "Ipfs" => \A p \in Path : Clean(p) =>
    (IF ContentsAt(p) = {} THEN {NoItem} ELSE ContentsAt(p)) \subseteq kept[p]

(* A download that succeeds delivers what the calls have left at the path, the
   newest version of it, also while other calls change it. *)
DownloadsWhatWasLeft == ~mistaken /\ client # "Ipfs" => ~stale

(* A list that succeeds has every file that was in the folder all the while,
   on whatever page it was: the engine takes a file that is missing for one that
   was deleted (google_drive.rs:563).  Four clients read the first page only, and
   two name files as if their folder were the root. *)
ListsEveryFile ==
  ~mistaken /\ client \notin {"Gcs", "Azure", "Ipfs", "Box"} =>
    \A p \in unlisted :
      Clean(p) => client \in {"S3", "PCloud"} /\ Folder(p) # <<>>

(* While a file is renamed, and no other call is for it or for its target, its
   content is at the source or at the target after every request: nothing that is
   lost, refused or killed in between loses it (s3.rs:129 copies before it
   deletes). *)
RenameKeepsContent ==
  ~mistaken => \A c \in Caller :
    /\ Running(c) /\ call[c].op = "rename" /\ call[c].was \subseteq Content
    /\ call[c].others = {} /\ Clean(call[c].path) /\ Clean(call[c].to)
    => call[c].was \intersect (ContentsAt(call[c].path) \union ContentsAt(call[c].to)) # {}

=============================================================================
