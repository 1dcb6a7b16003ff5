----------------------------- MODULE FileTrees -----------------------------
(***************************************************************************)
(* The clients of services with folders that know files by their paths:    *)
(* WebDAVProvider, NextcloudProvider, SFTPProvider, PCloudProvider,        *)
(* DropboxProvider, OneDriveProvider, BoxProvider, MegaProvider and the    *)
(* simulation in a local directory (webdav.rs, nextcloud.rs, sftp.rs,      *)
(* pcloud.rs, dropbox.rs, onedrive.rs, box_provider.rs, mega_provider.rs,  *)
(* local_sim.rs).  A file needs its folder, which some of the clients and  *)
(* some of the services create.                                            *)
(***************************************************************************)
EXTENDS Storage

\* The folder of the call's file is there.
Housed(c) == HasFolder(Folder(call[c].path))

\* The next folder that is missing on the way to q is created.
MakesNext(c, q) ==
  \E r \in Prefixes(q) :
    ~HasFolder(r) /\ HasFolder(Folder(r)) /\ Makes(c, {r}, call[c])

\* A new folder needs the one that it is in.
MakesInside(c) ==
  LET q == call[c].path
  IN  IF q # <<>> /\ HasFolder(Folder(q)) THEN Makes(c, {q}, NoCall) ELSE Ends(c)

\* The service creates the folders of the new file p by itself.
FinishesHoused(c, new, p) ==
  /\ objects' = new
  /\ folders' = folders \union Prefixes(Folder(p))
  /\ Succeeds(c)
  /\ UNCHANGED <<drive, twice>>

SetsHoused(c) ==
  LET k == call[c]
  IN  FinishesHoused(c, [objects EXCEPT ![k.path] = <<k.content>>], k.path)

Moved(k) == [objects EXCEPT ![k.path] = <<>>, ![k.to] = objects[k.path]]

\* The source is there, and nothing at the target.
MayMove(k) == There(k.path) /\ ~There(k.to)

ListsFolder(c) == IF HasFolder(call[c].path) THEN ReadsAllPages(c) ELSE Ends(c)

ReadsPages(c) == ReadsSomePage(c) \/ ReadsAllPages(c)

\* The status of a page is not looked at: an error ends the list.
ListsUnchecked(c) == ReadsPages(c) \/ ListsMistaken(c, call[c].seen)

\* The upload of a large file is opened; its last chunk makes the file.
Opens(c, step) == Learns(c, [call[c] EXCEPT !.step = step])

-----------------------------------------------------------------------------
(* WebDAV and Nextcloud. *)

EnsuresParentsOnWebDav(c) ==
  Asks(c, "WebDav", "upload", "walk") /\ MakesNext(c, Folder(call[c].path))
UploadsToWebDav(c) ==
  Asks(c, "WebDav", "upload", "walk") /\ Housed(c) /\ Sets(c, <<call[c].content>>)
DownloadsFromWebDav(c) == Asks(c, "WebDav", "download", "walk") /\ Gets(c)
DeletesFromWebDav(c) == Asks(c, "WebDav", "delete", "walk") /\ Drops(c)
ListsWebDav(c) == Asks(c, "WebDav", "list", "walk") /\ ListsFolder(c)

\* 409 says that the folder to create it in is missing, and is taken for Ok.
CreatesFolderOnWebDav(c) == Asks(c, "WebDav", "create_folder", "walk") /\ MakesInside(c)

EnsuresParentsOnNextcloud(c) ==
  Asks(c, "Nextcloud", "upload", "walk") /\ MakesNext(c, Folder(call[c].path))
UploadsToNextcloud(c) ==
  Asks(c, "Nextcloud", "upload", "walk") /\ Housed(c) /\ Sets(c, <<call[c].content>>)
DownloadsFromNextcloud(c) == Asks(c, "Nextcloud", "download", "walk") /\ Gets(c)
DeletesFromNextcloud(c) == Asks(c, "Nextcloud", "delete", "walk") /\ Drops(c)
ListsNextcloud(c) == Asks(c, "Nextcloud", "list", "walk") /\ ListsFolder(c)
CreatesFolderOnNextcloud(c) ==
  Asks(c, "Nextcloud", "create_folder", "walk") /\ MakesInside(c)

-----------------------------------------------------------------------------
(* SFTP, and the simulation: an upload empties the file, then fills it. *)

Truncates(c) ==
  Stores(c, [objects EXCEPT ![call[c].path] = <<Empty>>], [call[c] EXCEPT !.step = "send"])

MakesDirsOnSftp(c) == Asks(c, "Sftp", "upload", "walk") /\ MakesNext(c, Folder(call[c].path))
UploadsToSftp(c) ==
  \/ Asks(c, "Sftp", "upload", "walk") /\ Housed(c) /\ Truncates(c)
  \/ Asks(c, "Sftp", "upload", "send") /\ Fills(c, call[c].path, call[c].content)
DownloadsFromSftp(c) == Asks(c, "Sftp", "download", "walk") /\ Gets(c)
DeletesFromSftp(c) == Asks(c, "Sftp", "delete", "walk") /\ Drops(c)
ListsSftp(c) == Asks(c, "Sftp", "list", "walk") /\ ListsFolder(c)

TruncatesLocally(c) == IF Housed(c) THEN Truncates(c) ELSE MakesNext(c, Folder(call[c].path))

UploadsLocally(c) == Asks(c, "Local", "upload", "walk") /\ TruncatesLocally(c)

CopiesRateLimited(c) ==
  Asks(c, "Local", "upload", "send") /\ Fills(c, call[c].path, call[c].content)

\* A resumable upload counts chunks; it copies the file when it is finished.
StartsLocalSession(c) == Asks(c, "Local", "upload", "walk") /\ Opens(c, "session")

FinishesLocalSession(c) == Asks(c, "Local", "upload", "session") /\ TruncatesLocally(c)

DownloadsLocally(c) == Asks(c, "Local", "download", "walk") /\ Gets(c)
DeletesLocally(c) == Asks(c, "Local", "delete", "walk") /\ Drops(c)

CreatesFolderLocally(c) ==
  LET q == call[c].path IN
  /\ Asks(c, "Local", "create_folder", "walk")
  /\ IF HasFolder(q) THEN Ends(c) ELSE MakesNext(c, q)

CopiesLocally(c) ==
  LET k == call[c] IN
  \/ /\ Asks(c, "Local", "copy", "walk")
     /\ IF ~There(k.path) THEN Ends(c)
        ELSE IF ~HasFolder(Folder(k.to)) THEN MakesNext(c, Folder(k.to))
        ELSE Stores(c, [objects EXCEPT ![k.to] = <<Empty>>],
                    [k EXCEPT !.step = "send", !.item = Newest(k.path)])
  \/ Asks(c, "Local", "copy", "send") /\ Fills(c, k.to, k.item)

\* What is at the target is replaced.
RenamesLocally(c) ==
  LET k == call[c] IN
  /\ Asks(c, "Local", "rename", "walk")
  /\ IF ~There(k.path) THEN Ends(c)
     ELSE IF ~HasFolder(Folder(k.to)) THEN MakesNext(c, Folder(k.to))
     ELSE Finishes(c, Moved(k))

ListsLocally(c) == Asks(c, "Local", "list", "walk") /\ ListsFolder(c)

-----------------------------------------------------------------------------
(* pCloud.  Its answers have the status 200 also for an error, and only the *)
(* status is looked at.                                                    *)

BelievesPCloud(c) ==
  /\ Becomes(c, NoCall)
  /\ kept' = Leaves(call[c])
  /\ mistaken' = TRUE
  /\ UNCHANGED <<service, calls, faults, raced, unlisted, stale>>

\* The folder of the file is never created.
UploadsToPCloud(c) ==
  /\ Asks(c, "PCloud", "upload", "walk")
  /\ IF Housed(c) THEN Sets(c, <<call[c].content>>) ELSE BelievesPCloud(c)

DownloadsFromPCloud(c) ==
  LET k == call[c] IN
  \/ /\ Asks(c, "PCloud", "download", "walk")
     /\ IF There(k.path) THEN Opens(c, "send") ELSE Ends(c)
  \/ Asks(c, "PCloud", "download", "send") /\ Gets(c)

DeletesFromPCloud(c) ==
  /\ Asks(c, "PCloud", "delete", "walk")
  /\ IF There(call[c].path) THEN Sets(c, <<>>) ELSE BelievesPCloud(c)

\* Bare names, where the engine expects paths; an error is an empty list.
ListsPCloud(c) ==
  /\ Asks(c, "PCloud", "list", "walk")
  /\ \/ Lists(c, {p \in FilesIn(call[c].path) : Folder(p) = <<>>})
     \/ ListsMistaken(c, {})

-----------------------------------------------------------------------------
(* Dropbox and OneDrive. *)

UploadsToDropbox(c) == Asks(c, "Dropbox", "upload", "walk") /\ SetsHoused(c)
OpensDropboxSession(c) == Asks(c, "Dropbox", "upload", "walk") /\ Opens(c, "send")
FinishesDropboxSession(c) == Asks(c, "Dropbox", "upload", "send") /\ SetsHoused(c)
DownloadsFromDropbox(c) == Asks(c, "Dropbox", "download", "walk") /\ Gets(c)
DeletesFromDropbox(c) == Asks(c, "Dropbox", "delete", "walk") /\ Drops(c)

RenamesOnDropbox(c) ==
  LET k == call[c] IN
  /\ Asks(c, "Dropbox", "rename", "walk")
  /\ IF MayMove(k) THEN FinishesHoused(c, Moved(k), k.to) ELSE Ends(c)

CopiesOnDropbox(c) ==
  LET k == call[c] IN
  /\ Asks(c, "Dropbox", "copy", "walk")
  /\ IF MayMove(k) THEN FinishesHoused(c, Copied(k), k.to) ELSE Ends(c)

CreatesFolderOnDropbox(c) ==
  Asks(c, "Dropbox", "create_folder", "walk") /\ Makes(c, Prefixes(call[c].path), NoCall)

ListsDropbox(c) == Asks(c, "Dropbox", "list", "walk") /\ ListsUnchecked(c)

UploadsToOneDrive(c) == Asks(c, "OneDrive", "upload", "walk") /\ SetsHoused(c)
OpensOneDriveSession(c) == Asks(c, "OneDrive", "upload", "walk") /\ Opens(c, "send")
FinishesOneDriveSession(c) == Asks(c, "OneDrive", "upload", "send") /\ SetsHoused(c)
DownloadsFromOneDrive(c) == Asks(c, "OneDrive", "download", "walk") /\ Gets(c)
DeletesFromOneDrive(c) == Asks(c, "OneDrive", "delete", "walk") /\ Drops(c)

RenamesOnOneDrive(c) ==
  LET k == call[c] IN
  /\ Asks(c, "OneDrive", "rename", "walk")
  /\ IF MayMove(k) /\ HasFolder(Folder(k.to)) THEN Finishes(c, Moved(k)) ELSE Ends(c)

\* The copy is accepted, and made later or never.
CopiesOnOneDrive(c) ==
  LET k == call[c] IN
  /\ Asks(c, "OneDrive", "copy", "walk")
  /\ IF MayMove(k) /\ HasFolder(Folder(k.to))
       THEN /\ objects' \in {objects, Copied(k)}
            /\ Becomes(c, NoCall) /\ kept' = Leaves(k)
            /\ mistaken' = TRUE
            /\ UNCHANGED <<client, drive, folders, twice, session, calls, faults, raced,
                           unlisted, stale>>
       ELSE Ends(c)

CreatesFolderOnOneDrive(c) ==
  Asks(c, "OneDrive", "create_folder", "walk") /\ MakesInside(c)

ListsOneDrive(c) == Asks(c, "OneDrive", "list", "walk") /\ ListsUnchecked(c)

-----------------------------------------------------------------------------
(* Box.  Folders and files are looked up on the first page of their folder. *)

AtBox(c, op) == Asks(c, "Box", op, "walk")

\* resolve_path: what is not on the first page is not found, or created and
\* refused, as it is there.
MissesOnBox(c) ==
  /\ client = "Box" /\ Running(c)
  /\ \E q \in Prefixes(call[c].path) : q \in folders \/ (q \in Path /\ There(q))
  /\ Ends(c)

MakesFolderOnBox(c) == AtBox(c, "upload") /\ MakesNext(c, Folder(call[c].path))
UploadsToBox(c) == AtBox(c, "upload") /\ Housed(c) /\ Sets(c, <<call[c].content>>)
DownloadsFromBox(c) == AtBox(c, "download") /\ Gets(c)
DeletesFromBox(c) == AtBox(c, "delete") /\ Drops(c)
CreatesFolderOnBox(c) ==
  /\ AtBox(c, "create_folder")
  /\ IF HasFolder(call[c].path) THEN Ends(c) ELSE MakesNext(c, call[c].path)
ListsBox(c) ==
  AtBox(c, "list") /\ IF HasFolder(call[c].path) THEN ReadsOnePage(c) ELSE Ends(c)

-----------------------------------------------------------------------------
(* MEGA.  Names need not be unique here either: the file that is there is  *)
(* deleted before the new one is uploaded.  A call looks at a snapshot of  *)
(* all nodes first.                                                        *)

AtMega(c, op, step) == Asks(c, "Mega", op, step)

\* There are two folders of one name on the way to q, and the client takes either.
Forks(q) == Prefixes(q) \intersect twice # {}

\* The names on the way to q that no folder has.
Missing(q) == CHOOSE r \in {SubSeq(q, n + 1, Len(q)) : n \in 0..Len(q)} :
                /\ HasFolder(SubSeq(q, 1, Len(q) - Len(r)))
                /\ r # <<>> => ~HasFolder(SubSeq(q, 1, Len(q) - Len(r) + 1))

\* resolve_node does not create the only folder of a path.
ResolvesOnMega(c) ==
  LET k == call[c]
      q == Folder(k.path)
  IN
  /\ AtMega(c, "upload", "walk") /\ ~Housed(c)
  /\ IF Len(q) > 1 THEN Learns(c, [k EXCEPT !.step = "create", !.rest = Missing(q)]) ELSE Ends(c)

\* The folder is created also when another call has done so since the snapshot.
MakesFolderOnMega(c) ==
  LET k == call[c]
      q == Folder(k.path)
      new == SubSeq(q, 1, Len(q) - Len(k.rest) + 1)
      next == IF Len(k.rest) > 1 THEN [k EXCEPT !.rest = Tail(@)]
              ELSE [k EXCEPT !.rest = k.path, !.step = "walk"]
  IN
  /\ AtMega(c, "upload", "create")
  /\ folders' = folders \union {new}
  /\ twice' = twice \union (folders \intersect {new})
  /\ Answers(c, next)
  /\ UNCHANGED <<client, drive, objects, session, calls, history>>

\* How many files of the name there are in the folder; the first one of them is the
\* one to delete.
LooksOnMega(c) ==
  LET k == call[c] IN
  /\ AtMega(c, "upload", "walk") /\ Housed(c)
  /\ \E n \in {Len(objects[k.path])} \union (IF Forks(k.path) THEN {0} ELSE {}) :
       Learns(c, [k EXCEPT !.step = "remove", !.item = n])

\* Slip: the file that is there is left.
ReplacesNothing(c) ==
  AtMega(c, "upload", "remove") /\ Stores(c, objects, [call[c] EXCEPT !.step = "send"])

\* Another call may have deleted the file before.
ReplacesOnMega(c) ==
  LET k == call[c]
      versions == objects[k.path]
      found == k.item # 0 /\ versions # <<>>
      none == k.item = 0 \/ versions = <<>> \/ NoItem \in k.others
  IN
  /\ AtMega(c, "upload", "remove")
  /\ \E new \in (IF found THEN {Without(versions, n) : n \in DOMAIN versions} ELSE {})
                  \union (IF none THEN {versions} ELSE {}) :
       Stores(c, [objects EXCEPT ![k.path] = new], [k EXCEPT !.step = "send"])

UploadsToMega(c) ==
  /\ AtMega(c, "upload", "send")
  /\ Sets(c, Append(objects[call[c].path], call[c].content))

DownloadsFromMega(c) ==
  LET p == call[c].path IN
  /\ AtMega(c, "download", "walk")
  /\ \/ \E v \in Versions(p) : Delivers(c, v)
     \/ (~There(p) \/ Forks(p)) /\ Ends(c)

DeletesFromMega(c) ==
  LET versions == objects[call[c].path] IN
  /\ AtMega(c, "delete", "walk")
  /\ \/ \E n \in DOMAIN versions : Sets(c, Without(versions, n))
     \/ (versions = <<>> \/ Forks(call[c].path)) /\ Ends(c)

ListsMega(c) ==
  LET q == call[c].path IN
  /\ AtMega(c, "list", "walk")
  /\ \/ ListsFolder(c)
     \/ Forks(q) /\ \E files \in SUBSET FilesIn(q) : Lists(c, files)

-----------------------------------------------------------------------------
GoesOnFileTree(c) ==
  \/ EnsuresParentsOnWebDav(c) \/ UploadsToWebDav(c) \/ DownloadsFromWebDav(c)
  \/ DeletesFromWebDav(c) \/ ListsWebDav(c) \/ CreatesFolderOnWebDav(c)
  \/ EnsuresParentsOnNextcloud(c) \/ UploadsToNextcloud(c) \/ DownloadsFromNextcloud(c)
  \/ DeletesFromNextcloud(c) \/ ListsNextcloud(c) \/ CreatesFolderOnNextcloud(c)
  \/ MakesDirsOnSftp(c) \/ UploadsToSftp(c) \/ DownloadsFromSftp(c)
  \/ DeletesFromSftp(c) \/ ListsSftp(c)
  \/ UploadsLocally(c) \/ CopiesRateLimited(c) \/ StartsLocalSession(c)
  \/ FinishesLocalSession(c) \/ DownloadsLocally(c) \/ DeletesLocally(c)
  \/ CreatesFolderLocally(c) \/ CopiesLocally(c) \/ RenamesLocally(c) \/ ListsLocally(c)
  \/ UploadsToPCloud(c) \/ DownloadsFromPCloud(c) \/ DeletesFromPCloud(c) \/ ListsPCloud(c)
  \/ UploadsToDropbox(c) \/ OpensDropboxSession(c) \/ FinishesDropboxSession(c)
  \/ DownloadsFromDropbox(c) \/ DeletesFromDropbox(c) \/ RenamesOnDropbox(c)
  \/ CopiesOnDropbox(c) \/ CreatesFolderOnDropbox(c) \/ ListsDropbox(c)
  \/ UploadsToOneDrive(c) \/ OpensOneDriveSession(c) \/ FinishesOneDriveSession(c)
  \/ DownloadsFromOneDrive(c) \/ DeletesFromOneDrive(c) \/ RenamesOnOneDrive(c)
  \/ CopiesOnOneDrive(c) \/ CreatesFolderOnOneDrive(c) \/ ListsOneDrive(c)
  \/ MissesOnBox(c) \/ MakesFolderOnBox(c) \/ UploadsToBox(c) \/ DownloadsFromBox(c)
  \/ DeletesFromBox(c) \/ CreatesFolderOnBox(c) \/ ListsBox(c)
  \/ ResolvesOnMega(c) \/ MakesFolderOnMega(c) \/ LooksOnMega(c)
  \/ ReplacesOnMega(c) \/ UploadsToMega(c)
  \/ DownloadsFromMega(c) \/ DeletesFromMega(c) \/ ListsMega(c)

=============================================================================
