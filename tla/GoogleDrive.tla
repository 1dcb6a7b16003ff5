---------------------------- MODULE GoogleDrive ----------------------------
(***************************************************************************)
(* GoogleDriveProvider (providers/google_drive.rs).  Google Drive knows    *)
(* files by their ids; names need not be unique.  The client walks down a  *)
(* path name by name, one query at a time, and creates what it misses      *)
(* before it uploads, downloads, deletes or lists.                         *)
(***************************************************************************)
EXTENDS Storage

\* The calls that end with a walk to a folder.
ToFolder == {"create_folder", "list", "rename", "copy"}

\* Slip: the query names no parent.
FoundAnywhere(k) == {i \in Live : drive[i].name = Head(k.rest)}

\* The items of the next name: of a folder, unless it is the last one of a file;
\* the source of a rename or copy may be either.
Found(k) ==
  LET last == Len(k.rest) = 1
      nodes == Matches(k.at, Head(k.rest), TRUE)
      plain == Matches(k.at, Head(k.rest), FALSE)
  IN  IF k.step = "source" /\ last THEN nodes \union plain
      ELSE IF ~last \/ k.op \in ToFolder THEN nodes
      ELSE plain

Walks(c) == Running(c) /\ call[c].step = "walk" /\ call[c].rest # <<>>

\* The first item of the answer, in whatever order the items come.
Finds(c) ==
  LET k == call[c] IN
  /\ Walks(c)
  /\ \E i \in Found(k) : Learns(c, [k EXCEPT !.at = i, !.rest = Tail(@)])

FindsNothing(c) ==
  LET k == call[c] IN
  /\ Walks(c)
  /\ Found(k) = {}
  /\ Learns(c, [k EXCEPT !.step = "create"])

\* The status of a query is not looked at: an error has no "files" either.
MisreadsError(c) ==
  /\ Walks(c)
  /\ Becomes(c, [call[c] EXCEPT !.step = "create"])
  /\ mistaken' = TRUE
  /\ Fails
  /\ UNCHANGED <<service, calls, kept, raced, unlisted, stale>>

\* The drive becomes the new one.
Changes(new) == drive' = new /\ UNCHANGED <<client, objects, folders, twice, session>>

Creates(c) ==
  LET k == call[c]
      folder == Len(k.rest) > 1 \/ k.op \in ToFolder
      new == [name |-> Head(k.rest), parent |-> k.at, folder |-> folder, content |-> Empty]
  IN
  /\ Running(c) /\ k.step = "create"
  /\ Unused # {}
  /\ Changes([drive EXCEPT ![NewId] = new])
  /\ Answers(c, [k EXCEPT !.at = NewId, !.rest = Tail(@), !.step = "walk"])
  /\ UNCHANGED <<calls, history>>

\* find_file_id_and_parent; then the folder of the target is walked down to.
FindsSource(c) ==
  LET k == call[c] IN
  /\ Running(c) /\ k.step = "source"
  /\ \E i \in Found(k) :
       Learns(c, IF Len(k.rest) > 1
                   THEN [k EXCEPT !.at = i, !.rest = Tail(@)]
                   ELSE [k EXCEPT !.item = i, !.at = Root, !.step = "walk",
                                  !.rest = Folder(k.to)])

\* NotFound is not transient.
MissesSource(c) ==
  /\ Running(c) /\ call[c].step = "source"
  /\ Found(call[c]) = {}
  /\ Ends(c)

\* The walk of call c is over.
Arrived(c, op) == Asks(c, "GoogleDrive", op, "walk") /\ call[c].rest = <<>>

\* The request changes the drive and ends the call.
Completes(c, new) ==
  drive' = new /\ Succeeds(c) /\ UNCHANGED <<objects, folders, twice>>

\* Another call has deleted the item: NotFound.
MissesItem(c) ==
  LET k == call[c] IN
  /\ Running(c)
  /\ \/ k.step = "send" \/ (k.step = "walk" /\ k.rest = <<>>)
  /\ (IF Carries(k) THEN k.item ELSE k.at) \notin Live \union {Root}
  /\ Ends(c)

Filled(k) == [drive EXCEPT ![k.at].content = k.content]

Uploads(c) ==
  Arrived(c, "upload") /\ call[c].at \in Live /\ Completes(c, Filled(call[c]))

\* A large file: the session is opened, ...
OpensSession(c) ==
  /\ Arrived(c, "upload") /\ call[c].at \in Live
  /\ Learns(c, [call[c] EXCEPT !.step = "send"])

\* ... and the last chunk of it fills the file.
SendsChunks(c) ==
  /\ Asks(c, "GoogleDrive", "upload", "send") /\ call[c].at \in Live
  /\ Completes(c, Filled(call[c]))

Downloads(c) ==
  /\ Arrived(c, "download") /\ call[c].at \in Live
  /\ Delivers(c, drive[call[c].at].content)

Deletes(c) ==
  LET k == call[c] IN
  /\ Arrived(c, "delete") /\ k.at \in Live
  /\ Completes(c, [drive EXCEPT ![k.at] = NoItem])

\* The content goes with the item.
Moves(c) ==
  LET k == call[c] IN
  /\ Arrived(c, "rename") /\ k.item \in Live
  /\ Completes(c, [drive EXCEPT ![k.item].name = Last(k.to), ![k.item].parent = k.at])

\* Nobody looks whether the target is there: with its answer lost, a copy is made
\* once more.
Copies(c) ==
  LET k == call[c] IN
  /\ Arrived(c, "copy") /\ k.item \in Live /\ Unused # {}
  /\ Changes([drive EXCEPT ![NewId] = [drive[k.item] EXCEPT !.name = Last(k.to),
                                                           !.parent = k.at]])
  /\ \/ /\ Becomes(c, NoCall) /\ kept' = Leaves(k) /\ UNCHANGED <<faults, mistaken>>
     \/ /\ IsLost(c) /\ mistaken' = TRUE /\ UNCHANGED kept
  /\ UNCHANGED <<calls, raced, unlisted, stale>>

CreatesFolder(c) == Arrived(c, "create_folder") /\ Ends(c)

\* A page is some of the items that were not on an earlier one.
Page(k) == SUBSET (Children(k.at) \ k.seen)

\* Slip: the first page is all of the answer.
TakesOnePage(k, page) == TRUE

\* There is no nextPageToken.
IsLastPage(k, page) == Children(k.at) \subseteq k.seen \union page

\* The files of the list that the items stand for.
Named(k, items) ==
  {p \in Path : Folder(p) = k.path /\ \E i \in items \intersect Live : drive[i].name = Last(p)}

ReadsPage(c) ==
  LET k == call[c] IN
  /\ Arrived(c, "list")
  /\ \E page \in Page(k) :
       /\ page # {}
       /\ ~IsLastPage(k, page)
       /\ Learns(c, [k EXCEPT !.seen = @ \union page])

ReadsLastPage(c) ==
  LET k == call[c] IN
  /\ Arrived(c, "list")
  /\ \E page \in Page(k) : IsLastPage(k, page) /\ Lists(c, Named(k, k.seen \union page))

\* An error has neither "files" nor "nextPageToken": the list ends here.
MisreadsPage(c) ==
  Arrived(c, "list") /\ ListsMistaken(c, Named(call[c], call[c].seen))

GoesOnGoogleDrive(c) ==
  /\ client = "GoogleDrive"
  /\ \/ Finds(c) \/ FindsNothing(c) \/ MisreadsError(c) \/ Creates(c)
     \/ FindsSource(c) \/ MissesSource(c)
     \/ MissesItem(c) \/ Uploads(c) \/ OpensSession(c) \/ SendsChunks(c)
     \/ Downloads(c) \/ Deletes(c) \/ Moves(c) \/ Copies(c) \/ CreatesFolder(c)
     \/ ReadsPage(c) \/ ReadsLastPage(c) \/ MisreadsPage(c)

=============================================================================
