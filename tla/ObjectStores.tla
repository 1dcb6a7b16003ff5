---------------------------- MODULE ObjectStores ----------------------------
(***************************************************************************)
(* The clients of the object stores: S3Provider, GCSProvider,              *)
(* AzureBlobProvider, B2Provider and IPFSProvider (providers/s3.rs,        *)
(* gcs.rs, azure_blob.rs, b2.rs, ipfs.rs).  A store knows objects by their *)
(* keys and has no folders.  B2 keeps every version of a file; on IPFS, a  *)
(* pin gives a name to a content.                                          *)
(***************************************************************************)
EXTENDS Storage

-----------------------------------------------------------------------------
(* S3.  A rename is a copy and a deletion. *)

UploadsToS3(c) == Asks(c, "S3", "upload", "walk") /\ Sets(c, <<call[c].content>>)

DownloadsFromS3(c) == Asks(c, "S3", "download", "walk") /\ Gets(c)

\* S3 answers 204 for an object that is not there, too.
DeletesFromS3(c) == Asks(c, "S3", "delete", "walk") /\ Sets(c, <<>>)

CopiesOnS3(c) ==
  /\ Asks(c, "S3", "copy", "walk")
  /\ IF There(call[c].path) THEN Finishes(c, Copied(call[c])) ELSE Ends(c)

\* Slip: the deletion comes first.
RenamesOnS3Backwards(c) ==
  LET k == call[c] IN
  \/ /\ Asks(c, "S3", "rename", "walk") /\ There(k.path)
     /\ Stores(c, [objects EXCEPT ![k.path] = <<>>],
               [k EXCEPT !.step = "remove", !.content = Newest(k.path)])
  \/ /\ Asks(c, "S3", "rename", "remove")
     /\ Finishes(c, [objects EXCEPT ![k.to] = <<k.content>>])

RenamesOnS3(c) ==
  LET k == call[c] IN
  \/ /\ Asks(c, "S3", "rename", "walk") /\ There(k.path)
     /\ Stores(c, Copied(k), [k EXCEPT !.step = "remove"])
  \/ Asks(c, "S3", "rename", "walk") /\ ~There(k.path) /\ Ends(c)
  \/ Asks(c, "S3", "rename", "remove") /\ Sets(c, <<>>)

\* The names are relative to the folder of the list, where the engine expects
\* them to begin at the root.
ListsS3(c) ==
  /\ Asks(c, "S3", "list", "walk")
  /\ \/ ReadsSomePage(c)
     \/ Lists(c, {p \in call[c].seen \union FilesIn(call[c].path) : Folder(p) = <<>>})

-----------------------------------------------------------------------------
(* Google Cloud Storage and Azure Blob Storage. *)

UploadsToGcs(c) == Asks(c, "Gcs", "upload", "walk") /\ Sets(c, <<call[c].content>>)
DownloadsFromGcs(c) == Asks(c, "Gcs", "download", "walk") /\ Gets(c)
DeletesFromGcs(c) == Asks(c, "Gcs", "delete", "walk") /\ Drops(c)
ListsGcs(c) == Asks(c, "Gcs", "list", "walk") /\ ReadsOnePage(c)

UploadsToAzure(c) == Asks(c, "Azure", "upload", "walk") /\ Sets(c, <<call[c].content>>)
DownloadsFromAzure(c) == Asks(c, "Azure", "download", "walk") /\ Gets(c)
DeletesFromAzure(c) == Asks(c, "Azure", "delete", "walk") /\ Drops(c)
ListsAzure(c) == Asks(c, "Azure", "list", "walk") /\ ReadsOnePage(c)

-----------------------------------------------------------------------------
(* B2.  The client authorizes itself and looks up the bucket before its    *)
(* first request, and keeps both for good: a token that has expired is     *)
(* refused until the program is started again.                             *)

ExpiresB2 ==
  /\ client = "B2" /\ session \in {"account", "bucket"}
  /\ session' = "expired"
  /\ Fails
  /\ UNCHANGED <<client, drive, objects, folders, twice, call, calls, history>>

Caches(c, found) ==
  /\ session' = found
  /\ Answers(c, call[c])
  /\ UNCHANGED <<client, drive, objects, folders, twice, calls, history>>

AtB2(c) == client = "B2" /\ Running(c)

AuthorizesB2(c) == AtB2(c) /\ session = "none" /\ Caches(c, "account")

GetsBucketId(c) ==
  AtB2(c) /\ call[c].op # "download" /\ session = "account" /\ Caches(c, "bucket")

\* Only transient errors are tried again.
RefusedByB2(c) ==
  AtB2(c) /\ session = "expired" /\ call[c].step # "send" /\ Ends(c)

ReadyB2(c, op, step) == Asks(c, "B2", op, step) /\ session = "bucket"

GetsUploadUrl(c) ==
  ReadyB2(c, "upload", "walk") /\ Learns(c, [call[c] EXCEPT !.step = "send"])

\* The URL comes with a token of its own.  A new version: the old ones stay.
UploadsToB2(c) ==
  Asks(c, "B2", "upload", "send") /\ Sets(c, Append(objects[call[c].path], call[c].content))

\* Slip: the first version of the answer is the oldest one.
GetsOldest(c) ==
  /\ Asks(c, "B2", "download", "walk") /\ session \in {"account", "bucket"}
  /\ IF There(call[c].path) THEN Delivers(c, objects[call[c].path][1]) ELSE Ends(c)

DownloadsFromB2(c) ==
  Asks(c, "B2", "download", "walk") /\ session \in {"account", "bucket"} /\ Gets(c)

\* The newest version is looked up; it is deleted, and what was before it is the
\* newest one again.
FindsVersion(c) ==
  LET k == call[c]
      n == Len(objects[k.path])
  IN
  /\ ReadyB2(c, "delete", "walk")
  /\ IF n > 0 THEN Learns(c, [k EXCEPT !.step = "remove", !.item = n]) ELSE Ends(c)

\* It is named by its own id, which item stands for by its place among the
\* versions: 0 when another call has deleted it.
Shifted(k, j) ==
  IF j.op # "delete" \/ j.step # "remove" \/ j.path # k.path \/ j.item < k.item THEN j
  ELSE [j EXCEPT !.item = IF @ = k.item THEN 0 ELSE @ - 1]

DeletesFromB2(c) ==
  LET k == call[c]
      moved(j) == [d \in Caller |-> IF d = c THEN j
                                     ELSE IF Running(d) THEN Shifted(k, call[d]) ELSE NoCall]
  IN
  /\ ReadyB2(c, "delete", "remove")
  /\ IF k.item \notin DOMAIN objects[k.path] THEN Ends(c)
     ELSE /\ objects' = [objects EXCEPT ![k.path] = Without(@, k.item)]
          /\ \/ call' = moved(NoCall) /\ UNCHANGED faults
             \/ Fails /\ (call' = moved(Again(k)) \/ call' = moved(NoCall))
          /\ UNCHANGED <<client, drive, folders, twice, session, calls, history>>

ListsB2(c) == ReadyB2(c, "list", "walk") /\ (ReadsSomePage(c) \/ ReadsAllPages(c))

-----------------------------------------------------------------------------
(* IPFS, with the pins of Pinata.  A name may have several pins, one for   *)
(* each content uploaded under it, and they come in any order.             *)

UploadsToIpfs(c) ==
  LET k == call[c] IN
  /\ Asks(c, "Ipfs", "upload", "walk")
  /\ Sets(c, IF k.content \in Versions(k.path) THEN objects[k.path]
             ELSE Append(objects[k.path], k.content))

\* resolve_cid: the first row of the answer.
ResolvesCid(c) ==
  LET k == call[c] IN
  /\ client = "Ipfs" /\ Running(c) /\ k.step = "walk" /\ k.op \in {"download", "delete"}
  /\ \/ \E v \in Versions(k.path) : Learns(c, [k EXCEPT !.step = "send", !.item = v])
     \/ ~There(k.path) /\ Ends(c)

DownloadsFromIpfs(c) ==
  Asks(c, "Ipfs", "download", "send") /\ Delivers(c, call[c].item)

\* The content is unpinned, under whatever names it was pinned; no name pins it
\* twice.  What is not pinned any more is not found.
DeletesFromIpfs(c) ==
  LET pins(p) == {n \in DOMAIN objects[p] : objects[p][n] = call[c].item} IN
  /\ Asks(c, "Ipfs", "delete", "send")
  /\ IF \A p \in Path : pins(p) = {} THEN Ends(c)
     ELSE Finishes(c, [p \in Path |-> IF pins(p) = {} THEN objects[p]
                                      ELSE Without(objects[p], CHOOSE n \in pins(p) : TRUE)])

\* One page of all pins; for a folder, of the pins with its own name.
ListsIpfs(c) ==
  /\ Asks(c, "Ipfs", "list", "walk")
  /\ IF call[c].path = <<>> THEN ReadsOnePage(c) ELSE Lists(c, {})

-----------------------------------------------------------------------------
GoesOnObjectStore(c) ==
  \/ UploadsToS3(c) \/ DownloadsFromS3(c) \/ DeletesFromS3(c)
  \/ CopiesOnS3(c) \/ RenamesOnS3(c) \/ ListsS3(c)
  \/ UploadsToGcs(c) \/ DownloadsFromGcs(c) \/ DeletesFromGcs(c) \/ ListsGcs(c)
  \/ UploadsToAzure(c) \/ DownloadsFromAzure(c) \/ DeletesFromAzure(c) \/ ListsAzure(c)
  \/ AuthorizesB2(c) \/ GetsBucketId(c) \/ RefusedByB2(c)
  \/ GetsUploadUrl(c) \/ UploadsToB2(c) \/ DownloadsFromB2(c)
  \/ FindsVersion(c) \/ DeletesFromB2(c) \/ ListsB2(c)
  \/ UploadsToIpfs(c) \/ ResolvesCid(c) \/ DownloadsFromIpfs(c) \/ DeletesFromIpfs(c)
  \/ ListsIpfs(c)

=============================================================================
