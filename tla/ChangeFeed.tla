----------------------------- MODULE ChangeFeed -----------------------------
(***************************************************************************)
(* The change feeds of three clients, get_latest_cursor and fetch_changes, *)
(* and a caller that follows one: it takes a cursor, lists the files once, *)
(* and from then on applies the changes that it fetches.  (No program of   *)
(* the repository follows a feed.)                                         *)
(*                                                                         *)
(* A cursor is a position in the log of the service.  A page goes on from  *)
(* one to any later one, and reports the files that have changed in        *)
(* between as they are when it is requested.  Dropbox and Google Drive     *)
(* return one page per call, OneDrive collects all of them.                *)
(***************************************************************************)
EXTENDS Integers, Sequences, TLC

CONSTANTS
  Feed,             \* a subset of {"Dropbox", "OneDrive", "GoogleDrive"}
  Document,         \* the paths of files
  NameOf,           \* NameOf[d]: the name of d alone, which is also a path
  Text,             \* what a file may hold
  Trashed, Removed, \* a file that is deleted; that is deleted for good
  MaxFetches,       \* max_attempts of the retry configuration
  MaxChanges,       \* bound: the length of the log
  MaxLost           \* bound: how many requests fail

ASSUME FeedAssumption ==
  /\ Feed \subseteq {"Dropbox", "OneDrive", "GoogleDrive"}
  /\ NameOf \in [Document -> Document]
  /\ Trashed # Removed /\ {Trashed, Removed} \intersect Text = {}
  /\ MaxFetches \in Nat \ {0}
  /\ MaxChanges \in Nat
  /\ MaxLost \in Nat

VARIABLES
  feed,       \* the service
  documents,  \* its files
  log,        \* the files that have changed, in order
  follower,   \* the caller: "idle", "lists", "follows" or "fetches"
  cursor,     \* its cursor
  mirror,     \* what it takes the files for
  position,   \* next_url: where the next page starts
  changes,    \* the changes of the pages so far
  fetches,    \* attempt of execute_with_retry
  lost        \* how many requests have failed

service == <<feed, documents, log>>
request == <<position, changes, fetches>>
feedVars == <<service, follower, cursor, mirror, request, lost>>

FeedInit ==
  /\ feed \in Feed
  /\ documents = [d \in Document |-> Removed]
  /\ log = <<>>
  /\ follower = "idle"
  /\ cursor = 0
  /\ mirror = [d \in Document |-> Trashed]
  /\ position = 0
  /\ changes = <<>>
  /\ fetches = 1
  /\ lost = 0

\* A file is written, deleted, or deleted for good.
Changes(d) ==
  /\ Len(log) < MaxChanges
  /\ \E v \in (Text \union {Trashed, Removed}) \ {documents[d]} :
       documents' = [documents EXCEPT ![d] = v]
  /\ log' = Append(log, d)
  /\ UNCHANGED <<feed, follower, cursor, mirror, request, lost>>

-----------------------------------------------------------------------------
(* What a page reports. *)

\* Dropbox reports paths; the others report names, which count as paths.
Shown(d) == IF feed = "Dropbox" THEN d ELSE NameOf[d]

Value(d) == IF documents[d] \in Text THEN documents[d] ELSE Trashed

\* What is deleted for good comes without its name: OneDrive's client skips it,
\* Google Drive's client takes it for the deletion of a file without a name.
Reported(from, to) ==
  {d \in {log[k] : k \in (from + 1)..to} : feed = "Dropbox" \/ documents[d] # Removed}

\* The last entry of a path decides, and the entries come in any order.
Page(from, to) ==
  LET shown == {Shown(d) : d \in Reported(from, to)} IN
  {page \in [shown -> Text \union {Trashed}] :
     \A p \in shown : \E d \in Reported(from, to) : Shown(d) = p /\ page[p] = Value(d)}

-----------------------------------------------------------------------------
(* get_latest_cursor, and the caller's list. *)

get_latest_cursor ==
  /\ follower = "idle"
  /\ cursor' = Len(log)
  /\ follower' = "lists"
  /\ UNCHANGED <<service, mirror, request, lost>>

Lists ==
  /\ follower = "lists"
  /\ mirror' = [d \in Document |-> Value(d)]
  /\ follower' = "follows"
  /\ UNCHANGED <<service, cursor, request, lost>>

-----------------------------------------------------------------------------
(* fetch_changes *)

BeginsFetch ==
  /\ follower = "follows"
  /\ follower' = "fetches"
  /\ position' = cursor
  /\ changes' = <<>>
  /\ fetches' = 1
  /\ UNCHANGED <<service, cursor, mirror, lost>>

\* The caller applies the changes and keeps the cursor.
Follows(to, page) ==
  /\ mirror' = [d \in Document |->
                  IF d \in DOMAIN page THEN page[d]
                  ELSE IF d \in DOMAIN changes THEN changes[d] ELSE mirror[d]]
  /\ cursor' = to
  /\ follower' = "follows"
  /\ UNCHANGED <<service, request, lost>>

\* One page; the cursor is that of the next one.
FetchesPage ==
  /\ follower = "fetches"
  /\ feed # "OneDrive"
  /\ \E to \in cursor..Len(log) :
       /\ cursor < Len(log) => to > cursor
       /\ \E page \in Page(cursor, to) : Follows(to, page)

\* @odata.nextLink
FetchesNextLink ==
  /\ follower = "fetches"
  /\ feed = "OneDrive"
  /\ \E to \in (position + 1)..(Len(log) - 1) :
       /\ \E page \in Page(position, to) : changes' = page @@ changes
       /\ position' = to
  /\ UNCHANGED <<service, follower, cursor, mirror, fetches, lost>>

\* @odata.deltaLink
FetchesDeltaLink ==
  /\ follower = "fetches"
  /\ feed = "OneDrive"
  /\ \E page \in Page(position, Len(log)) : Follows(Len(log), page)

\* Slip: the new attempt goes on with the page that has failed.
FetchesOnward == position' = position /\ changes' = <<>>

\* A new attempt starts again from the cursor of the caller.
FetchesAgain == position' = cursor /\ changes' = <<>>

LosesRequest ==
  /\ follower = "fetches"
  /\ lost < MaxLost
  /\ lost' = lost + 1
  /\ IF fetches < MaxFetches
       THEN FetchesAgain /\ fetches' = fetches + 1 /\ UNCHANGED follower
       ELSE follower' = "follows" /\ UNCHANGED request
  /\ UNCHANGED <<service, cursor, mirror>>

fetch_changes == FetchesPage \/ FetchesNextLink \/ FetchesDeltaLink

Progress == get_latest_cursor \/ Lists \/ BeginsFetch \/ fetch_changes

FeedNext == Progress \/ LosesRequest \/ \E d \in Document : Changes(d)

FeedSpec == FeedInit /\ [][FeedNext]_feedVars

\* The caller goes on, and not all requests fail.
FeedFairSpec == FeedSpec /\ WF_feedVars(Progress)

-----------------------------------------------------------------------------
(* Properties. *)

(* A caller that takes a cursor, lists the files and then follows the feed ends up
   with every file as it is, whatever changes meanwhile and whichever requests fail
   on which page: no page may be passed over, and none must stop the feed
   (google_drive.rs:674, onedrive.rs:435).  With OneDrive and Google Drive
   this is so only for files in the root folder whose name no other file has,
   and that are not deleted for good. *)
FollowersCatchUp ==
  \A d \in Document :
    (\A e \in Document : Shown(e) = d <=> e = d) =>
      <>[](mirror[d] = Value(d) \/ (feed # "Dropbox" /\ documents[d] = Removed))

=============================================================================
