------------------------------ MODULE Storage ------------------------------
(***************************************************************************)
(* What the clients of the storage services (providers/) have in common: a *)
(* task calls an operation of the StorageBackend trait, the client sends   *)
(* one request after the other, and most clients run the whole of it in    *)
(* execute_with_retry, which starts it from the beginning when a request   *)
(* fails with a transient error, also if the request had its effect.       *)
(*                                                                         *)
(* A request takes effect before the client gives it up, or never.  The    *)
(* modules of the clients have an action for every request of theirs.      *)
(*                                                                         *)
(* Nothing keeps the calls apart: the timed cycle (main.rs:510), one asked *)
(* for (control.rs:306) and the tasks of the watcher (watcher.rs:390) call *)
(* one client at the same time, for the same files too.                    *)
(***************************************************************************)
EXTENDS Integers, Sequences, FiniteSets

CONSTANTS
  Provider,      \* the providers that may be configured
  Name,
  Path,          \* paths of files, as sequences of names
  Id,            \* the ids that Google Drive hands out
  Root,          \* the id of its root folder
  NoItem,        \* drive[i] = NoItem: there is nothing with this id
  Content,       \* what is uploaded
  Empty,         \* the content of a file that is not filled, or with a mixture
  Caller,        \* the tasks that call the provider
  MaxAttempts,   \* max_attempts of the retry configuration
  MaxCalls,      \* bound: how many calls are made to each provider
  MaxFaults      \* bound: how many requests to each provider fail

\* Object stores know no folders.
ObjectStores == {"S3", "Gcs", "Azure", "B2", "Ipfs"}
FileTrees ==
  {"WebDav", "Nextcloud", "Sftp", "PCloud", "Dropbox", "OneDrive", "Box", "Mega", "Local"}

\* Two files or folders of one name are possible; the clients look before they create.
LooksFirst == {"GoogleDrive", "Mega"}

Last(p) == p[Len(p)]
Folder(p) == SubSeq(p, 1, Len(p) - 1)
Prefixes(p) == {SubSeq(p, 1, n) : n \in 1..Len(p)}
Folders == {<<>>} \union UNION {Prefixes(Folder(p)) : p \in Path}

Node == Id \union {Root}

Item == [name : Name, parent : Node, folder : BOOLEAN, content : Content \union {Empty}]

ASSUME StorageAssumption ==
  /\ Provider \subseteq {"GoogleDrive"} \union ObjectStores \union FileTrees
  /\ Path \subseteq Seq(Name) \ {<<>>}
  /\ Path \intersect Folders = {}
  /\ Root \notin Id
  /\ {NoItem, Empty} \intersect Content = {}
  /\ NoItem # Empty
  /\ NoItem \notin Item
  /\ MaxAttempts \in Nat \ {0}
  /\ MaxCalls \in [Provider -> Nat]
  /\ MaxFaults \in [Provider -> Nat]

VARIABLES
  client,    \* the provider that is configured
  drive,     \* Google Drive: drive[i] is the item with id i
  objects,   \* the others: the versions of a file, the newest one at the end
  folders,   \* the folders that there are, beside the root
  twice,     \* MEGA: the folders that there are two of
  session,   \* what the client of B2 has cached
  call,      \* call[c]: the call that c is making
  calls,     \* how many calls have been made
  faults,    \* how many requests have failed
  \* History: what the calls may have left at a path, exactly that after a call
  \* that succeeded; where two calls at a time were for the same file or for the
  \* same folder that is still to be made, if the client looks first; whether the
  \* client was mistaken on what there is; which files the last complete list has
  \* left out; whether a download has delivered something else.
  kept, raced, mistaken, unlisted, stale

service == <<client, drive, objects, folders, twice, session>>
history == <<kept, raced, mistaken, unlisted, stale>>
vars == <<service, call, calls, faults, history>>

NoCall == [op |-> "none"]

Op == {"upload", "download", "delete", "rename", "copy", "create_folder", "list"}

Step == {"source", "walk", "create", "session", "remove", "send"}

Left == Content \union {NoItem, Empty}

\* rest, at: the names that are left to walk down, from the node reached.
\* content: of an upload.  to: the target of a rename or copy.  item: what an
\* earlier request has found.  seen: what the pages of a list have shown.
\* others: what the calls may leave at the files of this one that run at the same
\* time.  History: what a rename or copy takes along; the files that have been in
\* the folder since the list began.
Call ==
  [op : Op, path : Path \union Folders, tries : 1..MaxAttempts, step : Step,
   rest : Seq(Name), at : Node, content : Content \union {Empty},
   to : Path \union Folders, item : Node \union Content \union {Empty} \union Nat,
   seen : SUBSET (Id \union Path), others : SUBSET Left, was : SUBSET Left,
   must : SUBSET Path]

TypeOK ==
  /\ client \in Provider
  /\ drive \in [Id -> Item \union {NoItem}]
  /\ DOMAIN objects = Path
  /\ \A p \in Path : objects[p] \in Seq(Content \union {Empty})
  /\ folders \subseteq Folders \ {<<>>}
  /\ twice \subseteq folders
  /\ session \in {"none", "account", "bucket", "expired"}
  /\ DOMAIN call = Caller
  /\ \A c \in Caller : call[c] # NoCall => call[c] \in Call
  /\ calls \in 0..MaxCalls[client]
  /\ faults \in 0..MaxFaults[client]
  /\ kept \in [Path -> SUBSET Left]
  /\ raced \subseteq Path \union Folders
  /\ mistaken \in BOOLEAN
  /\ unlisted \subseteq Path
  /\ stale \in BOOLEAN

\* There may be folders, but no files.
Init ==
  /\ client \in Provider
  /\ drive = [i \in Id |-> NoItem]
  /\ objects = [p \in Path |-> <<>>]
  /\ folders \in {f \in SUBSET (Folders \ {<<>>}) : \A q \in f : Prefixes(q) \subseteq f}
  /\ client \notin FileTrees => folders = {}
  /\ twice = {}
  /\ session = "none"
  /\ call = [c \in Caller |-> NoCall]
  /\ calls = 0
  /\ faults = 0
  /\ kept = [p \in Path |-> {NoItem}]
  /\ raced = {}
  /\ mistaken = FALSE
  /\ unlisted = {}
  /\ stale = FALSE

-----------------------------------------------------------------------------
(* The service: Google Drive knows files by their ids and names need not be *)
(* unique; the others know them by their paths.                            *)

Running(c) == call[c] # NoCall

Live == {i \in Id : drive[i] # NoItem}

\* The items that running calls have met.  An id is not given twice to them.
Held ==
  UNION {{call[c].at, call[c].item} \union call[c].seen : c \in {d \in Caller : Running(d)}}

Unused == Id \ (Live \union Held)

NewId == CHOOSE i \in Unused : TRUE

Children(n) == {i \in Live : drive[i].parent = n}

\* The items that a query for a folder or for a file finds.
Matches(n, name, folder) ==
  {i \in Children(n) : drive[i].name = name /\ drive[i].folder = folder}

\* The items that the names of path p lead to, the last one a folder or not.
Reached(p, folder) ==
  LET nodes[n \in 0..Len(p)] ==
        IF n = 0 THEN {Root}
        ELSE UNION {Matches(m, p[n], folder \/ n < Len(p)) : m \in nodes[n - 1]}
  IN  nodes[Len(p)]

ItemsAt(p) == Reached(p, FALSE)

HasFolder(q) ==
  \/ q \in folders \union {<<>>}
  \/ client = "GoogleDrive" /\ Reached(q, TRUE) # {}

There(p) == objects[p] # <<>>

Newest(p) == objects[p][Len(objects[p])]

FilesIn(q) == {p \in Path : Folder(p) = q /\ There(p)}

-----------------------------------------------------------------------------
(* Calls.  The engine downloads what it has listed, and moves or copies a  *)
(* file to a path that is free.                                            *)

Renames == {"GoogleDrive", "S3", "Dropbox", "OneDrive", "Local"}
CreatesFolders ==
  {"GoogleDrive", "WebDav", "Nextcloud", "Dropbox", "OneDrive", "Box", "Local"}

FirstStep(op) ==
  IF client = "GoogleDrive" /\ op \in {"rename", "copy"} THEN "source" ELSE "walk"

\* These clients do not use execute_with_retry.
Attempts == IF client \in {"S3", "Sftp", "Mega", "Local"} THEN 1 ELSE MaxAttempts

\* What operation op leaves at p when it goes no further; on B2, a deletion
\* brings back what was uploaded before.
Halfway(op, p) ==
  {v \in Left :
     \/ v = Empty /\ client = "GoogleDrive" /\ op = "delete"
     \/ v = Empty /\ client = "GoogleDrive" /\ op \in {"upload", "download"}
                 /\ NoItem \in kept[p]
     \/ v = Empty /\ client \in {"Sftp", "Local"} /\ op \in {"upload", "copy"}
     \/ v = NoItem /\ client = "Mega" /\ op = "upload"
     \/ v \in Content /\ client = "B2" /\ op = "delete"}

\* The files of call k.
Uses(k) == {k.path, k.to} \intersect Path

Carries(k) == k.op \in {"rename", "copy"}

\* What call k may leave at its file.
MayLeave(k) ==
  CASE k.op = "upload" -> {k.content} \union Halfway("upload", k.path)
    [] k.op = "download" -> Halfway("download", k.path)
    [] k.op = "delete" -> {NoItem} \union Halfway("delete", k.path)
    [] OTHER -> {}

\* The running calls that use a file of call k, too.
Meets(k) == {d \in Caller : Running(d) /\ Uses(call[d]) \intersect Uses(k) # {}}

\* What j may leave at the files of k; where one of them carries a file away, that
\* may be anything.
Brings(j, k) == IF Carries(j) \/ Carries(k) THEN Left ELSE MayLeave(j)

\* The files that a call that carries, and one that meets it, leave uncertain.
Mixed(k) ==
  UNION {Uses(k) \union Uses(call[d]) : d \in {m \in Meets(k) : Carries(k) \/ Carries(call[m])}}

\* The folders that call k makes where they are missing.
Wants(k) ==
  IF client = "GoogleDrive" /\ k.op \in {"create_folder", "list"} THEN Prefixes(k.path)
  ELSE IF client = "GoogleDrive" \/ k.op = "upload" THEN Prefixes(Folder(k.to))
  ELSE {}

\* Where call k and a running one may both look and find nothing.
Races(k) ==
  {p \in Uses(k) : \E d \in Meets(k) : p \in Uses(call[d])} \union Mixed(k)
    \union {q \in Wants(k) : /\ ~HasFolder(q)
                             /\ \E d \in Caller : Running(d) /\ q \in Wants(call[d])}

\* No two calls at a time were for p, or for a folder on the way that was to be made.
Clean(p) == Prefixes(p) \intersect raced = {}

\* A call before its first request.
First(op, path) ==
  [op |-> op, path |-> path, tries |-> Attempts, step |-> FirstStep(op),
   rest |-> path, at |-> Root, content |-> Empty, to |-> path, item |-> Root,
   seen |-> {}, others |-> {}, was |-> {}, must |-> {}]

\* A file that may go away need not be listed.
Begins(c, k, maybe) ==
  LET now == [p \in Path |-> IF p \in Mixed(k) THEN Left ELSE maybe[p]]
      others == UNION {Brings(call[d], k) : d \in Meets(k)}
  IN
  /\ calls' = calls + 1
  /\ call' = [d \in Caller |->
       IF d = c THEN [k EXCEPT !.others = others]
       ELSE IF Running(d) THEN
         [call[d] EXCEPT !.must = {p \in @ : NoItem \notin now[p]},
                         !.others = IF d \in Meets(k) THEN @ \union Brings(k, call[d]) ELSE @]
       ELSE NoCall]
  /\ kept' = now
  /\ raced' = raced \union
       (IF client \notin LooksFirst THEN {}
        ELSE Races(k) \union (IF Carries(k) /\ ~Clean(k.path) THEN {k.to} ELSE {}))
  /\ UNCHANGED <<service, faults, mistaken, unlisted, stale>>

BeginsUpload(c, p, v) ==
  Begins(c, [First("upload", p) EXCEPT !.content = v],
         [kept EXCEPT ![p] = @ \union {v} \union Halfway("upload", p)])

BeginsDownload(c, p) ==
  /\ kept[p] # {NoItem}
  /\ Begins(c, First("download", p), [kept EXCEPT ![p] = @ \union Halfway("download", p)])

BeginsDelete(c, p) ==
  Begins(c, First("delete", p), [kept EXCEPT ![p] = @ \union {NoItem} \union Halfway("delete", p)])

BeginsRename(c, p, q) ==
  /\ client \in Renames
  /\ p # q
  /\ kept[q] = {NoItem}
  /\ Begins(c, [First("rename", p) EXCEPT !.to = q, !.was = kept[p]],
            [kept EXCEPT ![p] = @ \union {NoItem}, ![q] = @ \union kept[p]])

BeginsCopy(c, p, q) ==
  /\ client \in Renames
  /\ p # q
  /\ kept[q] = {NoItem}
  /\ Begins(c, [First("copy", p) EXCEPT !.to = q, !.was = kept[p]],
            [kept EXCEPT ![q] = @ \union kept[p] \union Halfway("copy", q)])

BeginsCreateFolder(c, q) ==
  client \in CreatesFolders /\ Begins(c, First("create_folder", q), kept)

BeginsList(c, q) ==
  LET files == {p \in Path : Folder(p) = q /\ NoItem \notin kept[p]}
  IN  Begins(c, [First("list", q) EXCEPT !.must = files], kept)

-----------------------------------------------------------------------------
(* Requests and their answers. *)

\* Slip: there is always another attempt.
AgainForever(k) ==
  [k EXCEPT !.tries = @ - 1, !.step = FirstStep(k.op), !.rest = k.path,
            !.at = Root, !.seen = {}]

\* Slip: the retry goes on where the request failed.
AgainFromHere(k) == IF k.tries = 1 THEN NoCall ELSE [k EXCEPT !.tries = @ - 1]

Again(k) ==
  IF k.tries = 1 THEN NoCall
  ELSE [k EXCEPT !.tries = @ - 1, !.step = FirstStep(k.op), !.rest = k.path,
                 !.at = Root, !.item = Root, !.seen = {}]

Becomes(c, k) == call' = [call EXCEPT ![c] = k]

Fails == faults < MaxFaults[client] /\ faults' = faults + 1

\* No answer comes: a timeout is transient, a broken connection is not.
IsLost(c) == Fails /\ (Becomes(c, Again(call[c])) \/ Becomes(c, NoCall))

\* The answer makes the call k; or it is lost.
Answers(c, k) ==
  \/ Becomes(c, k) /\ UNCHANGED faults
  \/ IsLost(c)

\* The call c of provider x is at this step of operation op.
Asks(c, x, op, step) ==
  client = x /\ Running(c) /\ call[c].op = op /\ call[c].step = step

\* The request does not change the service.
Learns(c, k) == Answers(c, k) /\ UNCHANGED <<service, calls, history>>

\* The call ends with Ok for an answer that changes nothing, or with an error
\* that is not transient.
Ends(c) == Becomes(c, NoCall) /\ UNCHANGED <<service, calls, faults, history>>

\* What there may be when a call has succeeded: what it leaves, or one that ran at
\* the same time.
Leaves(k) ==
  LET moved == (k.was \ {NoItem}) \union k.others
      gone == {NoItem} \union k.others
  IN  CASE k.op = "upload" ->
             [kept EXCEPT ![k.path] = @ \intersect ({k.content} \union k.others)]
        [] k.op = "delete" ->
             IF client = "B2" THEN kept ELSE [kept EXCEPT ![k.path] = @ \intersect gone]
        [] k.op = "rename" ->
             [kept EXCEPT ![k.path] = @ \intersect gone, ![k.to] = @ \intersect moved]
        [] k.op = "copy" -> [kept EXCEPT ![k.to] = @ \intersect moved]

\* The answer ends the call, or it is lost.
Succeeds(c) ==
  /\ \/ Becomes(c, NoCall) /\ kept' = Leaves(call[c]) /\ UNCHANGED faults
     \/ IsLost(c) /\ UNCHANGED kept
  /\ UNCHANGED <<client, session, calls, raced, mistaken, unlisted, stale>>

\* The request sets the objects, and ends the call.
Finishes(c, new) ==
  objects' = new /\ Succeeds(c) /\ UNCHANGED <<drive, folders, twice>>

\* The request sets the objects, and the call goes on with k.
Stores(c, new, k) ==
  objects' = new /\ Answers(c, k)
  /\ UNCHANGED <<client, drive, folders, twice, session, calls, history>>

\* The request makes the folders, and the call goes on with k.
Makes(c, qs, k) ==
  folders' = folders \union qs /\ Answers(c, k)
  /\ UNCHANGED <<client, drive, objects, twice, session, calls, history>>

\* The answer has the content v, if it is not lost.
Delivers(c, v) ==
  /\ \/ /\ Becomes(c, NoCall)
        /\ stale' = (stale \/ (Clean(call[c].path) /\ v \notin kept[call[c].path]))
        /\ UNCHANGED faults
     \/ IsLost(c) /\ UNCHANGED stale
  /\ UNCHANGED <<service, calls, kept, raced, mistaken, unlisted>>

\* The list has these files.
Lists(c, files) ==
  /\ Becomes(c, NoCall)
  /\ unlisted' = call[c].must \ files
  /\ UNCHANGED <<service, calls, faults, kept, raced, mistaken, stale>>

\* An answer that is not one is taken for a complete list.
ListsMistaken(c, files) ==
  /\ Becomes(c, NoCall)
  /\ unlisted' = call[c].must \ files
  /\ mistaken' = TRUE
  /\ Fails
  /\ UNCHANGED <<service, calls, kept, raced, stale>>

\* A request, or that for a token, gets a transient error and has no effect.
Retries(c) ==
  /\ Running(c)
  /\ Becomes(c, Again(call[c]))
  /\ Fails
  /\ UNCHANGED <<service, calls, history>>

\* Any other error ends the call.
Refused(c) ==
  /\ Running(c)
  /\ Becomes(c, NoCall)
  /\ Fails
  /\ UNCHANGED <<service, calls, history>>

\* The program is killed; what it had cached is gone.
Crash ==
  /\ \E c \in Caller : Running(c)
  /\ call' = [c \in Caller |-> NoCall]
  /\ session' = "none"
  /\ Fails
  /\ UNCHANGED <<client, drive, objects, folders, twice, calls, history>>

-----------------------------------------------------------------------------
(* Requests to a service that knows files by their paths. *)

\* The object of the call becomes these versions, and the call ends.
Sets(c, versions) == Finishes(c, [objects EXCEPT ![call[c].path] = versions])

\* A download of what there is, or "not found".
Gets(c) ==
  LET p == call[c].path
  IN  IF There(p) THEN Delivers(c, Newest(p)) ELSE Ends(c)

\* A deletion of an object that is not there: "not found".
Drops(c) == IF There(call[c].path) THEN Sets(c, <<>>) ELSE Ends(c)

\* What the pages of a list have not shown yet.
Unseen(k) == FilesIn(k.path) \ k.seen

ReadsSomePage(c) ==
  LET k == call[c] IN
  \E page \in SUBSET Unseen(k) \ {{}, Unseen(k)} :
    Learns(c, [k EXCEPT !.seen = @ \union page])

ReadsAllPages(c) == Lists(c, call[c].seen \union FilesIn(call[c].path))

\* The service breaks its answer into pages, and the client reads the first one.
ReadsOnePage(c) ==
  LET files == FilesIn(call[c].path)
  IN  \E page \in SUBSET files : (page = {} => files = {}) /\ Lists(c, page)

\* The versions but for the nth.
Without(versions, n) == SubSeq(versions, 1, n - 1) \o SubSeq(versions, n + 1, Len(versions))

Versions(p) == {objects[p][n] : n \in DOMAIN objects[p]}

\* The file at p that was opened for the call gets the content v; or, where another
\* call fills it at the same time, that or a mixture.  If it was removed, nothing
\* changes.
Fills(c, p, v) ==
  IF There(p)
    THEN \E w \in {v} \union ({Empty, Newest(p)} \intersect call[c].others) :
           Finishes(c, [objects EXCEPT ![p] = <<w>>])
    ELSE Finishes(c, objects)

\* The copy of a file.
Copied(k) == [objects EXCEPT ![k.to] = <<Newest(k.path)>>]

=============================================================================
