------------------------ MODULE StorageClientsProofs ------------------------
(***************************************************************************)
(* Proofs about the storage clients, for all paths, contents, tasks,       *)
(* attempts and faults: the type invariant and the five properties of all  *)
(* 15 clients, also while calls for one file run at the same time; of the  *)
(* clients of Google Drive and MEGA, which look before they create, the    *)
(* five until two calls race.                                              *)
(*                                                                         *)
(* StorageInv types the variables and says what a call is given            *)
(* (CallOK) and what it knows of the running ones that share a file with   *)
(* it (Aware).  HoldsInv is about the clients that know files by their     *)
(* paths: a file is as the calls may have left it (PathOK), what a running *)
(* call may leave is expected (Standing), and what an earlier request of   *)
(* it has found is still so, or another call has met it (AtStep).  Follows *)
(* is what any request does, of whatever client: it touches the files of   *)
(* its own call only.                                                      *)
(*                                                                         *)
(* DriveInv is about the client of Google Drive: its items are a tree      *)
(* (Tree), with one path for every id (loc), every running call is on its  *)
(* way to its target (Walking) and expects what it may leave (Owing), and  *)
(* no two calls are on the way to one folder to make (Ordered).            *)
(***************************************************************************)
EXTENDS StorageClients, FiniteSetTheorems, WellFoundedInduction, TLAPS

\* Everything that a step keeps of a call that goes on.
Keeps(k, j) ==
  /\ k.op = j.op /\ k.path = j.path /\ k.to = j.to /\ k.content = j.content
  /\ k.others = j.others /\ k.was = j.was /\ k.must = j.must

\* A call and what its operation takes.
CallOK(k) ==
  /\ k \in Call
  /\ k.op \in {"upload", "download", "delete"} => k.path \in Path /\ k.to = k.path
  /\ Carries(k) =>
       /\ client \in Renames /\ k.path \in Path /\ k.to \in Path /\ k.path # k.to
       /\ k.others \in {{}, Left}
  /\ k.op \in {"create_folder", "list"} => k.path \in Folders /\ k.to = k.path
  /\ k.op = "upload" => k.content \in Content
  /\ k.step = "create" => client \in {"GoogleDrive", "Mega"} /\ k.rest # <<>>
  /\ k.step = "source" => client = "GoogleDrive"
  /\ k.step = "remove" => <<client, k.op>> \in {<<"S3", "rename">>, <<"B2", "delete">>,
                                                <<"Mega", "upload">>}
  /\ client = "Mega" /\ k.step = "create" =>
       k.op = "upload" /\ Len(k.rest) \in 1..Len(Folder(k.path))
  /\ client = "B2" /\ k.step = "remove" => k.item \in Nat
  /\ client = "Local" /\ k.op = "copy" /\ k.step = "send" => k.item \in Content \union {Empty}

\* Call j expects what k may leave at their files; on Google Drive and MEGA, that
\* they have one is noted, and on MEGA, that they are to make one folder.
Aware(j, k) ==
  /\ Uses(j) \intersect Uses(k) # {} =>
       /\ client \in LooksFirst => raced # {}
       /\ client # "GoogleDrive" => Brings(k, j) \subseteq j.others
  /\ client = "Mega" /\ raced = {} => Wants(j) \intersect Wants(k) \subseteq folders

ServiceType ==
  /\ client \in Provider
  /\ drive \in [Id -> Item \union {NoItem}]
  /\ DOMAIN objects = Path
  /\ \A p \in Path : objects[p] \in Seq(Content \union {Empty})
  /\ folders \subseteq Folders \ {<<>>}
  /\ twice \subseteq folders
  /\ session \in {"none", "account", "bucket", "expired"}

HistoryType ==
  /\ kept \in [Path -> SUBSET Left]
  /\ raced \subseteq Path \union Folders
  /\ mistaken \in BOOLEAN
  /\ unlisted \subseteq Path
  /\ stale \in BOOLEAN

CallsInv ==
  /\ DOMAIN call = Caller
  /\ \A c \in Caller : Running(c) => CallOK(call[c])
  /\ calls \in 0..MaxCalls[client]
  /\ faults \in 0..MaxFaults[client]
  /\ client \notin LooksFirst => raced = {}
  /\ \A c, d \in Caller : c # d /\ Running(c) /\ Running(d) => Aware(call[c], call[d])

StorageInv == ServiceType /\ HistoryType /\ CallsInv

\* What the properties say of the providers that know files by their paths, and
\* whose objects have one content.
ByPath == client \notin {"GoogleDrive", "Ipfs"}

Now(p) == IF There(p) THEN Newest(p) ELSE NoItem

PathOK(p) ==
  /\ Now(p) \in kept[p]
  /\ client # "B2" => Len(objects[p]) <= 1
  /\ client = "B2" => objects[p] \in Seq(Content)

ListOK ==
  client \notin {"Gcs", "Azure", "Box"} =>
    \A p \in unlisted : client \in {"S3", "PCloud"} /\ Folder(p) # <<>>

\* What call k may leave is expected, and what it carries is where it should be,
\* if no other call has met it.
Standing(k) ==
  /\ ~Carries(k) => MayLeave(k) \subseteq kept[k.path]
  /\ Carries(k) /\ k.others # {} => kept[k.path] = Left /\ kept[k.to] = Left
  /\ Carries(k) /\ k.others = {} =>
       /\ Now(k.path) \in k.was \union {NoItem}
       /\ k.was \union Halfway(k.op, k.to) \subseteq kept[k.to]
       /\ k.op = "rename" =>
            NoItem \in kept[k.path] /\ (Now(k.path) \in k.was \/ Now(k.to) \in k.was)
  /\ k.op = "list" => \A p \in k.must : Folder(p) = k.path /\ NoItem \notin kept[p]
  /\ client = "Mega" => k.others = {}

\* The folders that call k is to make on MEGA.
ToMake(k) ==
  LET q == Folder(k.path)
  IN  {SubSeq(q, 1, n) : n \in (Len(q) - Len(k.rest) + 1)..Len(q)}

\* What an earlier request of call k has found or left.
AtStep(k) ==
  /\ client = "Mega" /\ k.step = "create" =>
       /\ HasFolder(SubSeq(Folder(k.path), 1, Len(Folder(k.path)) - Len(k.rest)))
       /\ ToMake(k) \intersect folders = {}
  /\ client = "Mega" /\ k.step = "remove" => k.item = Len(objects[k.path])
  /\ client = "Mega" /\ k.step = "send" => k.op = "upload" /\ objects[k.path] = <<>>
  /\ k.op = "rename" /\ k.step = "remove" /\ k.others = {} => Now(k.to) \in k.was \ {NoItem}
  /\ client \in {"Sftp", "Local"} /\ k.op = "upload" /\ k.step = "send" =>
       Now(k.path) \in {Empty} \union k.others
  /\ k.op = "copy" /\ k.step = "send" /\ k.others = {} =>
       k.item \in k.was \ {NoItem} /\ There(k.to)

\* A folder is in a folder.
Nested == \A q \in folders : Prefixes(q) \subseteq folders

HoldsInv ==
  ByPath /\ ~mistaken /\ raced = {} =>
    /\ \A p \in Path : PathOK(p)
    /\ ~stale /\ ListOK
    /\ client = "Mega" => twice = {} /\ Nested
    /\ \A c \in Caller : Running(c) => Standing(call[c]) /\ AtStep(call[c])

LEMMA InvHasType == StorageInv => TypeOK
BY DEF StorageInv, ServiceType, HistoryType, CallsInv, TypeOK, CallOK, Running

-----------------------------------------------------------------------------
(* Paths. *)

LEMMA PrefixesAre ==
  ASSUME NEW s \in Seq(Name)
  PROVE  /\ \A q \in Prefixes(s) : q \in Seq(Name) /\ q # <<>>
         /\ \A q \in Prefixes(s) : Prefixes(q) \subseteq Prefixes(s)
         /\ Folder(s) \in Seq(Name)
         /\ s # <<>> => s \in Prefixes(s)
<1>1. ASSUME NEW n \in 1..Len(s)
      PROVE  /\ SubSeq(s, 1, n) \in Seq(Name)
             /\ Len(SubSeq(s, 1, n)) = n
             /\ \A m \in 1..n : SubSeq(SubSeq(s, 1, n), 1, m) = SubSeq(s, 1, m)
  OBVIOUS
<1>2. s # <<>> => Len(s) \in 1..Len(s) /\ SubSeq(s, 1, Len(s)) = s
  OBVIOUS
<1>3. Folder(s) \in Seq(Name)
  BY DEF Folder
<1>4. \A q \in Prefixes(s) : \E n \in 1..Len(s) : q = SubSeq(s, 1, n)
  BY DEF Prefixes
<1>5. \A q \in Prefixes(s) : q \in Seq(Name) /\ q # <<>>
  BY <1>1, <1>4
<1>6. ASSUME NEW q \in Prefixes(s), NEW r \in Prefixes(q)
      PROVE  r \in Prefixes(s)
  <2>1. PICK n \in 1..Len(s) : q = SubSeq(s, 1, n)
    BY <1>4
  <2>2. PICK m \in 1..n : r = SubSeq(s, 1, m)
    BY <1>1, <1>6, <2>1 DEF Prefixes
  <2> QED
    BY <2>1, <2>2 DEF Prefixes
<1>7. s # <<>> => s \in Prefixes(s)
  BY <1>2 DEF Prefixes
<1> QED
  BY <1>3, <1>5, <1>6, <1>7

LEMMA FoldersAre ==
  /\ \A q \in Path \union Folders : q \in Seq(Name)
  /\ \A p \in Path : p # <<>> /\ Len(p) > 0 /\ Prefixes(Folder(p)) \subseteq Folders \ {<<>>}
                     /\ Folder(p) \in Folders /\ Last(p) \in Name
  /\ \A q \in Folders : Prefixes(q) \subseteq Folders \ {<<>>}
                        /\ (q # <<>> => q \in Prefixes(q))
  /\ Path \intersect Folders = {}
<1> USE StorageAssumption
<1>1. \A p \in Path : p \in Seq(Name) /\ p # <<>> /\ Len(p) > 0 /\ Last(p) \in Name
                      /\ Folder(p) \in Seq(Name)
  BY PrefixesAre DEF Last
<1>2. \A p \in Path : Prefixes(Folder(p)) \subseteq Folders
  BY DEF Folders
<1>3. \A q \in Folders : q = <<>> \/ \E p \in Path : q \in Prefixes(Folder(p))
  BY DEF Folders
<1>4. ASSUME NEW q \in Folders
      PROVE  q \in Seq(Name)
  <2>1. CASE q = <<>>
    BY <2>1
  <2>2. CASE q # <<>>
    <3>1. PICK p \in Path : q \in Prefixes(Folder(p))
      BY <1>3, <2>2
    <3> QED
      BY <1>1, <3>1, PrefixesAre
  <2> QED
    BY <2>1, <2>2
<1>5. \A q \in Folders : Prefixes(q) \subseteq Folders \ {<<>>}
  <2> TAKE q \in Folders
  <2>1. CASE q = <<>>
    BY <2>1 DEF Prefixes
  <2>2. CASE q # <<>>
    <3>1. PICK p \in Path : q \in Prefixes(Folder(p))
      BY <1>3, <2>2
    <3>2. Prefixes(q) \subseteq Prefixes(Folder(p))
      BY <1>1, <3>1, PrefixesAre
    <3> QED
      BY <1>1, <1>2, <3>2, PrefixesAre
  <2> QED
    BY <2>1, <2>2
<1>6. \A p \in Path : Folder(p) \in Folders
  <2> TAKE p \in Path
  <2>1. Folder(p) = <<>> \/ Folder(p) \in Prefixes(Folder(p))
    BY <1>1, PrefixesAre
  <2> QED
    BY <1>2, <2>1 DEF Folders
<1>7. \A p \in Path : Prefixes(Folder(p)) \subseteq Folders \ {<<>>}
  BY <1>1, <1>2, PrefixesAre
<1>8. \A q \in Folders : q # <<>> => q \in Prefixes(q)
  BY <1>4, PrefixesAre
<1> QED
  BY <1>1, <1>4, <1>5, <1>6, <1>7, <1>8

-----------------------------------------------------------------------------
(* Calls. *)

LEMMA AttemptsAre == Attempts \in 1..MaxAttempts
BY StorageAssumption DEF Attempts

LEMMA NoCallIsNone == \A k \in Call : k # NoCall
BY DEF Call, NoCall, Op

\* A call that starts again is the same call.
LEMMA AgainIs ==
  ASSUME NEW k \in Call
  PROVE  \/ Again(k) = NoCall
         \/ /\ Again(k) \in Call /\ Keeps(Again(k), k)
            /\ Again(k).step = FirstStep(k.op)
            /\ Again(k).rest = k.path
<1>1. k.path \in Seq(Name) /\ Root \in Node
  BY FoldersAre DEF Call, Node
<1>2. k.tries # 1 => k.tries - 1 \in 1..MaxAttempts
  BY StorageAssumption DEF Call
<1>3. FirstStep(k.op) \in Step
  BY DEF FirstStep, Step
<1>4. CASE k.tries # 1
  BY <1>1, <1>2, <1>3, <1>4 DEF Again, Call, Keeps
<1> QED
  BY <1>4 DEF Again

\* What a call may leave.
LEMMA MayLeaveIs ==
  ASSUME NEW k, CallOK(k)
  PROVE  /\ MayLeave(k) \subseteq Left
         /\ k.op = "upload" => MayLeave(k) = {k.content} \union Halfway("upload", k.path)
         /\ k.op = "download" => MayLeave(k) = Halfway("download", k.path)
         /\ k.op = "delete" => MayLeave(k) = {NoItem} \union Halfway("delete", k.path)
         /\ k.op \notin {"upload", "download", "delete"} => MayLeave(k) = {}
<1>1. /\ k.op = "upload" => MayLeave(k) = {k.content} \union Halfway("upload", k.path)
      /\ k.op = "download" => MayLeave(k) = Halfway("download", k.path)
      /\ k.op = "delete" => MayLeave(k) = {NoItem} \union Halfway("delete", k.path)
      /\ k.op \notin {"upload", "download", "delete"} => MayLeave(k) = {}
  BY DEF MayLeave
<1>2. k.op = "upload" => k.content \in Left
  BY DEF CallOK, Left
<1>3. \A op, p : Halfway(op, p) \subseteq Left
  BY DEF Halfway
<1>4. NoItem \in Left
  BY DEF Left
<1> QED
  BY <1>1, <1>2, <1>3, <1>4

\* It depends on the files there are on Google Drive only.
LEMMA MayLeaveStays ==
  ASSUME UNCHANGED client, client # "GoogleDrive"
  PROVE  /\ \A op, p : Halfway(op, p)' = Halfway(op, p)
         /\ \A k : MayLeave(k)' = MayLeave(k)
         /\ \A j, k : Brings(j, k)' = Brings(j, k)
<1>1. \A op, p : Halfway(op, p)' = Halfway(op, p)
  BY DEF Halfway
<1>2. \A k : MayLeave(k)' = MayLeave(k)
  BY <1>1 DEF MayLeave
<1> QED
  BY <1>1, <1>2 DEF Brings

\* Two calls with the same files.
LEMMA KeepsMeans ==
  ASSUME NEW k, NEW j, Keeps(k, j)
  PROVE  /\ Uses(k) = Uses(j) /\ Carries(k) = Carries(j) /\ MayLeave(k) = MayLeave(j)
         /\ Wants(k) = Wants(j)
         /\ \A i : Brings(k, i) = Brings(j, i) /\ Brings(i, k) = Brings(i, j)
<1>1. Uses(k) = Uses(j) /\ Carries(k) = Carries(j) /\ Wants(k) = Wants(j)
  BY DEF Keeps, Uses, Carries, Wants
<1>2. MayLeave(k) = MayLeave(j)
  BY DEF Keeps, MayLeave
<1> QED
  BY <1>1, <1>2 DEF Brings

\* The invariant is to be kept for a provider that knows files by their paths.
Holding == ByPath /\ ~mistaken' /\ ~mistaken /\ raced = {} /\ HoldsInv

\* Call c becomes k.  On B2, others may learn of the version that it has deleted.
Steps(c, k) ==
  /\ DOMAIN call' = Caller /\ call'[c] = k
  /\ \A d \in Caller \ {c} :
       \/ call'[d] = call[d]
       \/ client = "B2" /\ Running(d) /\ \E n \in Nat : call'[d] = [call[d] EXCEPT !.item = n]

\* The call c goes on or ends.
GoesOn(c) ==
  /\ \E k : /\ Steps(c, k)
            /\ \/ k = NoCall
               \/ /\ CallOK(k)' /\ Keeps(k, call[c])
                  /\ Holding => Standing(k)' /\ AtStep(k)'
  /\ faults' \in 0..MaxFaults[client]

LEMMA BecomesIs ==
  ASSUME StorageInv, NEW c \in Caller, NEW k, Becomes(c, k)
  PROVE  Steps(c, k)
BY DEF StorageInv, CallsInv, Becomes, Steps

LEMMA FailsIs ==
  ASSUME StorageInv, Fails
  PROVE  faults' \in 0..MaxFaults[client]
<1>1. MaxFaults[client] \in Nat
  BY StorageAssumption DEF StorageInv, ServiceType
<1> QED
  BY <1>1 DEF StorageInv, CallsInv, Fails

\* What is expected of a call is expected of it when it goes on.
LEMMA StandingOf ==
  ASSUME NEW k, NEW j, Keeps(k, j), Standing(j)'
  PROVE  Standing(k)'
<1>1. MayLeave(k)' = MayLeave(j)'
  BY DEF MayLeave, Halfway, Keeps
<1> QED
  BY <1>1 DEF Standing, Keeps, Carries, Halfway, Now, There, Newest

LEMMA RetryGoesOn ==
  ASSUME StorageInv, UNCHANGED client, NEW c \in Caller, Running(c),
         Steps(c, Again(call[c])) \/ Steps(c, NoCall), faults' \in 0..MaxFaults[client],
         NEW j, j = call[c], Holding => Standing(j)'
  PROVE  GoesOn(c)
<1>1. CallOK(call[c])
  BY DEF StorageInv, CallsInv
<1>2. PICK k : k = Again(call[c])
  OBVIOUS
<1>3. \/ k = NoCall
      \/ /\ CallOK(k)' /\ Keeps(k, j)
         /\ k.step \in {"source", "walk"}
  BY <1>1, <1>2, AgainIs DEF CallOK, Keeps, FirstStep, Carries
<1>4. Keeps(k, j) /\ Holding => Standing(k)'
  BY StandingOf
<1>5. k.step \in {"source", "walk"} => AtStep(k)'
  BY DEF AtStep
<1> QED
  BY <1>2, <1>3, <1>4, <1>5 DEF GoesOn

LEMMA AnswerGoesOn ==
  ASSUME StorageInv, UNCHANGED client, NEW c \in Caller, Running(c), NEW k, Answers(c, k),
         \/ k = NoCall
         \/ /\ CallOK(k)' /\ Keeps(k, call[c])
            /\ Holding => AtStep(k)',
         NEW j, j = call[c], Holding => Standing(j)'
  PROVE  GoesOn(c)
<1>1. CASE Becomes(c, k) /\ UNCHANGED faults
  <2>1. Keeps(k, j) /\ Holding => Standing(k)'
    BY StandingOf
  <2>2. Steps(c, k)
    BY <1>1, BecomesIs
  <2> QED
    BY <1>1, <2>1, <2>2 DEF GoesOn, StorageInv, CallsInv
<1>2. CASE IsLost(c)
  BY <1>2, BecomesIs, RetryGoesOn, FailsIs DEF IsLost
<1> QED
  BY <1>1, <1>2 DEF Answers

\* Folders are made for call c.
Houses(c) ==
  /\ folders \subseteq folders'
  /\ Holding /\ client = "Mega" =>
       twice' = {} /\ Nested' /\ folders' \subseteq folders \union Wants(call[c])

\* A step of call c.
Follows(c) ==
  /\ Running(c)
  /\ GoesOn(c)
  /\ UNCHANGED <<client, calls, raced>>
  /\ ServiceType' /\ HistoryType'
  /\ Houses(c)
  /\ client # "GoogleDrive" => UNCHANGED drive
  /\ client # "Ipfs" =>
       \A p \in Path : p \notin Uses(call[c]) => objects'[p] = objects[p] /\ kept'[p] = kept[p]
  /\ mistaken => mistaken'
  /\ Holding =>
       /\ \A p \in Uses(call[c]) :
            /\ PathOK(p)'
            /\ ~Carries(call[c]) => Now(p)' \in {Now(p)} \union MayLeave(call[c])
            /\ kept'[p] \subseteq kept[p] /\ kept[p] \intersect call[c].others \subseteq kept'[p]
       /\ ~stale' /\ ListOK'

LEMMA StepsKeep ==
  ASSUME StorageInv, NEW c \in Caller, NEW k, Steps(c, k), UNCHANGED client,
         NEW d \in Caller, d # c
  PROVE  /\ Running(d)' <=> Running(d)
         /\ Running(d) => /\ Keeps(call'[d], call[d]) /\ call'[d].step = call[d].step
                          /\ call'[d].rest = call[d].rest
                          /\ client # "B2" => call'[d] = call[d]
                          /\ CallOK(call'[d])
<1>1. Running(d) => CallOK(call[d])
  BY DEF StorageInv, CallsInv
<1>2. CASE call'[d] = call[d]
  BY <1>1, <1>2 DEF Running, Keeps
<1>3. CASE client = "B2" /\ Running(d) /\ \E n \in Nat : call'[d] = [call[d] EXCEPT !.item = n]
  <2>1. PICK n \in Nat : call'[d] = [call[d] EXCEPT !.item = n]
    BY <1>3
  <2>2. CallOK(call[d])
    BY <1>1, <1>3
  <2>3. PICK i : i = call[d]
    OBVIOUS
  <2>4. PICK j : j = [i EXCEPT !.item = n]
    OBVIOUS
  <2>5. /\ j \in Call /\ Keeps(j, i) /\ j.step = i.step /\ j.rest = i.rest /\ j.item = n
    BY <2>2, <2>3, <2>4 DEF CallOK, Call, Keeps
  <2>6. CallOK(j)
    BY <1>3, <2>2, <2>3, <2>5 DEF CallOK, Keeps, Carries
  <2>7. j # NoCall
    BY <2>5, NoCallIsNone
  <2> QED
    BY <1>3, <2>1, <2>3, <2>4, <2>5, <2>6, <2>7 DEF Running
<1> QED
  BY <1>2, <1>3 DEF Steps

LEMMA FollowsKeepsInv ==
  ASSUME StorageInv, NEW c \in Caller, Follows(c)
  PROVE  StorageInv'
<1>1. PICK k : /\ Steps(c, k)
               /\ k = NoCall \/ (CallOK(k)' /\ Keeps(k, call[c]))
  BY DEF Follows, GoesOn
<1>2. DOMAIN call' = Caller /\ call'[c] = k /\ UNCHANGED <<client, calls, raced>>
  BY <1>1 DEF Steps, Follows
<1>3. ASSUME NEW d \in Caller, Running(d)'
      PROVE  Running(d) /\ Keeps(call'[d], call[d]) /\ CallOK(call[d])'
  <2>1. CASE d = c
    BY <1>1, <1>2, <1>3, <2>1 DEF CallOK, Running, Follows, Carries
  <2>2. CASE d # c
    BY <1>1, <1>2, <1>3, <2>2, StepsKeep DEF CallOK, Carries
  <2> QED
    BY <2>1, <2>2
<1>4. ASSUME NEW d \in Caller, NEW e \in Caller, d # e, Running(d)', Running(e)'
      PROVE  Aware(call[d], call[e])'
  <2>1. /\ Running(d) /\ Running(e) /\ Aware(call[d], call[e])
        /\ Keeps(call'[d], call[d]) /\ Keeps(call'[e], call[e])
    BY <1>3, <1>4 DEF StorageInv, CallsInv
  <2>2. PICK j, k2, i, i2 : j = call[d] /\ k2 = call[e] /\ i = call'[d] /\ i2 = call'[e]
    OBVIOUS
  <2>3. /\ Uses(i) = Uses(j) /\ Uses(i2) = Uses(k2) /\ i.others = j.others
        /\ Wants(i) = Wants(j) /\ Wants(i2) = Wants(k2) /\ Brings(i2, i) = Brings(k2, j)
    BY <2>1, <2>2, KeepsMeans DEF Keeps
  <2>4. /\ Uses(i)' = Uses(i) /\ Uses(i2)' = Uses(i2)
        /\ Wants(i)' = Wants(i) /\ Wants(i2)' = Wants(i2)
        /\ client # "GoogleDrive" => Brings(i2, i)' = Brings(i2, i)
    BY <1>2, MayLeaveStays DEF Uses, Wants
  <2>5. folders \subseteq folders'
    BY DEF Follows, Houses
  <2>6. Aware(i, i2)'
    BY <1>2, <2>1, <2>2, <2>3, <2>4, <2>5 DEF Aware
  <2> QED
    BY <2>2, <2>6 DEF Aware, Uses, Wants, Brings, Carries, MayLeave, Halfway
<1> QED
  BY <1>2, <1>3, <1>4 DEF StorageInv, CallsInv, Follows, GoesOn

\* No other call shares a file with a call that carries one and was not met.
LEMMA AloneIs ==
  ASSUME StorageInv, NEW c \in Caller, NEW d \in Caller, c # d, Running(c), Running(d),
         Uses(call[c]) \intersect Uses(call[d]) # {}, client # "GoogleDrive", raced = {}
  PROVE  /\ client \notin LooksFirst
         /\ Brings(call[d], call[c]) \subseteq call[c].others
         /\ Carries(call[c]) \/ Carries(call[d]) => call[c].others = Left /\ Left # {}
<1>1. Aware(call[c], call[d]) /\ CallOK(call[c])
  BY DEF StorageInv, CallsInv
<1>2. client \notin LooksFirst /\ Brings(call[d], call[c]) \subseteq call[c].others
  BY <1>1 DEF Aware
<1>3. call[c].others \subseteq Left /\ Left # {}
  BY <1>1 DEF CallOK, Call, Left
<1> QED
  BY <1>2, <1>3 DEF Brings

LEMMA LastIs ==
  ASSUME NEW s \in Seq(Content \union {Empty}), s # <<>>
  PROVE  s[Len(s)] \in Content \union {Empty} /\ s[Len(s)] # NoItem
<1>1. s[Len(s)] \in Content \union {Empty}
  OBVIOUS
<1> QED
  BY <1>1, StorageAssumption

LEMMA NowIs ==
  ASSUME ServiceType, NEW p \in Path
  PROVE  Now(p) \in Left /\ (There(p) => Now(p) \in Content \union {Empty} /\ Now(p) # NoItem)
BY LastIs DEF ServiceType, There, Newest, Now, Left

\* What a step of call c leaves of a call of another task.
LEMMA OthersStand ==
  ASSUME StorageInv, Holding, NEW c \in Caller, Follows(c), NEW d \in Caller, d # c, Running(d),
         NEW j, j = call[d]
  PROVE  Standing(j)' /\ AtStep(j)'
<1>1. /\ CallOK(j) /\ Standing(j) /\ AtStep(j) /\ Running(c)
      /\ UNCHANGED client /\ client # "GoogleDrive" /\ raced = {}
      /\ CallOK(call[c])
  BY DEF StorageInv, CallsInv, Holding, HoldsInv, Follows, ByPath
<1>2. PICK i : i = call[c]
  OBVIOUS
<1>3. \A p \in Path : p \notin Uses(i) => objects'[p] = objects[p] /\ kept'[p] = kept[p]
  BY <1>2 DEF Follows, Holding, ByPath
<1>4. \A p \in Uses(i) : /\ ~Carries(i) => Now(p)' \in {Now(p)} \union MayLeave(i)
                         /\ kept'[p] \subseteq kept[p]
                         /\ kept[p] \intersect i.others \subseteq kept'[p]
  BY <1>2 DEF Follows
<1>5. \A p \in Path : p \notin Uses(i) => Now(p)' = Now(p)
  BY <1>3 DEF Now, There, Newest
<1>6. \A p \in Path : Now(p)' \in Left
  <2> TAKE p \in Path
  <2>1. objects'[p] \in Seq(Content \union {Empty})
    BY DEF Follows, ServiceType
  <2>2. Now(p)' = IF objects'[p] # <<>> THEN objects'[p][Len(objects'[p])] ELSE NoItem
    BY DEF Now, There, Newest
  <2> QED
    BY <2>1, <2>2, LastIs DEF Left
<1>7. \A p \in Path : kept'[p] \subseteq kept[p]
  BY <1>3, <1>4
<1>8. MayLeave(j)' = MayLeave(j) /\ \A op, p : Halfway(op, p)' = Halfway(op, p)
  BY <1>1, MayLeaveStays
<1>9. (j.op = "list" => \A p \in j.must : Folder(p) = j.path /\ NoItem \notin kept'[p])
  BY <1>1, <1>7 DEF Standing, CallOK, Call
<1>10. CASE Uses(i) \intersect Uses(j) = {}
  <2>1. j.op \notin {"create_folder", "list"} =>
          /\ j.path \in Path /\ j.to \in Path /\ j.path \notin Uses(i) /\ j.to \notin Uses(i)
    BY <1>1, <1>10 DEF CallOK, Call, Op, Uses, Carries
  <2>2. Standing(j)'
    BY <1>1, <1>3, <1>5, <1>8, <1>9, <2>1, MayLeaveIs DEF Standing, Carries, CallOK, Call, Op
  <2>3. client = "Mega" /\ j.step = "create" =>
          /\ ToMake(j) \intersect folders' = {}
          /\ \A q : HasFolder(q) => HasFolder(q)'
    <3>1. ASSUME client = "Mega", j.step = "create"
          PROVE  ToMake(j) \intersect folders' = {}
      <4>1. Aware(i, j) /\ folders' \subseteq folders \union Wants(i)
        BY <1>1, <1>2, <3>1 DEF StorageInv, CallsInv, Follows, Houses
      <4>2. ToMake(j) \subseteq Wants(j)
        <5>1. Len(j.rest) \in 1..Len(Folder(j.path)) /\ j.op = "upload" /\ j.to = j.path
          BY <1>1, <3>1 DEF CallOK
        <5>2. \A n \in (Len(Folder(j.path)) - Len(j.rest) + 1)..Len(Folder(j.path)) :
                n \in 1..Len(Folder(j.path))
          <6>1. Len(Folder(j.path)) \in Int
            BY <5>1, <1>1, FoldersAre DEF CallOK
          <6> QED
            BY <5>1, <6>1
        <5> QED
          BY <3>1, <5>1, <5>2 DEF Wants, Prefixes, ToMake
      <4>3. ToMake(j) \intersect folders = {}
        BY <1>1, <3>1 DEF AtStep
      <4>4. Wants(i) \intersect Wants(j) \subseteq folders
        BY <1>1, <3>1, <4>1 DEF Aware
      <4> QED
        BY <4>1, <4>2, <4>3, <4>4
    <3>2. ASSUME client = "Mega"
          PROVE  \A q : HasFolder(q) => HasFolder(q)'
      BY <1>1, <3>2 DEF HasFolder, Follows, Houses
    <3> QED
      BY <3>1, <3>2
  <2>4. j.op \notin {"create_folder", "list"} =>
          objects'[j.path] = objects[j.path] /\ objects'[j.to] = objects[j.to]
    BY <1>3, <2>1
  <2>5. client = "Mega" /\ j.step \in {"create", "remove", "send"} => j.op = "upload"
    BY <1>1 DEF CallOK, AtStep, Renames, Carries
  <2>6. AtStep(j)'
    BY <1>1, <2>1, <2>3, <2>4, <2>5 DEF AtStep, Now, There, Newest, ToMake
  <2> QED
    BY <2>2, <2>6
<1>11. CASE Uses(i) \intersect Uses(j) # {}
  <2>1. /\ client \notin LooksFirst
        /\ Brings(i, j) \subseteq j.others /\ Brings(j, i) \subseteq i.others
        /\ Carries(i) \/ Carries(j) => i.others = Left /\ j.others = Left /\ Left # {}
    BY <1>1, <1>2, <1>11, AloneIs
  <2>2. client # "Mega"
    BY <2>1 DEF LooksFirst
  <2>3. CASE Carries(j)
    <3>1. \A p \in Uses(j) : p \in Path /\ kept[p] = Left
      BY <1>1, <2>1, <2>3 DEF Standing, Uses
    <3>2. \A p \in Uses(j) : kept'[p] = Left
      BY <1>3, <1>4, <2>1, <2>3, <3>1
    <3>3. kept'[j.path] = Left /\ kept'[j.to] = Left
      BY <1>1, <2>3, <3>2 DEF CallOK, Uses
    <3>4. Standing(j)'
      BY <1>9, <2>1, <2>2, <2>3, <3>3, <1>1 DEF Standing, Carries
    <3>5. AtStep(j)'
      BY <1>1, <2>1, <2>2, <2>3 DEF AtStep, Carries
    <3> QED
      BY <3>4, <3>5
  <2>4. CASE ~Carries(j)
    <3>1. j.path \in Uses(i) /\ j.path \in Path /\ j.to = j.path
      BY <1>1, <1>11, <2>4 DEF CallOK, Call, Op, Uses, Carries
    <3>2. MayLeave(j) \subseteq i.others
      BY <1>1, <2>1, MayLeaveIs DEF Brings
    <3>3. MayLeave(j) \subseteq kept'[j.path]
      BY <1>1, <1>4, <2>4, <3>1, <3>2 DEF Standing
    <3>4. Standing(j)'
      BY <1>8, <1>9, <1>1, <2>2, <2>4, <3>3 DEF Standing, Carries
    <3>5. Now(j.path)' \in {Now(j.path)} \union j.others
      BY <1>4, <1>6, <2>1, <3>1 DEF Brings
    <3>6. AtStep(j)'
      BY <1>1, <2>2, <2>4, <3>5 DEF AtStep, Carries
    <3> QED
      BY <3>4, <3>6
  <2> QED
    BY <2>3, <2>4
<1> QED
  BY <1>10, <1>11

LEMMA FollowsKeepsHolds ==
  ASSUME StorageInv, HoldsInv, NEW c \in Caller, Follows(c)
  PROVE  HoldsInv'
<1> SUFFICES ASSUME Holding
             PROVE  HoldsInv'
  BY DEF HoldsInv, Holding, ByPath, Follows
<1>1. PICK k : /\ Steps(c, k)
               /\ \/ k = NoCall
                  \/ /\ CallOK(k)' /\ Keeps(k, call[c])
                     /\ Standing(k)' /\ AtStep(k)'
  BY DEF Follows, GoesOn
<1>2. call'[c] = k /\ UNCHANGED client
  BY <1>1 DEF Steps, Follows
<1>3. \A p \in Path : p \notin Uses(call[c]) => objects'[p] = objects[p] /\ kept'[p] = kept[p]
  BY DEF Follows, Holding, ByPath
<1>4. ASSUME NEW p \in Path
      PROVE  PathOK(p)'
  <2>1. CASE p \in Uses(call[c])
    BY <2>1 DEF Follows
  <2>2. CASE p \notin Uses(call[c])
    <3>1. PathOK(p)
      BY DEF Holding, HoldsInv
    <3> QED
      BY <1>3, <2>2, <3>1 DEF PathOK, Now, There, Newest, Follows
  <2> QED
    BY <2>1, <2>2
<1>5. ASSUME NEW d \in Caller, Running(d)'
      PROVE  Standing(call[d])' /\ AtStep(call[d])'
  <2>1. PICK i : i = call'[d]
    OBVIOUS
  <2>2. Standing(i)' /\ AtStep(i)'
    <3>1. CASE d = c
      BY <1>1, <1>2, <1>5, <2>1, <3>1 DEF Running
    <3>2. CASE d # c
      <4>1. /\ Running(d) /\ Keeps(i, call[d]) /\ i.step = call[d].step /\ i.rest = call[d].rest
            /\ client # "B2" => i = call[d]
        BY <1>1, <1>2, <1>5, <2>1, <3>2, StepsKeep
      <4>2. PICK j : j = call[d]
        OBVIOUS
      <4>3. Standing(j)' /\ AtStep(j)'
        BY <3>2, <4>1, <4>2, OthersStand
      <4>4. Standing(i)'
        BY <4>1, <4>2, <4>3, StandingOf
      <4>5. CASE client = "B2"
        <5>1. CallOK(j)
          BY <4>1, <4>2 DEF StorageInv, CallsInv
        <5>2. client \notin Renames
          BY <4>5 DEF Renames
        <5> QED
          BY <1>2, <4>1, <4>4, <4>2, <4>5, <5>1, <5>2 DEF AtStep, CallOK, Carries, Keeps
      <4> QED
        BY <4>1, <4>2, <4>3, <4>4, <4>5
    <3> QED
      BY <3>1, <3>2
  <2> QED
    <3>1. Standing(call[d])'
      BY <2>1, <2>2 DEF Standing, Halfway, MayLeave, Carries, Now, There, Newest
    <3>2. AtStep(call[d])'
      BY <2>1, <2>2 DEF AtStep, ToMake, HasFolder, Reached, Now, There, Newest
    <3> QED
      BY <3>1, <3>2
<1> QED
  BY <1>4, <1>5 DEF HoldsInv, Follows, Houses, Holding, ByPath

-----------------------------------------------------------------------------
(* The requests. *)

\* What is known of a call that is running.
LEMMA CallKnown ==
  ASSUME StorageInv, NEW c \in Caller, Running(c)
  PROVE  /\ CallOK(call[c])
         /\ Holding => Standing(call[c]) /\ AtStep(call[c])
BY DEF StorageInv, CallsInv, Holding, HoldsInv

\* The files of a request that changes nothing in the service.
LEMMA StillStanding ==
  ASSUME StorageInv, UNCHANGED <<client, objects, kept>>, NEW c \in Caller, Running(c),
         NEW j, j = call[c]
  PROVE  /\ Holding => Standing(j)'
         /\ Holding => \A p \in Path : PathOK(p)'
<1>1. Holding => Standing(j)
  BY CallKnown
<1>2. Holding => \A p \in Path : PathOK(p)
  BY DEF Holding, HoldsInv
<1>3. Standing(j) => Standing(j)'
  BY DEF Standing, Carries, MayLeave, Halfway, Now, There, Newest
<1> QED
  BY <1>1, <1>2, <1>3 DEF PathOK, Now, There, Newest

\* Nothing happens to the files.
LEMMA FilesStay ==
  ASSUME StorageInv, Holding, UNCHANGED <<client, objects, kept>>, NEW c \in Caller, Running(c)
  PROVE  \A p \in Uses(call[c]) :
           /\ PathOK(p)'
           /\ ~Carries(call[c]) => Now(p)' \in {Now(p)} \union MayLeave(call[c])
           /\ kept'[p] \subseteq kept[p] /\ kept[p] \intersect call[c].others \subseteq kept'[p]
<1>1. \A p \in Path : PathOK(p)
  BY DEF Holding, HoldsInv
<1> QED
  BY <1>1 DEF Uses, PathOK, Now, There, Newest

LEMMA HousesSame ==
  ASSUME UNCHANGED <<folders, twice>>, NEW c
  PROVE  Houses(c)
BY DEF Houses, Holding, HoldsInv, Nested

LEMMA AsksFollows ==
  ASSUME StorageInv, NEW c \in Caller, Running(c), NEW k, Answers(c, k),
         UNCHANGED <<client, drive, objects, calls, history>>, ServiceType', Houses(c),
         \/ k = NoCall
         \/ CallOK(k) /\ Keeps(k, call[c]) /\ (Holding => AtStep(k)')
  PROVE  Follows(c)
<1>1. PICK j : j = call[c]
  OBVIOUS
<1>2. UNCHANGED <<client, objects, kept, raced, mistaken, unlisted, stale>>
  BY DEF history
<1>3. Holding => Standing(j)'
  BY <1>1, <1>2, StillStanding
<1>4. CallOK(k) => CallOK(k)'
  BY <1>2 DEF CallOK, Carries
<1>5. GoesOn(c)
  BY <1>1, <1>2, <1>3, <1>4, AnswerGoesOn
<1>6. Holding => ~stale' /\ ListOK'
  BY <1>2 DEF Holding, HoldsInv, ListOK
<1>7. HistoryType'
  BY <1>2 DEF StorageInv, HistoryType
<1> QED
  BY <1>2, <1>5, <1>6, <1>7, FilesStay DEF Follows

LEMMA LearnsFollows ==
  ASSUME StorageInv, NEW c \in Caller, Running(c), NEW k, Learns(c, k),
         \/ k = NoCall
         \/ CallOK(k) /\ Keeps(k, call[c]) /\ (Holding => AtStep(k))
  PROVE  Follows(c)
<1>1. ServiceType'
  BY DEF Learns, service, StorageInv, ServiceType
<1>2. UNCHANGED <<client, drive, objects, folders, twice, calls, history>> /\ Answers(c, k)
  BY DEF Learns, service
<1>3. AtStep(k) => AtStep(k)'
  <2>1. \A q : HasFolder(q)' = HasFolder(q)
    BY <1>2 DEF HasFolder, Reached, Matches, Children, Live
  <2> QED
    BY <1>2, <2>1 DEF AtStep, ToMake, Now, There, Newest
<1> QED
  BY <1>1, <1>2, <1>3, HousesSame, AsksFollows

LEMMA EndsFollows ==
  ASSUME StorageInv, NEW c \in Caller, Running(c), Ends(c)
  PROVE  Follows(c)
<1>1. ServiceType' /\ UNCHANGED <<client, drive, objects, folders, twice, calls, history>>
  BY DEF Ends, service, StorageInv, ServiceType
<1>2. Answers(c, NoCall)
  BY DEF Ends, Answers
<1> QED
  BY <1>1, <1>2, HousesSame, AsksFollows

LEMMA GivesUpFollows ==
  ASSUME StorageInv, NEW c \in Caller, Retries(c) \/ Refused(c)
  PROVE  Follows(c)
<1>1. /\ ServiceType' /\ UNCHANGED <<client, drive, objects, folders, twice, calls, history>>
      /\ Running(c)
  BY DEF Retries, Refused, service, StorageInv, ServiceType
<1>2. Answers(c, NoCall)
  BY DEF Retries, Refused, Answers, IsLost
<1> QED
  BY <1>1, <1>2, HousesSame, AsksFollows

LEMMA DeliversFollows ==
  ASSUME StorageInv, NEW c \in Caller, Running(c), NEW v, Delivers(c, v),
         Holding => v \in kept[call[c].path]
  PROVE  Follows(c)
<1>1. /\ UNCHANGED <<client, drive, objects, folders, twice, calls, kept, raced, mistaken, unlisted>>
      /\ ServiceType'
  BY DEF Delivers, service, StorageInv, ServiceType
<1>2. PICK j : j = call[c]
  OBVIOUS
<1>3. Holding => Standing(j)'
  BY <1>1, <1>2, StillStanding
<1>4. GoesOn(c)
  <2>1. Answers(c, NoCall)
    BY DEF Delivers, Answers
  <2> QED
    BY <1>1, <1>2, <1>3, <2>1, AnswerGoesOn
<1>5. stale' \in BOOLEAN /\ (Holding => ~stale')
  <2>1. \/ stale' = stale
        \/ stale' = (stale \/ (Clean(call[c].path) /\ v \notin kept[call[c].path]))
    BY DEF Delivers
  <2>2. stale \in BOOLEAN /\ (Holding => ~stale)
    BY DEF StorageInv, HistoryType, Holding, HoldsInv
  <2>3. CASE stale' = stale
    BY <2>2, <2>3
  <2>4. CASE stale' = (stale \/ (Clean(call[c].path) /\ v \notin kept[call[c].path]))
    <3>1. stale' \in BOOLEAN
      BY <2>4
    <3>2. Holding => ~(stale \/ (Clean(call[c].path) /\ v \notin kept[call[c].path]))
      BY <2>2
    <3> QED
      BY <2>4, <3>1, <3>2
  <2> QED
    BY <2>1, <2>3, <2>4
<1>6. Holding => ListOK'
  BY <1>1 DEF Holding, HoldsInv, ListOK
<1>7. HistoryType'
  BY <1>1, <1>5 DEF StorageInv, HistoryType
<1> QED
  BY <1>1, <1>4, <1>5, <1>6, <1>7, HousesSame, FilesStay DEF Follows

LEMMA ListsFollows ==
  ASSUME StorageInv, NEW c \in Caller, Running(c), NEW files, Lists(c, files),
         call[c].op = "list",
         Holding /\ client \notin {"Gcs", "Azure", "Box"} =>
           \A p \in call[c].must \ files : client \in {"S3", "PCloud"} /\ Folder(p) # <<>>
  PROVE  Follows(c)
<1>1. /\ UNCHANGED <<client, drive, objects, folders, twice, calls, kept, raced, mistaken, stale>>
      /\ ServiceType'
  BY DEF Lists, service, StorageInv, ServiceType
<1>2. PICK j : j = call[c]
  OBVIOUS
<1>3. Holding => Standing(j)'
  BY <1>1, <1>2, StillStanding
<1>4. GoesOn(c)
  <2>1. Answers(c, NoCall)
    BY DEF Lists, Answers
  <2> QED
    BY <1>1, <1>2, <1>3, <2>1, AnswerGoesOn
<1>5. unlisted' = call[c].must \ files
  BY DEF Lists
<1>6. HistoryType'
  BY <1>1, <1>5, CallKnown DEF StorageInv, HistoryType, CallOK, Call
<1>7. Holding => ~stale' /\ ListOK'
  BY <1>1, <1>5 DEF Holding, HoldsInv, ListOK
<1> QED
  BY <1>1, <1>4, <1>6, <1>7, HousesSame, FilesStay DEF Follows

\* A client that is mistaken promises nothing.
LEMMA MistakenFollows ==
  ASSUME StorageInv, NEW c \in Caller, Running(c), Becomes(c, NoCall), mistaken' = TRUE,
         faults' \in 0..MaxFaults[client], UNCHANGED <<client, drive, calls, raced>>,
         folders \subseteq folders', ServiceType', HistoryType',
         \A p \in Path : p \notin Uses(call[c]) =>
           objects'[p] = objects[p] /\ kept'[p] = kept[p]
  PROVE  Follows(c)
<1>1. ~Holding
  BY DEF Holding
<1>2. Houses(c)
  BY <1>1 DEF Houses
<1> QED
  BY <1>1, <1>2, BecomesIs DEF Follows, GoesOn

LEMMA ListsMistakenFollows ==
  ASSUME StorageInv, NEW c \in Caller, Running(c), NEW files, ListsMistaken(c, files)
  PROVE  Follows(c)
<1>1. /\ UNCHANGED <<client, drive, objects, folders, twice, calls, kept, raced, stale>>
      /\ ServiceType'
  BY DEF ListsMistaken, service, StorageInv, ServiceType
<1>2. HistoryType'
  BY <1>1, CallKnown DEF ListsMistaken, StorageInv, HistoryType, CallOK, Call
<1> QED
  BY <1>1, <1>2, FailsIs, MistakenFollows DEF ListsMistaken

\* What is kept of a call that may leave several things at its path.
LEMMA LeavesIs ==
  ASSUME StorageInv, NEW c \in Caller, Running(c), NEW j, j = call[c],
         j.op \in {"upload", "delete", "rename", "copy"}
  PROVE  /\ Leaves(j) \in [Path -> SUBSET Left]
         /\ \A p \in Path : /\ p \notin Uses(j) => Leaves(j)[p] = kept[p]
                            /\ Leaves(j)[p] \subseteq kept[p]
                            /\ kept[p] \intersect j.others \subseteq Leaves(j)[p]
         /\ j.op = "upload" =>
              Leaves(j)[j.path] = kept[j.path] \intersect ({j.content} \union j.others)
         /\ j.op = "delete" /\ client # "B2" =>
              Leaves(j)[j.path] = kept[j.path] \intersect ({NoItem} \union j.others)
         /\ j.op = "rename" =>
              Leaves(j)[j.path] = kept[j.path] \intersect ({NoItem} \union j.others)
         /\ j.op = "copy" => Leaves(j)[j.path] = kept[j.path]
         /\ Carries(j) =>
              Leaves(j)[j.to] = kept[j.to] \intersect ((j.was \ {NoItem}) \union j.others)
<1>1. CallOK(j) /\ kept \in [Path -> SUBSET Left]
  BY CallKnown DEF StorageInv, HistoryType
<1>2. CASE j.op = "upload"
  BY <1>1, <1>2 DEF Leaves, Uses, CallOK, Carries
<1>3. CASE j.op = "delete"
  BY <1>1, <1>3 DEF Leaves, Uses, CallOK, Carries
<1>4. CASE j.op = "rename"
  BY <1>1, <1>4 DEF Leaves, Uses, CallOK, Carries
<1>5. CASE j.op = "copy"
  BY <1>1, <1>5 DEF Leaves, Uses, CallOK, Carries
<1> QED
  BY <1>2, <1>3, <1>4, <1>5

OneVersion(p) ==
  /\ client # "B2" => Len(objects[p]) <= 1
  /\ client = "B2" => objects[p] \in Seq(Content)

\* What the last request of call j brings about.
Achieves(j) ==
  /\ j.op = "upload" =>
       Now(j.path)' \in {j.content} \union (j.others \intersect ({Now(j.path)} \union MayLeave(j)))
  /\ j.op = "delete" => Now(j.path)' = NoItem
  /\ Carries(j) /\ j.others = {} =>
       /\ Now(j.to)' \in j.was \ {NoItem}
       /\ Now(j.path)' = IF j.op = "rename" THEN NoItem ELSE Now(j.path)

\* What was expected of a call is expected of it when it is made again.
LEMMA AchievesIs ==
  ASSUME StorageInv, NEW c \in Caller, Running(c), NEW j, j = call[c], Holding, UNCHANGED client,
         j.op \in {"upload", "delete", "rename", "copy"}, ServiceType', Achieves(j),
         kept' = kept \/ kept' = Leaves(j)
  PROVE  /\ kept' = kept => Standing(j)'
         /\ Now(j.path)' \in kept'[j.path] /\ Now(j.to)' \in kept'[j.to]
         /\ ~Carries(j) => Now(j.path)' \in {Now(j.path)} \union MayLeave(j)
<1>1. CallOK(j) /\ Standing(j) /\ ByPath
  BY CallKnown DEF Holding
<1>2. j.path \in Path /\ j.to \in Path /\ (~Carries(j) => j.to = j.path) /\ j.op # "list"
  BY <1>1 DEF CallOK, Carries
<1>3. Now(j.path) \in kept[j.path]
  BY <1>2 DEF Holding, HoldsInv, PathOK
<1>4. /\ MayLeave(j)' = MayLeave(j) /\ \A op, p : Halfway(op, p)' = Halfway(op, p)
  BY <1>1, MayLeaveStays DEF ByPath
<1>5. Now(j.path)' \in Left /\ Now(j.to)' \in Left
  <2>1. objects'[j.path] \in Seq(Content \union {Empty}) /\ objects'[j.to] \in Seq(Content \union {Empty})
    BY <1>2 DEF ServiceType
  <2> QED
    BY <2>1, LastIs DEF Now, There, Newest, Left
<1>6. CASE ~Carries(j)
  <2>1. MayLeave(j) \subseteq kept[j.path]
    BY <1>1, <1>6 DEF Standing
  <2>2. kept' = kept => Standing(j)'
    BY <1>1, <1>2, <1>4, <1>6, <2>1 DEF Standing, Carries
  <2>3. CASE j.op = "upload"
    <3>1. j.content \in MayLeave(j)
      BY <1>1, <2>3, MayLeaveIs
    <3>2. Now(j.path)' \in {j.content} \union (j.others \intersect ({Now(j.path)} \union MayLeave(j)))
      BY <2>3 DEF Achieves
    <3>3. Now(j.path)' \in kept'[j.path]
      BY <1>3, <2>1, <2>3, <3>1, <3>2, LeavesIs
    <3> QED
      BY <1>2, <1>6, <2>2, <3>1, <3>2, <3>3
  <2>4. CASE j.op = "delete"
    <3>1. NoItem \in MayLeave(j) /\ Now(j.path)' = NoItem
      BY <1>1, <2>4, MayLeaveIs DEF Achieves
    <3>2. client = "B2" /\ kept' = Leaves(j) => kept' = kept
      BY <2>4 DEF Leaves
    <3> QED
      BY <1>2, <1>6, <2>1, <2>2, <2>4, <3>1, <3>2, LeavesIs
  <2> QED
    BY <1>6, <2>3, <2>4 DEF Carries
<1>7. CASE Carries(j) /\ j.others # {}
  <2>1. j.others = Left /\ kept[j.path] = Left /\ kept[j.to] = Left
    BY <1>1, <1>7 DEF CallOK, Standing
  <2>2. kept' = kept => Standing(j)'
    BY <1>1, <1>2, <1>7, <2>1 DEF Standing
  <2>3. kept'[j.path] = Left /\ kept'[j.to] = Left
    <3>1. /\ kept[j.path] \intersect j.others \subseteq Leaves(j)[j.path]
          /\ Leaves(j)[j.path] \subseteq kept[j.path]
          /\ kept[j.to] \intersect j.others \subseteq Leaves(j)[j.to]
          /\ Leaves(j)[j.to] \subseteq kept[j.to]
      BY <1>2, LeavesIs
    <3> QED
      BY <2>1, <3>1
  <2> QED
    BY <1>5, <1>7, <2>2, <2>3
<1>8. CASE Carries(j) /\ j.others = {}
  <2>1. /\ Now(j.path) \in j.was \union {NoItem}
        /\ j.was \union Halfway(j.op, j.to) \subseteq kept[j.to]
        /\ j.op = "rename" => NoItem \in kept[j.path]
    BY <1>1, <1>8 DEF Standing
  <2>2. /\ Now(j.to)' \in j.was \ {NoItem}
        /\ Now(j.path)' = IF j.op = "rename" THEN NoItem ELSE Now(j.path)
    BY <1>8 DEF Achieves
  <2>3. kept' = kept => Standing(j)'
    BY <1>1, <1>2, <1>4, <1>8, <2>1, <2>2 DEF Standing
  <2>4. Now(j.to)' \in kept'[j.to]
    BY <1>8, <2>1, <2>2, LeavesIs
  <2>5. Now(j.path)' \in kept'[j.path]
    BY <1>3, <1>8, <2>1, <2>2, LeavesIs DEF Carries
  <2> QED
    BY <1>8, <2>3, <2>4, <2>5
<1> QED
  BY <1>6, <1>7, <1>8

LEMMA SucceedsFollows ==
  ASSUME StorageInv, NEW c \in Caller, Running(c), NEW j, j = call[c], Succeeds(c),
         j.op \in {"upload", "delete", "rename", "copy"}, ServiceType', UNCHANGED drive, Houses(c),
         client # "Ipfs" => \A p \in Path : p \notin Uses(j) => objects'[p] = objects[p],
         Holding => OneVersion(j.path)' /\ OneVersion(j.to)' /\ Achieves(j)
  PROVE  Follows(c)
<1>1. UNCHANGED <<client, session, calls, raced, mistaken, unlisted, stale>>
  BY DEF Succeeds
<1>2. CallOK(j)
  BY CallKnown
<1>3. /\ kept' = kept \/ kept' = Leaves(j)
      /\ \/ Becomes(c, NoCall) /\ UNCHANGED faults
         \/ IsLost(c) /\ UNCHANGED kept
  BY DEF Succeeds
<1>4. HistoryType'
  BY <1>1, <1>3, LeavesIs DEF StorageInv, HistoryType
<1>5. \A p \in Path : p \notin Uses(j) => kept'[p] = kept[p]
  BY <1>3, LeavesIs
<1>6. Holding =>
        /\ kept' = kept => Standing(j)'
        /\ Now(j.path)' \in kept'[j.path] /\ Now(j.to)' \in kept'[j.to]
        /\ ~Carries(j) => Now(j.path)' \in {Now(j.path)} \union MayLeave(j)
  BY <1>1, <1>3, AchievesIs
<1>7. Holding => \A p \in Uses(j) :
                   /\ PathOK(p)'
                   /\ ~Carries(j) => Now(p)' \in {Now(p)} \union MayLeave(j)
                   /\ kept'[p] \subseteq kept[p] /\ kept[p] \intersect j.others \subseteq kept'[p]
  <2> SUFFICES ASSUME Holding, NEW p \in Uses(j)
               PROVE  /\ PathOK(p)'
                      /\ ~Carries(j) => Now(p)' \in {Now(p)} \union MayLeave(j)
                      /\ kept'[p] \subseteq kept[p] /\ kept[p] \intersect j.others \subseteq kept'[p]
    OBVIOUS
  <2>1. p \in Path /\ (p = j.path \/ p = j.to) /\ (~Carries(j) => p = j.path)
    BY <1>2 DEF Uses, CallOK, Carries
  <2>2. PathOK(p)'
    BY <1>6, <2>1 DEF PathOK, OneVersion
  <2>3. kept'[p] \subseteq kept[p] /\ kept[p] \intersect j.others \subseteq kept'[p]
    BY <1>3, <2>1, LeavesIs
  <2> QED
    BY <1>6, <2>1, <2>2, <2>3
<1>8. GoesOn(c)
  <2>1. CASE Becomes(c, NoCall) /\ UNCHANGED faults
    BY <2>1, BecomesIs DEF GoesOn, StorageInv, CallsInv
  <2>2. CASE IsLost(c) /\ UNCHANGED kept
    <3>1. Holding => Standing(j)'
      BY <1>6, <2>2
    <3> QED
      BY <1>1, <2>2, <3>1, BecomesIs, RetryGoesOn, FailsIs DEF IsLost
  <2> QED
    BY <1>3, <2>1, <2>2
<1>9. Holding => ~stale' /\ ListOK'
  BY <1>1 DEF Holding, HoldsInv, ListOK
<1> QED
  BY <1>1, <1>4, <1>5, <1>7, <1>8, <1>9 DEF Follows

LEMMA StoresFollows ==
  ASSUME StorageInv, NEW c \in Caller, Running(c), NEW j, j = call[c], NEW k, Answers(c, k),
         UNCHANGED <<client, drive, folders, twice, calls, history>>, ServiceType',
         client # "Ipfs" => \A p \in Path : p \notin Uses(j) => objects'[p] = objects[p],
         CallOK(k)' /\ Keeps(k, j),
         Holding => /\ PathOK(j.path)' /\ PathOK(j.to)'
                    /\ ~Carries(j) => Now(j.path)' \in {Now(j.path)} \union MayLeave(j)
                    /\ Standing(j)' /\ AtStep(k)'
  PROVE  Follows(c)
<1>1. GoesOn(c)
  BY AnswerGoesOn
<1>2. UNCHANGED <<kept, raced, mistaken, unlisted, stale>>
  BY DEF history
<1>3. HistoryType' /\ (Holding => ~stale' /\ ListOK')
  BY <1>2 DEF StorageInv, HistoryType, Holding, HoldsInv, ListOK
<1>4. ~Carries(j) => \A p \in Uses(j) : p = j.path
  BY CallKnown DEF CallOK, Uses, Carries, Call, Op
<1>5. Holding => \A p \in Uses(j) :
                   /\ PathOK(p)'
                   /\ ~Carries(j) => Now(p)' \in {Now(p)} \union MayLeave(j)
                   /\ kept'[p] \subseteq kept[p] /\ kept[p] \intersect j.others \subseteq kept'[p]
  BY <1>2, <1>4 DEF Uses
<1> QED
  BY <1>1, <1>2, <1>3, <1>5, HousesSame DEF Follows

-----------------------------------------------------------------------------
(* What the clients do with files. *)

LEMMA VersionsAre ==
  ASSUME NEW S, NEW v \in S
  PROVE  /\ <<v>> \in Seq(S) /\ <<v>> # <<>> /\ Len(<<v>>) = 1 /\ <<v>>[1] = v
         /\ \A s \in Seq(S) : /\ Append(s, v) \in Seq(S) /\ Append(s, v) # <<>>
                             /\ Append(s, v)[Len(Append(s, v))] = v
OBVIOUS

\* The request gives the path of the call these versions.
LEMMA SetsIs ==
  ASSUME StorageInv, NEW c \in Caller, NEW vs \in Seq(Content \union {Empty}),
         Sets(c, vs)
  PROVE  /\ ServiceType' /\ Succeeds(c) /\ UNCHANGED drive /\ Houses(c)
         /\ objects' = [objects EXCEPT ![call[c].path] = vs]
         /\ \A p \in Path : p \notin Uses(call[c]) => objects'[p] = objects[p]
BY HousesSame DEF Sets, Finishes, Succeeds, StorageInv, ServiceType, Uses

LEMMA UploadFollows ==
  ASSUME StorageInv, NEW c \in Caller, Running(c), call[c].op = "upload",
         \/ Sets(c, <<call[c].content>>)
         \/ /\ Sets(c, Append(objects[call[c].path], call[c].content))
            /\ Holding /\ client # "B2" => objects[call[c].path] = <<>>
  PROVE  Follows(c)
<1>1. PICK j : j = call[c]
  OBVIOUS
<1>2. /\ j.path \in Path /\ j.to = j.path /\ j.content \in Content
      /\ objects[j.path] \in Seq(Content \union {Empty}) /\ DOMAIN objects = Path
      /\ Holding /\ client = "B2" => objects[j.path] \in Seq(Content)
  BY <1>1, CallKnown DEF CallOK, StorageInv, ServiceType, Holding, HoldsInv, PathOK
<1>3. PICK vs : /\ vs = <<j.content>> \/ vs = Append(objects[j.path], j.content)
                /\ Holding /\ client # "B2" => vs = <<j.content>>
                /\ Sets(c, vs)
  <2>1. CASE Sets(c, <<j.content>>)
    BY <2>1
  <2>2. CASE /\ Sets(c, Append(objects[j.path], j.content))
             /\ Holding /\ client # "B2" => objects[j.path] = <<>>
    <3>1. Append(<<>>, j.content) = <<j.content>>
      OBVIOUS
    <3> QED
      BY <2>2, <3>1
  <2> QED
    BY <1>1, <2>1, <2>2
<1>4. vs \in Seq(Content \union {Empty}) /\ vs # <<>> /\ vs[Len(vs)] = j.content
  <2>1. j.content \in Content \union {Empty}
    BY <1>2
  <2>2. CASE vs = <<j.content>>
    BY <2>1, <2>2
  <2>3. CASE vs = Append(objects[j.path], j.content)
    <3>1. PICK S : S = Content \union {Empty}
      OBVIOUS
    <3>2. j.content \in S /\ objects[j.path] \in Seq(S)
      BY <1>2, <2>1, <3>1
    <3>3. vs \in Seq(S) /\ vs # <<>> /\ vs[Len(vs)] = j.content
      BY <2>3, <3>2, VersionsAre
    <3> QED
      BY <3>1, <3>3
  <2> QED
    BY <1>3, <2>2, <2>3
<1>5. Holding /\ client = "B2" => vs \in Seq(Content)
  <2>1. CASE vs = <<j.content>>
    BY <1>2, <2>1
  <2>2. CASE vs = Append(objects[j.path], j.content)
    BY <1>2, <2>2, VersionsAre
  <2> QED
    BY <1>3, <2>1, <2>2
<1>6. Holding /\ client # "B2" => Len(vs) <= 1
  <2>1. ASSUME Holding, client # "B2"
        PROVE  vs = <<j.content>>
    BY <1>3, <2>1
  <2>2. Len(<<j.content>>) = 1
    OBVIOUS
  <2>3. vs = <<j.content>> => Len(vs) <= 1
    BY <2>2
  <2> QED
    BY <2>1, <2>3
<1>7. objects'[j.path] = vs /\ Succeeds(c) /\ ServiceType' /\ UNCHANGED client
  BY <1>1, <1>2, <1>3, <1>4, SetsIs DEF Succeeds
<1>8. Achieves(j)
  BY <1>1, <1>4, <1>7 DEF Achieves, Carries, Now, There, Newest
<1>9. Holding => OneVersion(j.path)' /\ OneVersion(j.to)'
  BY <1>2, <1>5, <1>6, <1>7 DEF OneVersion
<1> QED
  BY <1>1, <1>3, <1>4, <1>7, <1>8, <1>9, SetsIs, SucceedsFollows

\* The file goes, and nothing else happens; on S3 this also ends a rename.
LEMMA TakesFollows ==
  ASSUME StorageInv, NEW c \in Caller, Running(c),
         NEW vs \in Seq(Content \union {Empty}), Sets(c, vs), Holding => vs = <<>>,
         call[c].op = "delete" \/ (call[c].op = "rename" /\ call[c].step = "remove")
  PROVE  Follows(c)
<1>1. PICK j : j = call[c]
  OBVIOUS
<1>2. /\ j.path \in Path /\ j.to \in Path
      /\ j.op = "delete" => j.to = j.path
      /\ j.op = "rename" => j.to # j.path
      /\ j.op = "rename" /\ Holding /\ j.others = {} => Now(j.to) \in j.was \ {NoItem}
      /\ Holding => PathOK(j.to)
      /\ DOMAIN objects = Path
  BY <1>1, CallKnown DEF CallOK, Carries, AtStep, StorageInv, ServiceType, Holding, HoldsInv
<1>3. /\ objects' = [objects EXCEPT ![j.path] = vs]
      /\ Succeeds(c) /\ ServiceType' /\ UNCHANGED <<client, drive>> /\ Houses(c)
      /\ \A p \in Path : p \notin Uses(j) => objects'[p] = objects[p]
  BY <1>1, SetsIs DEF Succeeds
<1>4. objects'[j.path] = vs /\ (j.to # j.path => objects'[j.to] = objects[j.to])
  BY <1>2, <1>3
<1>5. Holding => Achieves(j)
  BY <1>1, <1>2, <1>4 DEF Achieves, Carries, Now, There, Newest
<1>6. Holding => OneVersion(j.path)' /\ OneVersion(j.to)'
  BY <1>2, <1>3, <1>4 DEF OneVersion, PathOK
<1> QED
  BY <1>1, <1>3, <1>5, <1>6, SucceedsFollows

LEMMA RemovalFollows ==
  ASSUME StorageInv, NEW c \in Caller, Running(c), Sets(c, <<>>),
         call[c].op = "delete" \/ (call[c].op = "rename" /\ call[c].step = "remove")
  PROVE  Follows(c)
<1>1. <<>> \in Seq(Content \union {Empty})
  OBVIOUS
<1> QED
  BY <1>1, TakesFollows

LEMMA DropsFollows ==
  ASSUME StorageInv, NEW c \in Caller, Running(c), Drops(c), call[c].op = "delete"
  PROVE  Follows(c)
BY RemovalFollows, EndsFollows DEF Drops

LEMMA GetsFollows ==
  ASSUME StorageInv, NEW c \in Caller, Running(c), Gets(c), call[c].op = "download"
  PROVE  Follows(c)
<1>1. call[c].path \in Path
  BY CallKnown DEF CallOK
<1>2. Holding /\ There(call[c].path) => Newest(call[c].path) \in kept[call[c].path]
  BY <1>1 DEF Holding, HoldsInv, PathOK, Now
<1> QED
  BY <1>2, DeliversFollows, EndsFollows DEF Gets

\* Every file that has to be in a list is there.
LEMMA MustBeThere ==
  ASSUME StorageInv, NEW c \in Caller, Running(c), call[c].op = "list", Holding
  PROVE  call[c].must \subseteq FilesIn(call[c].path)
<1>1. \A p \in call[c].must : Folder(p) = call[c].path /\ NoItem \notin kept[p] /\ p \in Path
  BY CallKnown DEF CallOK, Call, Standing
<1>2. \A p \in Path : Now(p) \in kept[p]
  BY DEF Holding, HoldsInv, PathOK
<1> QED
  BY <1>1, <1>2 DEF FilesIn, Now

LEMMA SomePageFollows ==
  ASSUME StorageInv, NEW c \in Caller, Running(c), ReadsSomePage(c),
         call[c].op = "list", call[c].step = "walk"
  PROVE  Follows(c)
<1>1. PICK j : j = call[c]
  OBVIOUS
<1>2. PICK page \in SUBSET Unseen(j) : Learns(c, [j EXCEPT !.seen = @ \union page])
  BY <1>1 DEF ReadsSomePage
<1>3. PICK k : k = [j EXCEPT !.seen = @ \union page]
  OBVIOUS
<1>4. page \subseteq Path
  BY DEF Unseen, FilesIn
<1>5. CallOK(j) /\ j.op = "list" /\ j.step = "walk"
  BY <1>1, CallKnown
<1>6. k \in Call /\ Keeps(k, j) /\ k.step = "walk" /\ k.rest = j.rest
  BY <1>3, <1>4, <1>5 DEF CallOK, Call, Keeps
<1>7. CallOK(k)
  BY <1>5, <1>6 DEF CallOK, Keeps, Carries
<1>8. AtStep(k)
  BY <1>6 DEF AtStep
<1> QED
  BY <1>1, <1>2, <1>3, <1>6, <1>7, <1>8, LearnsFollows

LEMMA AllPagesFollows ==
  ASSUME StorageInv, NEW c \in Caller, Running(c), ReadsAllPages(c), call[c].op = "list"
  PROVE  Follows(c)
BY MustBeThere, ListsFollows DEF ReadsAllPages

\* The first page only.
LEMMA OnePageFollows ==
  ASSUME StorageInv, NEW c \in Caller, Running(c), ReadsOnePage(c), call[c].op = "list",
         client \in {"Gcs", "Azure", "Box", "Ipfs"}
  PROVE  Follows(c)
<1>1. PICK page : Lists(c, page)
  BY DEF ReadsOnePage
<1> QED
  BY <1>1, ListsFollows DEF Holding, ByPath

\* Folders are made where there may be some.
LEMMA MakesFollows ==
  ASSUME StorageInv, NEW c \in Caller, Running(c), NEW qs, qs \subseteq Folders \ {<<>>},
         Makes(c, qs, call[c]) \/ Makes(c, qs, NoCall), client # "Mega"
  PROVE  Follows(c)
<1>1. /\ UNCHANGED <<client, drive, objects, calls, history>> /\ ServiceType' /\ Houses(c)
      /\ Answers(c, call[c]) \/ Answers(c, NoCall)
  BY DEF Makes, StorageInv, ServiceType, Houses
<1>2. PICK k : k = call[c] /\ (Holding => AtStep(k))
  BY CallKnown
<1>3. CallOK(k) /\ Keeps(k, call[c])
  BY <1>2, CallKnown DEF Keeps
<1>4. CASE Answers(c, k)
  <2>1. Holding => AtStep(k)'
    BY <1>1, <1>2 DEF AtStep, Now, There, Newest
  <2> QED
    BY <1>1, <1>3, <1>4, <2>1, AsksFollows
<1>5. CASE Answers(c, NoCall)
  BY <1>1, <1>5, AsksFollows
<1> QED
  BY <1>1, <1>2, <1>4, <1>5

LEMMA MakesNextFollows ==
  ASSUME StorageInv, NEW c \in Caller, Running(c), NEW q \in Folders, MakesNext(c, q),
         client # "Mega"
  PROVE  Follows(c)
<1>1. PICK r \in Prefixes(q) : Makes(c, {r}, call[c])
  BY DEF MakesNext
<1>2. {r} \subseteq Folders \ {<<>>}
  BY FoldersAre
<1> QED
  BY <1>1, <1>2, MakesFollows

LEMMA MakesInsideFollows ==
  ASSUME StorageInv, NEW c \in Caller, Running(c), MakesInside(c), call[c].op = "create_folder",
         client # "Mega"
  PROVE  Follows(c)
<1>1. PICK q : q = call[c].path
  OBVIOUS
<1>2. q \in Folders
  BY <1>1, CallKnown DEF CallOK
<1>3. CASE q # <<>> /\ Makes(c, {q}, NoCall)
  BY <1>2, <1>3, MakesFollows
<1> QED
  BY <1>1, <1>3, EndsFollows DEF MakesInside

-----------------------------------------------------------------------------
(* Object stores. *)

LEMMA NewestIs ==
  ASSUME StorageInv, NEW p \in Path, There(p)
  PROVE  Newest(p) \in Content \union {Empty} /\ Newest(p) # NoItem /\ Now(p) = Newest(p)
<1>1. PICK s \in Seq(Content \union {Empty}) : s = objects[p] /\ s # <<>>
  BY DEF StorageInv, ServiceType, There
<1>2. s[Len(s)] \in Content \union {Empty}
  BY <1>1
<1> QED
  BY <1>1, <1>2, StorageAssumption DEF Newest, Now

\* The content of the source is where a rename or copy was to bring it.
LEMMA CopiedIs ==
  ASSUME StorageInv, NEW c \in Caller, Running(c), NEW j, j = call[c],
         j.op \in {"rename", "copy"}, There(j.path), objects' = Copied(j),
         UNCHANGED <<client, drive, twice, session>>, folders \subseteq folders',
         folders' \subseteq Folders \ {<<>>}
  PROVE  /\ ServiceType'
         /\ \A p \in Path : p # j.to => objects'[p] = objects[p]
         /\ Holding /\ client # "B2" =>
              /\ OneVersion(j.path)' /\ OneVersion(j.to)'
              /\ Now(j.path)' = Now(j.path)
              /\ j.others = {} => Now(j.to)' \in j.was \ {NoItem}
<1>1. j.path \in Path /\ j.to \in Path /\ j.path # j.to /\ DOMAIN objects = Path
  BY CallKnown DEF CallOK, Carries, StorageInv, ServiceType
<1>2. PICK v \in Content \union {Empty} : v = Newest(j.path) /\ v # NoItem /\ Now(j.path) = v
  BY <1>1, NewestIs
<1>3. Holding => (j.others = {} => v \in j.was) /\ PathOK(j.path)
  BY <1>1, <1>2, CallKnown DEF Standing, Carries, Holding, HoldsInv
<1>4. /\ <<v>> \in Seq(Content \union {Empty}) /\ <<v>> # <<>> /\ Len(<<v>>) = 1
      /\ <<v>>[1] = v
  OBVIOUS
<1>5. objects' = [objects EXCEPT ![j.to] = <<v>>]
  BY <1>2 DEF Copied
<1>6. objects'[j.to] = <<v>> /\ \A p \in Path : p # j.to => objects'[p] = objects[p]
  BY <1>1, <1>5
<1>7. ServiceType'
  BY <1>1, <1>4, <1>5 DEF StorageInv, ServiceType
<1>8. Now(j.to)' = v /\ Now(j.path)' = Now(j.path)
  BY <1>1, <1>4, <1>6 DEF Now, There, Newest
<1>9. Holding /\ client # "B2" => OneVersion(j.path)' /\ OneVersion(j.to)'
  BY <1>1, <1>3, <1>4, <1>6 DEF OneVersion, PathOK
<1> QED
  BY <1>2, <1>3, <1>6, <1>7, <1>8, <1>9

LEMMA CopyFollows ==
  ASSUME StorageInv, NEW c \in Caller, Running(c), Finishes(c, Copied(call[c])),
         call[c].op = "copy", There(call[c].path), client # "B2"
  PROVE  Follows(c)
<1>1. PICK j : j = call[c]
  OBVIOUS
<1>2. /\ objects' = Copied(j) /\ Succeeds(c)
      /\ UNCHANGED <<client, drive, folders, twice, session>>
      /\ folders \subseteq folders' /\ folders' \subseteq Folders \ {<<>>}
  BY <1>1 DEF Finishes, Succeeds, StorageInv, ServiceType
<1>3. /\ ServiceType'
      /\ \A p \in Path : p # j.to => objects'[p] = objects[p]
      /\ Holding =>
           /\ OneVersion(j.path)' /\ OneVersion(j.to)'
           /\ Now(j.path)' = Now(j.path)
           /\ j.others = {} => Now(j.to)' \in j.was \ {NoItem}
  BY <1>1, <1>2, CopiedIs
<1>4. j.op = "copy" /\ j.path \in Path /\ j.path # j.to
  BY <1>1, CallKnown DEF CallOK, Carries
<1>5. Holding => Achieves(j)
  BY <1>3, <1>4 DEF Achieves, Carries
<1> QED
  BY <1>1, <1>2, <1>3, <1>4, <1>5, HousesSame, SucceedsFollows DEF Uses

\* A call that carries a file, with the file still at its source and something at its
\* target.
LEMMA CarriesHalfway ==
  ASSUME StorageInv, NEW c \in Caller, Running(c), NEW j, j = call[c], UNCHANGED <<client, kept>>,
         j.op \in {"rename", "copy"}, Holding, ServiceType',
         OneVersion(j.path)' /\ OneVersion(j.to)', Now(j.path)' = Now(j.path),
         j.others = {} => Now(j.to)' \in (j.was \ {NoItem}) \union Halfway(j.op, j.to),
         j.others = {} /\ j.op = "rename" => Now(j.to)' \in j.was
  PROVE  Standing(j)' /\ PathOK(j.path)' /\ PathOK(j.to)'
<1>1. /\ CallOK(j) /\ Standing(j) /\ Carries(j) /\ j.path \in Path /\ j.to \in Path
      /\ client # "GoogleDrive"
  BY CallKnown DEF CallOK, Carries, Holding, ByPath
<1>2. \A op, p : Halfway(op, p)' = Halfway(op, p)
  BY <1>1, MayLeaveStays
<1>3. Now(j.path) \in kept[j.path]
  BY <1>1 DEF Holding, HoldsInv, PathOK
<1>4. Now(j.to)' \in Left
  <2>1. objects'[j.to] \in Seq(Content \union {Empty})
    BY <1>1 DEF ServiceType
  <2> QED
    BY <2>1, LastIs DEF Now, There, Newest, Left
<1>5. Standing(j)'
  BY <1>1, <1>2 DEF Standing, Carries
<1>6. Now(j.to)' \in kept[j.to]
  BY <1>1, <1>4 DEF Standing
<1> QED
  BY <1>3, <1>5, <1>6 DEF PathOK, OneVersion

LEMMA S3Follows ==
  ASSUME StorageInv, NEW c \in Caller,
         \/ UploadsToS3(c) \/ DownloadsFromS3(c) \/ DeletesFromS3(c)
         \/ CopiesOnS3(c) \/ RenamesOnS3(c) \/ ListsS3(c)
  PROVE  Follows(c)
<1>1. CASE UploadsToS3(c)
  BY <1>1, UploadFollows DEF UploadsToS3, Asks
<1>2. CASE DownloadsFromS3(c)
  BY <1>2, GetsFollows DEF DownloadsFromS3, Asks
<1>3. CASE DeletesFromS3(c)
  BY <1>3, RemovalFollows DEF DeletesFromS3, Asks
<1>4. CASE CopiesOnS3(c)
  BY <1>4, CopyFollows, EndsFollows DEF CopiesOnS3, Asks
<1>5. CASE RenamesOnS3(c)
  <2>1. PICK j : j = call[c]
    OBVIOUS
  <2>2. CASE /\ Asks(c, "S3", "rename", "walk") /\ There(j.path)
             /\ Stores(c, Copied(j), [j EXCEPT !.step = "remove"])
    <3>1. PICK k : k = [j EXCEPT !.step = "remove"]
      OBVIOUS
    <3>2. /\ client = "S3" /\ Running(c) /\ j.op = "rename"
          /\ objects' = Copied(j) /\ Answers(c, k)
          /\ UNCHANGED <<client, drive, folders, twice, session, calls, history>>
          /\ folders \subseteq folders' /\ folders' \subseteq Folders \ {<<>>}
      BY <2>1, <2>2, <3>1 DEF Stores, Asks, StorageInv, ServiceType
    <3>3. /\ ServiceType'
          /\ \A p \in Path : p # j.to => objects'[p] = objects[p]
          /\ Holding =>
               /\ OneVersion(j.path)' /\ OneVersion(j.to)'
               /\ Now(j.path)' = Now(j.path)
               /\ j.others = {} => Now(j.to)' \in j.was \ {NoItem}
      BY <2>1, <2>2, <3>2, CopiedIs
    <3>4. CallOK(j) /\ (Holding => Standing(j))
      BY <2>1, <3>2, CallKnown
    <3>5. CallOK(k)' /\ Keeps(k, j) /\ k.step = "remove"
      BY <3>1, <3>2, <3>4 DEF CallOK, Call, Keeps, Step, Carries
    <3>6. kept' = kept
      BY <3>2 DEF history
    <3>7. Holding => AtStep(k)'
      BY <3>2, <3>3, <3>5 DEF AtStep, Keeps
    <3>8. Holding => Standing(j)' /\ PathOK(j.path)' /\ PathOK(j.to)'
      BY <2>1, <3>2, <3>3, <3>6, CarriesHalfway
    <3>9. Carries(j)
      BY <3>2 DEF Carries
    <3> QED
      BY <2>1, <3>2, <3>3, <3>5, <3>7, <3>8, <3>9, StoresFollows DEF Uses
  <2>3. CASE Asks(c, "S3", "rename", "walk") /\ Ends(c)
    BY <2>3, EndsFollows DEF Asks
  <2>4. CASE Asks(c, "S3", "rename", "remove") /\ Sets(c, <<>>)
    BY <2>4, RemovalFollows DEF Asks
  <2> QED
    BY <1>5, <2>1, <2>2, <2>3, <2>4 DEF RenamesOnS3
<1>6. CASE ListsS3(c)
  <2>1. client = "S3" /\ Running(c) /\ call[c].op = "list" /\ call[c].step = "walk"
    BY <1>6 DEF ListsS3, Asks
  <2>2. CASE ReadsSomePage(c)
    BY <2>1, <2>2, SomePageFollows
  <2>3. PICK files : files = {p \in call[c].seen \union FilesIn(call[c].path) : Folder(p) = <<>>}
    OBVIOUS
  <2>4. Holding => \A p \in call[c].must \ files : client \in {"S3", "PCloud"} /\ Folder(p) # <<>>
    BY <2>1, <2>3, MustBeThere
  <2>5. CASE Lists(c, files)
    BY <2>1, <2>4, <2>5, ListsFollows
  <2> QED
    BY <1>6, <2>2, <2>3, <2>5 DEF ListsS3
<1> QED
  BY <1>1, <1>2, <1>3, <1>4, <1>5, <1>6

LEMMA GcsAndAzureFollow ==
  ASSUME StorageInv, NEW c \in Caller,
         \/ UploadsToGcs(c) \/ DownloadsFromGcs(c) \/ DeletesFromGcs(c) \/ ListsGcs(c)
         \/ UploadsToAzure(c) \/ DownloadsFromAzure(c) \/ DeletesFromAzure(c)
         \/ ListsAzure(c)
  PROVE  Follows(c)
<1>1. CASE UploadsToGcs(c) \/ UploadsToAzure(c)
  BY <1>1, UploadFollows DEF UploadsToGcs, UploadsToAzure, Asks
<1>2. CASE DownloadsFromGcs(c) \/ DownloadsFromAzure(c)
  BY <1>2, GetsFollows DEF DownloadsFromGcs, DownloadsFromAzure, Asks
<1>3. CASE DeletesFromGcs(c) \/ DeletesFromAzure(c)
  BY <1>3, DropsFollows DEF DeletesFromGcs, DeletesFromAzure, Asks
<1>4. CASE ListsGcs(c) \/ ListsAzure(c)
  BY <1>4, OnePageFollows DEF ListsGcs, ListsAzure, Asks
<1> QED
  BY <1>1, <1>2, <1>3, <1>4

LEMMA WithoutIs ==
  ASSUME NEW S, NEW s \in Seq(S), NEW n \in 1..Len(s)
  PROVE  Without(s, n) \in Seq(S)
<1>1. SubSeq(s, 1, n - 1) \in Seq(S)
  OBVIOUS
<1>2. SubSeq(s, n + 1, Len(s)) \in Seq(S)
  OBVIOUS
<1> QED
  BY <1>1, <1>2 DEF Without

\* The call goes on with a step that owes nothing to an earlier one.
LEMMA OpensFollows ==
  ASSUME StorageInv, NEW c \in Caller, Running(c), NEW step, Opens(c, step),
         step \in {"session", "send"}, client # "Mega", call[c].op \in {"upload", "download"},
         client \in {"Sftp", "Local"} => step # "send"
  PROVE  Follows(c)
<1>1. PICK j : j = call[c]
  OBVIOUS
<1>2. PICK k : k = [j EXCEPT !.step = step]
  OBVIOUS
<1>3. CallOK(j)
  BY <1>1, CallKnown
<1>4. CallOK(k) /\ Keeps(k, j) /\ k.step = step
  BY <1>1, <1>2, <1>3 DEF CallOK, Call, Keeps, Step, Carries
<1>5. AtStep(k)
  BY <1>1, <1>4 DEF AtStep, Keeps
<1> QED
  BY <1>1, <1>2, <1>4, <1>5, LearnsFollows DEF Opens

\* A version goes; what was before it is the newest one again.
LEMMA B2DeletionFollows ==
  ASSUME StorageInv, NEW c \in Caller, DeletesFromB2(c)
  PROVE  Follows(c)
<1>1. PICK j : j = call[c]
  OBVIOUS
<1>2. Running(c) /\ client = "B2" /\ CallOK(j) /\ j.op = "delete" /\ j.step = "remove"
  BY <1>1, CallKnown DEF DeletesFromB2, ReadyB2, Asks
<1>3. /\ j.path \in Path /\ j.to = j.path /\ j.item \in Nat /\ Uses(j) = {j.path}
      /\ ~Carries(j) /\ objects[j.path] \in Seq(Content \union {Empty})
  BY <1>2 DEF CallOK, Uses, Carries, StorageInv, ServiceType
<1>4. CASE j.item \notin DOMAIN objects[j.path]
  BY <1>1, <1>2, <1>4, EndsFollows DEF DeletesFromB2
<1>5. CASE j.item \in DOMAIN objects[j.path]
  <2>1. PICK vs : vs = Without(objects[j.path], j.item)
    OBVIOUS
  <2>2. j.item \in 1..Len(objects[j.path])
    BY <1>3, <1>5
  <2>3. vs \in Seq(Content \union {Empty})
    BY <1>3, <2>1, <2>2, WithoutIs
  <2>4. PICK moved : moved = [k \in {NoCall, Again(j)} |->
                                [d \in Caller |-> IF d = c THEN k
                                                  ELSE IF Running(d) THEN Shifted(j, call[d])
                                                  ELSE NoCall]]
    OBVIOUS
  <2>5. /\ objects' = [objects EXCEPT ![j.path] = vs]
        /\ \/ call' = moved[NoCall] /\ UNCHANGED faults
           \/ Fails /\ (call' = moved[Again(j)] \/ call' = moved[NoCall])
        /\ UNCHANGED <<client, drive, folders, twice, session, calls, history>>
    BY <1>1, <1>5, <2>1, <2>4 DEF DeletesFromB2
  <2>6. ASSUME NEW k \in {NoCall, Again(j)}, call' = moved[k]
        PROVE  Steps(c, k)
    <3>1. /\ DOMAIN call' = Caller /\ call'[c] = k
          /\ \A d \in Caller \ {c} : call'[d] = IF Running(d) THEN Shifted(j, call[d]) ELSE NoCall
      BY <2>4, <2>6
    <3>2. ASSUME NEW d \in Caller \ {c}
          PROVE  \/ call'[d] = call[d]
                 \/ /\ client = "B2" /\ Running(d)
                    /\ \E n \in Nat : call'[d] = [call[d] EXCEPT !.item = n]
      <4>1. CASE ~Running(d)
        BY <3>1, <4>1 DEF Running
      <4>2. CASE Running(d)
        <5>1. CallOK(call[d]) /\ call'[d] = Shifted(j, call[d])
          BY <3>1, <4>2 DEF StorageInv, CallsInv
        <5>2. PICK i : i = call[d]
          OBVIOUS
        <5>3. CASE i.op # "delete" \/ i.step # "remove" \/ i.path # j.path \/ i.item < j.item
          BY <5>1, <5>2, <5>3 DEF Shifted
        <5>4. CASE ~(i.op # "delete" \/ i.step # "remove" \/ i.path # j.path \/ i.item < j.item)
          <6>1. i.item \in Nat /\ ~(i.item < j.item)
            BY <1>2, <5>1, <5>2, <5>4 DEF CallOK
          <6>2. PICK n : n = IF i.item = j.item THEN 0 ELSE i.item - 1
            OBVIOUS
          <6>3. n \in Nat
            BY <1>3, <6>1, <6>2
          <6>4. call'[d] = [call[d] EXCEPT !.item = n]
            BY <5>1, <5>2, <5>4, <6>2 DEF Shifted
          <6> QED
            BY <1>2, <4>2, <6>3, <6>4
        <5> QED
          BY <5>3, <5>4
      <4> QED
        BY <4>1, <4>2
    <3> QED
      BY <3>1, <3>2 DEF Steps
  <2>7. objects'[j.path] = vs /\ \A p \in Path : p \notin Uses(j) => objects'[p] = objects[p]
    BY <1>3, <2>5 DEF StorageInv, ServiceType
  <2>8. ServiceType' /\ HistoryType'
    BY <1>3, <2>3, <2>5 DEF StorageInv, ServiceType, HistoryType, history
  <2>9. kept' = kept /\ raced' = raced
    BY <2>5 DEF history
  <2>10. ASSUME Holding
         PROVE  /\ PathOK(j.path)' /\ Now(j.path)' \in MayLeave(j)
                /\ Standing(j)'
    <3>1. Standing(j) /\ PathOK(j.path)
      BY <1>1, <1>2, <1>3, <2>10, CallKnown DEF Holding, HoldsInv
    <3>2. vs \in Seq(Content)
      BY <1>2, <1>3, <2>1, <2>2, <3>1, WithoutIs DEF PathOK
    <3>3. vs # <<>> => vs[Len(vs)] \in Content
      BY <3>2
    <3>4. Now(j.path)' \in {NoItem} \union Content
      BY <2>7, <3>3 DEF Now, There, Newest
    <3>5. MayLeave(j) = {NoItem} \union Content /\ MayLeave(j) \subseteq kept[j.path]
      BY <1>2, <1>3, <3>1, MayLeaveIs DEF Halfway, Left, Standing
    <3>6. MayLeave(j)' = MayLeave(j)
      BY <1>2, <2>5, MayLeaveStays
    <3>7. Standing(j)'
      BY <1>2, <1>3, <2>5, <2>9, <3>1, <3>5, <3>6 DEF Standing, Carries
    <3>8. PathOK(j.path)'
      BY <1>2, <2>5, <2>7, <2>9, <3>2, <3>4, <3>5 DEF PathOK
    <3> QED
      BY <3>4, <3>5, <3>7, <3>8
  <2>11. GoesOn(c)
    <3>1. CASE call' = moved[NoCall] /\ UNCHANGED faults
      BY <2>6, <3>1 DEF GoesOn, StorageInv, CallsInv
    <3>2. CASE Fails /\ (call' = moved[Again(j)] \/ call' = moved[NoCall])
      <4>1. Steps(c, Again(call[c])) \/ Steps(c, NoCall)
        BY <1>1, <2>6, <3>2
      <4> QED
        BY <1>1, <1>2, <2>5, <2>10, <3>2, <4>1, RetryGoesOn, FailsIs
    <3> QED
      BY <2>5, <3>1, <3>2
  <2>12. Holding => ~stale' /\ ListOK'
    BY <2>5 DEF history, Holding, HoldsInv, ListOK
  <2>13. Houses(c)
    BY <2>5, HousesSame
  <2>14. Holding => \A p \in Uses(j) :
                      /\ PathOK(p)'
                      /\ ~Carries(j) => Now(p)' \in {Now(p)} \union MayLeave(j)
                      /\ kept'[p] \subseteq kept[p] /\ kept[p] \intersect j.others \subseteq kept'[p]
    BY <1>3, <2>9, <2>10
  <2>15. /\ UNCHANGED <<client, drive, calls, raced, mistaken>>
         /\ \A p \in Path : p \notin Uses(j) => objects'[p] = objects[p] /\ kept'[p] = kept[p]
    BY <2>5, <2>7, <2>9 DEF history
  <2> QED
    BY <1>1, <1>2, <2>8, <2>11, <2>12, <2>13, <2>14, <2>15 DEF Follows
<1> QED
  BY <1>4, <1>5

LEMMA B2Follows ==
  ASSUME StorageInv, NEW c \in Caller,
         \/ AuthorizesB2(c) \/ GetsBucketId(c) \/ RefusedByB2(c)
         \/ GetsUploadUrl(c) \/ UploadsToB2(c) \/ DownloadsFromB2(c)
         \/ FindsVersion(c) \/ DeletesFromB2(c) \/ ListsB2(c)
  PROVE  Follows(c)
<1>1. PICK j : j = call[c]
  OBVIOUS
<1>2. Running(c) /\ client = "B2" /\ CallOK(j) /\ (Holding => AtStep(j))
  BY <1>1, CallKnown DEF AuthorizesB2, GetsBucketId, RefusedByB2, AtB2, GetsUploadUrl,
     UploadsToB2, DownloadsFromB2, FindsVersion, DeletesFromB2, ListsB2, ReadyB2, Asks
<1>3. CASE AuthorizesB2(c) \/ GetsBucketId(c)
  <2>1. /\ UNCHANGED <<client, drive, objects, folders, twice, calls, history>> /\ ServiceType'
        /\ Answers(c, j)
    BY <1>1, <1>3 DEF AuthorizesB2, GetsBucketId, Caches, StorageInv, ServiceType
  <2>2. Holding => AtStep(j)'
    BY <1>2, <2>1 DEF AtStep, Now, There, Newest
  <2> QED
    BY <1>1, <1>2, <2>1, <2>2, HousesSame, AsksFollows DEF Keeps
<1>4. CASE RefusedByB2(c)
  BY <1>2, <1>4, EndsFollows DEF RefusedByB2
<1>5. CASE GetsUploadUrl(c)
  BY <1>2, <1>5, OpensFollows DEF GetsUploadUrl, ReadyB2, Asks, Opens
<1>6. CASE UploadsToB2(c)
  BY <1>2, <1>6, UploadFollows DEF UploadsToB2, Asks
<1>7. CASE DownloadsFromB2(c)
  BY <1>2, <1>7, GetsFollows DEF DownloadsFromB2, Asks
<1>8. CASE FindsVersion(c)
  <2>1. PICK n : n = Len(objects[j.path])
    OBVIOUS
  <2>2. PICK k : k = [j EXCEPT !.step = "remove", !.item = n]
    OBVIOUS
  <2>3. j.op = "delete" /\ j.path \in Path /\ n \in Nat
    BY <1>1, <1>2, <1>8, <2>1 DEF FindsVersion, ReadyB2, Asks, CallOK, StorageInv, ServiceType
  <2>4. CASE n > 0 /\ Learns(c, k)
    <3>1. j \in Call /\ j.op = "delete"
      BY <1>2, <2>3 DEF CallOK
    <3>2. /\ k \in Call /\ Keeps(k, j)
          /\ k.step = "remove" /\ k.item = n /\ k.rest = j.rest
      BY <2>2, <2>3, <3>1 DEF Call, Keeps, Step
    <3>3. CallOK(k)
      BY <1>2, <2>3, <3>1, <3>2 DEF CallOK, Keeps, Carries
    <3>4. AtStep(k)
      BY <1>2, <3>1, <3>2 DEF AtStep, Keeps
    <3> QED
      BY <1>1, <1>2, <2>4, <3>2, <3>3, <3>4, LearnsFollows
  <2>5. CASE Ends(c)
    BY <1>2, <2>5, EndsFollows
  <2> QED
    BY <1>1, <1>8, <2>1, <2>2, <2>4, <2>5 DEF FindsVersion
<1>9. CASE DeletesFromB2(c)
  BY <1>9, B2DeletionFollows
<1>10. CASE ListsB2(c)
  BY <1>2, <1>10, SomePageFollows, AllPagesFollows DEF ListsB2, ReadyB2, Asks
<1> QED
  BY <1>3, <1>4, <1>5, <1>6, <1>7, <1>8, <1>9, <1>10

LEMMA IpfsFollows ==
  ASSUME StorageInv, NEW c \in Caller,
         \/ UploadsToIpfs(c) \/ ResolvesCid(c) \/ DownloadsFromIpfs(c) \/ DeletesFromIpfs(c)
         \/ ListsIpfs(c)
  PROVE  Follows(c)
<1>1. PICK j : j = call[c]
  OBVIOUS
<1>2. Running(c) /\ client = "Ipfs" /\ CallOK(j)
  BY <1>1, CallKnown DEF UploadsToIpfs, ResolvesCid, DownloadsFromIpfs, DeletesFromIpfs,
     ListsIpfs, Asks
<1>3. ~Holding
  BY <1>2 DEF Holding, ByPath
<1>4. CASE UploadsToIpfs(c)
  <2>1. /\ j.op = "upload" /\ j.path \in Path /\ j.content \in Content
        /\ objects[j.path] \in Seq(Content \union {Empty})
    BY <1>1, <1>2, <1>4 DEF UploadsToIpfs, Asks, CallOK, StorageInv, ServiceType
  <2>2. CASE Sets(c, objects[j.path])
    <3>1. ServiceType' /\ Succeeds(c) /\ UNCHANGED drive /\ Houses(c)
      BY <2>1, <2>2, SetsIs
    <3> QED
      BY <1>1, <1>2, <1>3, <2>1, <3>1, SucceedsFollows
  <2>3. CASE Sets(c, Append(objects[j.path], j.content))
    BY <1>1, <1>2, <1>3, <2>1, <2>3, UploadFollows
  <2> QED
    BY <1>1, <1>4, <2>2, <2>3 DEF UploadsToIpfs
<1>5. CASE ResolvesCid(c)
  <2>1. j.op \in {"download", "delete"} /\ j.path \in Path
    BY <1>1, <1>2, <1>5 DEF ResolvesCid, CallOK
  <2>2. ASSUME NEW v \in Versions(j.path), Learns(c, [j EXCEPT !.step = "send", !.item = v])
        PROVE  Follows(c)
    <3>1. PICK k : k = [j EXCEPT !.step = "send", !.item = v]
      OBVIOUS
    <3>2. v \in Content \union {Empty}
      BY <2>1 DEF Versions, StorageInv, ServiceType
    <3>3. CallOK(k) /\ Keeps(k, j)
      BY <1>2, <2>1, <3>1, <3>2 DEF CallOK, Call, Keeps, Step, Carries
    <3> QED
      BY <1>1, <1>2, <1>3, <2>2, <3>1, <3>3, LearnsFollows
  <2> QED
    BY <1>1, <1>2, <1>5, <2>2, EndsFollows DEF ResolvesCid
<1>6. CASE DownloadsFromIpfs(c)
  BY <1>2, <1>3, <1>6, DeliversFollows DEF DownloadsFromIpfs
<1>7. CASE DeletesFromIpfs(c)
  <2> DEFINE pins(p) == {n \in DOMAIN objects[p] : objects[p][n] = call[c].item}
             new == [p \in Path |-> IF pins(p) = {} THEN objects[p]
                                     ELSE Without(objects[p], CHOOSE n \in pins(p) : TRUE)]
  <2>1. j.op = "delete" /\ (Ends(c) \/ Finishes(c, new))
    BY <1>1, <1>7 DEF DeletesFromIpfs, Asks
  <2>2. ASSUME NEW p \in Path
        PROVE  new[p] \in Seq(Content \union {Empty})
    <3>1. objects[p] \in Seq(Content \union {Empty})
      BY DEF StorageInv, ServiceType
    <3>2. CASE pins(p) = {}
      BY <3>1, <3>2
    <3>3. CASE pins(p) # {}
      <4>1. PICK n : n = CHOOSE m \in pins(p) : TRUE
        OBVIOUS
      <4>2. n \in 1..Len(objects[p])
        BY <3>1, <3>3, <4>1
      <4>3. new[p] = Without(objects[p], n)
        BY <3>3, <4>1
      <4> QED
        BY <3>1, <4>2, <4>3, WithoutIs
    <3> QED
      BY <3>2, <3>3
  <2> HIDE DEF new
  <2>3. DOMAIN new = Path
    BY DEF new
  <2>4. CASE Finishes(c, new)
    <3>1. ServiceType' /\ Succeeds(c) /\ UNCHANGED drive /\ Houses(c)
      BY <2>2, <2>3, <2>4, HousesSame DEF Finishes, Succeeds, StorageInv, ServiceType
    <3> QED
      BY <1>1, <1>2, <1>3, <2>1, <3>1, SucceedsFollows
  <2> QED
    BY <1>2, <2>1, <2>4, EndsFollows
<1>8. CASE ListsIpfs(c)
  BY <1>2, <1>3, <1>8, OnePageFollows, ListsFollows DEF ListsIpfs, Asks
<1> QED
  BY <1>4, <1>5, <1>6, <1>7, <1>8

-----------------------------------------------------------------------------
(* Services with folders. *)

LEMMA FolderIs ==
  ASSUME StorageInv, NEW c \in Caller, Running(c)
  PROVE  /\ call[c].op \in {"upload", "download", "delete", "rename", "copy"} =>
              /\ Folder(call[c].path) \in Folders
              /\ Prefixes(Folder(call[c].path)) \subseteq Folders \ {<<>>}
         /\ call[c].op \in {"rename", "copy"} =>
              /\ Folder(call[c].to) \in Folders
              /\ Prefixes(Folder(call[c].to)) \subseteq Folders \ {<<>>}
         /\ call[c].op \in {"create_folder", "list"} =>
              /\ call[c].path \in Folders
              /\ Prefixes(call[c].path) \subseteq Folders \ {<<>>}
BY CallKnown, FoldersAre DEF CallOK, Carries

\* The file is emptied before it is filled.
LEMMA TruncatesFollows ==
  ASSUME StorageInv, NEW c \in Caller, Running(c), Truncates(c), call[c].op = "upload",
         client \in {"Sftp", "Local"}
  PROVE  Follows(c)
<1>1. PICK j : j = call[c]
  OBVIOUS
<1>2. PICK k : k = [j EXCEPT !.step = "send"]
  OBVIOUS
<1>3. CallOK(j) /\ j.path \in Path /\ j.to = j.path /\ (Holding => Standing(j))
  BY <1>1, CallKnown DEF CallOK
<1>4. /\ k \in Call /\ Keeps(k, j) /\ k.step = "send" /\ k.rest = j.rest
      /\ Answers(c, k) /\ UNCHANGED <<client, drive, folders, twice, session, calls, history>>
      /\ objects' = [objects EXCEPT ![j.path] = <<Empty>>]
  BY <1>1, <1>2, <1>3 DEF Truncates, Stores, CallOK, Call, Keeps, Step
<1>5. CallOK(k)'
  BY <1>1, <1>3, <1>4 DEF CallOK, Keeps, Carries
<1>6. /\ <<Empty>> \in Seq(Content \union {Empty}) /\ <<Empty>> # <<>> /\ Len(<<Empty>>) = 1
      /\ <<Empty>>[1] = Empty
  OBVIOUS
<1>7. /\ ServiceType' /\ objects'[j.path] = <<Empty>>
      /\ \A p \in Path : p \notin Uses(j) => objects'[p] = objects[p]
  BY <1>1, <1>3, <1>4, <1>6 DEF StorageInv, ServiceType, Uses
<1>8. kept' = kept
  BY <1>4 DEF history
<1>9. /\ Empty \in MayLeave(j) /\ MayLeave(j)' = MayLeave(j)
      /\ Holding => MayLeave(j) \subseteq kept[j.path]
  BY <1>1, <1>3, <1>4, MayLeaveIs, MayLeaveStays DEF Standing, Halfway, Left, Carries
<1>10. Now(j.path)' = Empty /\ Len(objects'[j.path]) <= 1
  <2>1. Now(j.path)' = Empty
    BY <1>6, <1>7 DEF Now, There, Newest
  <2>2. Len(objects'[j.path]) <= 1
    BY <1>6, <1>7
  <2> QED
    BY <2>1, <2>2
<1>11. Holding => PathOK(j.path)'
  BY <1>1, <1>4, <1>8, <1>9, <1>10 DEF PathOK
<1>12. Holding => Standing(j)' /\ AtStep(k)'
  BY <1>1, <1>3, <1>4, <1>8, <1>9, <1>10 DEF Standing, AtStep, Keeps, Carries
<1> QED
  BY <1>1, <1>3, <1>4, <1>5, <1>7, <1>9, <1>10, <1>11, <1>12, StoresFollows

\* The file that was opened for call c is filled.
LEMMA FillsFollows ==
  ASSUME StorageInv, NEW c \in Caller, Running(c), NEW j, j = call[c], j.step = "send",
         \/ client \in {"Sftp", "Local"} /\ j.op = "upload" /\ Fills(c, j.path, j.content)
         \/ client = "Local" /\ j.op = "copy" /\ Fills(c, j.to, j.item)
  PROVE  Follows(c)
<1>1. /\ CallOK(j) /\ j.path \in Path /\ j.to \in Path /\ client \notin {"B2", "Ipfs", "Mega"}
      /\ j.op = "upload" => j.to = j.path /\ ~Carries(j) /\ j.content \in Content
      /\ j.op = "copy" => j.to # j.path /\ Carries(j) /\ j.item \in Content \union {Empty}
  BY CallKnown DEF CallOK, Carries
<1>2. PICK p, v : /\ v \in Content \union {Empty} /\ Fills(c, p, v) /\ p = j.to
                  /\ v = IF j.op = "upload" THEN j.content ELSE j.item
  BY <1>1
<1>3. /\ Holding => /\ Standing(j) /\ AtStep(j) /\ PathOK(j.path) /\ PathOK(j.to)
      /\ Uses(j) = {j.path, j.to}
      /\ objects[p] \in Seq(Content \union {Empty}) /\ DOMAIN objects = Path
  BY <1>1, <1>2, CallKnown DEF Holding, HoldsInv, Uses, StorageInv, ServiceType
<1>4. CASE There(p)
  <2>1. PICK w \in {v} \union ({Empty, Newest(p)} \intersect j.others) :
             Finishes(c, [objects EXCEPT ![p] = <<w>>])
    BY <1>2, <1>4 DEF Fills
  <2>2. w \in Content \union {Empty} /\ Now(p) = Newest(p)
    BY <1>1, <1>2, <1>4, <2>1, NewestIs
  <2>3. /\ <<w>> \in Seq(Content \union {Empty}) /\ <<w>> # <<>> /\ Len(<<w>>) = 1 /\ <<w>>[1] = w
    BY <2>2
  <2>4. /\ objects' = [objects EXCEPT ![p] = <<w>>] /\ Succeeds(c)
        /\ UNCHANGED <<client, drive, folders, twice, session>>
    BY <2>1 DEF Finishes, Succeeds
  <2>5. objects'[p] = <<w>> /\ \A q \in Path : q # p => objects'[q] = objects[q]
    BY <1>1, <1>2, <1>3, <2>4
  <2>6. ServiceType'
    BY <1>1, <1>2, <2>3, <2>4 DEF StorageInv, ServiceType
  <2>7. Now(p)' = w /\ (p # j.path => Now(j.path)' = Now(j.path))
    BY <1>1, <2>3, <2>5 DEF Now, There, Newest
  <2>8. Holding => OneVersion(j.path)' /\ OneVersion(j.to)'
    <3>1. Len(objects'[p]) <= 1
      BY <2>3, <2>5
    <3>2. p # j.path => objects'[j.path] = objects[j.path]
      BY <1>1, <2>5
    <3> QED
      BY <1>1, <1>2, <1>3, <2>4, <3>1, <3>2 DEF OneVersion, PathOK
  <2>9. Holding => Achieves(j)
    <3>1. CASE j.op = "upload"
      <4>1. Empty \in MayLeave(j)
        BY <1>1, <3>1, MayLeaveIs DEF Halfway, Left
      <4> QED
        BY <1>1, <1>2, <2>1, <2>2, <2>7, <3>1, <4>1 DEF Achieves, Carries
    <3>2. CASE j.op = "copy"
      <4>1. Holding /\ j.others = {} => j.item \in j.was \ {NoItem}
        BY <1>3, <3>2 DEF AtStep
      <4> QED
        BY <1>1, <1>2, <2>1, <2>7, <3>2, <4>1 DEF Achieves, Carries
    <3> QED
      BY <3>1, <3>2
  <2>10. j.op \in {"upload", "copy"} /\ \A q \in Path : q \notin Uses(j) => objects'[q] = objects[q]
    BY <1>2, <1>3, <2>5
  <2> QED
    BY <2>4, <2>6, <2>8, <2>9, <2>10, HousesSame, SucceedsFollows
<1>5. CASE ~There(p)
  <2>1. /\ objects' = objects /\ Succeeds(c)
        /\ UNCHANGED <<client, drive, folders, twice, session>>
    BY <1>2, <1>5 DEF Fills, Finishes, Succeeds
  <2>2. ServiceType'
    BY <2>1 DEF StorageInv, ServiceType
  <2>3. Holding => OneVersion(j.path)' /\ OneVersion(j.to)'
    BY <1>3, <2>1 DEF OneVersion, PathOK
  <2>4. Holding => Achieves(j)
    <3>1. CASE j.op = "upload"
      <4>1. Now(j.path) = NoItem /\ Now(j.path)' = Now(j.path)
        BY <1>1, <1>2, <1>5, <2>1, <3>1 DEF Now, There, Newest
      <4>2. Holding => NoItem \in j.others
        BY <1>1, <1>3, <3>1, <4>1, StorageAssumption DEF AtStep
      <4> QED
        BY <1>1, <3>1, <4>1, <4>2 DEF Achieves, Carries
    <3>2. CASE j.op = "copy"
      BY <1>1, <1>2, <1>3, <1>5, <3>2 DEF Achieves, AtStep, Carries
    <3> QED
      BY <3>1, <3>2
  <2>5. j.op \in {"upload", "copy"} /\ \A q \in Path : q \notin Uses(j) => objects'[q] = objects[q]
    BY <1>2, <2>1
  <2> QED
    BY <2>1, <2>2, <2>3, <2>4, <2>5, HousesSame, SucceedsFollows
<1> QED
  BY <1>4, <1>5

\* What the request leaves in the objects, and the folders of the target.
LEMMA HousedFollows ==
  ASSUME StorageInv, NEW c \in Caller, Running(c), NEW j, j = call[c],
         j.op \in {"rename", "copy"}, There(j.path), client \notin {"B2", "Ipfs", "Mega"},
         Succeeds(c), UNCHANGED <<drive, twice>>, folders \subseteq folders',
         folders' \subseteq folders \union Prefixes(Folder(j.to)),
         objects' = IF j.op = "rename" THEN Moved(j) ELSE Copied(j)
  PROVE  Follows(c)
<1>1. /\ UNCHANGED <<client, drive, session>>
      /\ folders' \subseteq Folders \ {<<>>} /\ Houses(c)
  BY FolderIs DEF Succeeds, StorageInv, ServiceType, Houses
<1>2. /\ CallOK(j) /\ j.path \in Path /\ j.to \in Path /\ j.path # j.to
      /\ (Holding => Standing(j) /\ PathOK(j.path))
      /\ objects[j.path] \in Seq(Content \union {Empty}) /\ DOMAIN objects = Path
  BY CallKnown DEF CallOK, Carries, StorageInv, ServiceType, Holding, HoldsInv
<1>3. CASE j.op = "copy"
  <2>1. /\ ServiceType'
        /\ \A p \in Path : p # j.to => objects'[p] = objects[p]
        /\ Holding =>
             /\ OneVersion(j.path)' /\ OneVersion(j.to)'
             /\ Now(j.path)' = Now(j.path)
             /\ j.others = {} => Now(j.to)' \in j.was \ {NoItem}
    BY <1>1, <1>3, CopiedIs
  <2>2. Holding => Achieves(j)
    BY <1>3, <2>1 DEF Achieves, Carries
  <2> QED
    BY <1>1, <1>2, <1>3, <2>1, <2>2, SucceedsFollows DEF Uses
<1>4. CASE j.op = "rename"
  <2>1. /\ objects' = [objects EXCEPT ![j.path] = <<>>, ![j.to] = objects[j.path]]
        /\ <<>> \in Seq(Content \union {Empty})
    BY <1>4 DEF Moved
  <2>2. /\ objects'[j.path] = <<>> /\ objects'[j.to] = objects[j.path]
        /\ \A p \in Path : p # j.path /\ p # j.to => objects'[p] = objects[p]
        /\ DOMAIN objects' = Path
    BY <1>2, <2>1
  <2>3. ServiceType'
    BY <1>1, <1>2, <2>1, <2>2 DEF StorageInv, ServiceType
  <2>4. Now(j.path) # NoItem /\ There(j.path)
    BY <1>2, NewestIs
  <2>5. Now(j.to)' = Now(j.path) /\ Now(j.path)' = NoItem
    BY <2>2 DEF Now, There, Newest
  <2>6. Holding /\ j.others = {} => Now(j.path) \in j.was
    BY <1>2, <1>4, <2>4 DEF Standing, Carries
  <2>7. Holding => Achieves(j)
    BY <1>4, <2>4, <2>5, <2>6 DEF Achieves, Carries
  <2>8. Holding => OneVersion(j.path)' /\ OneVersion(j.to)'
    BY <1>1, <1>2, <2>2 DEF OneVersion, PathOK
  <2> QED
    BY <1>1, <1>2, <1>4, <2>2, <2>3, <2>7, <2>8, SucceedsFollows DEF Uses
<1> QED
  BY <1>3, <1>4

LEMMA HousedUploadFollows ==
  ASSUME StorageInv, NEW c \in Caller, Running(c), SetsHoused(c), call[c].op = "upload",
         client \notin {"B2", "Mega"}
  PROVE  Follows(c)
<1>1. PICK j : j = call[c]
  OBVIOUS
<1>2. /\ j.path \in Path /\ j.to = j.path /\ j.content \in Content /\ DOMAIN objects = Path
  BY <1>1, CallKnown DEF CallOK, StorageInv, ServiceType
<1>3. /\ objects' = [objects EXCEPT ![j.path] = <<j.content>>]
      /\ Succeeds(c) /\ UNCHANGED <<client, drive, twice, session>>
      /\ folders' \subseteq Folders \ {<<>>} /\ folders \subseteq folders' /\ Houses(c)
  BY <1>1, FolderIs DEF SetsHoused, FinishesHoused, Succeeds, StorageInv, ServiceType, Houses
<1>4. /\ <<j.content>> \in Seq(Content \union {Empty}) /\ <<j.content>> # <<>>
      /\ Len(<<j.content>>) = 1 /\ <<j.content>>[1] = j.content
  BY <1>2
<1>5. /\ objects'[j.path] = <<j.content>>
      /\ \A p \in Path : p # j.path => objects'[p] = objects[p]
  BY <1>2, <1>3
<1>6. ServiceType'
  BY <1>2, <1>3, <1>4 DEF StorageInv, ServiceType
<1>7. Achieves(j) /\ OneVersion(j.path)'
  <2>1. Now(j.path)' = j.content
    BY <1>4, <1>5 DEF Now, There, Newest
  <2>2. Len(objects'[j.path]) <= 1
    BY <1>4, <1>5
  <2> QED
    BY <1>1, <1>3, <2>1, <2>2 DEF Achieves, Carries, OneVersion
<1> QED
  BY <1>1, <1>2, <1>3, <1>5, <1>6, <1>7, SucceedsFollows DEF Uses

LEMMA ListsFolderFollows ==
  ASSUME StorageInv, NEW c \in Caller, Running(c), ListsFolder(c), call[c].op = "list"
  PROVE  Follows(c)
BY AllPagesFollows, EndsFollows DEF ListsFolder

LEMMA ListsUncheckedFollows ==
  ASSUME StorageInv, NEW c \in Caller, Running(c), ListsUnchecked(c), call[c].op = "list",
         call[c].step = "walk"
  PROVE  Follows(c)
BY SomePageFollows, AllPagesFollows, ListsMistakenFollows DEF ListsUnchecked, ReadsPages

LEMMA DavFollows ==
  ASSUME StorageInv, NEW c \in Caller,
         \/ EnsuresParentsOnWebDav(c) \/ UploadsToWebDav(c) \/ DownloadsFromWebDav(c)
         \/ DeletesFromWebDav(c) \/ ListsWebDav(c) \/ CreatesFolderOnWebDav(c)
         \/ EnsuresParentsOnNextcloud(c) \/ UploadsToNextcloud(c)
         \/ DownloadsFromNextcloud(c) \/ DeletesFromNextcloud(c) \/ ListsNextcloud(c)
         \/ CreatesFolderOnNextcloud(c)
  PROVE  Follows(c)
<1>1. CASE EnsuresParentsOnWebDav(c) \/ EnsuresParentsOnNextcloud(c)
  BY <1>1, FolderIs, MakesNextFollows
  DEF EnsuresParentsOnWebDav, EnsuresParentsOnNextcloud, Asks
<1>2. CASE UploadsToWebDav(c) \/ UploadsToNextcloud(c)
  BY <1>2, UploadFollows DEF UploadsToWebDav, UploadsToNextcloud, Asks
<1>3. CASE DownloadsFromWebDav(c) \/ DownloadsFromNextcloud(c)
  BY <1>3, GetsFollows DEF DownloadsFromWebDav, DownloadsFromNextcloud, Asks
<1>4. CASE DeletesFromWebDav(c) \/ DeletesFromNextcloud(c)
  BY <1>4, DropsFollows DEF DeletesFromWebDav, DeletesFromNextcloud, Asks
<1>5. CASE ListsWebDav(c) \/ ListsNextcloud(c)
  BY <1>5, ListsFolderFollows DEF ListsWebDav, ListsNextcloud, Asks
<1>6. CASE CreatesFolderOnWebDav(c) \/ CreatesFolderOnNextcloud(c)
  BY <1>6, MakesInsideFollows DEF CreatesFolderOnWebDav, CreatesFolderOnNextcloud, Asks
<1> QED
  BY <1>1, <1>2, <1>3, <1>4, <1>5, <1>6

LEMMA SftpFollows ==
  ASSUME StorageInv, NEW c \in Caller,
         \/ MakesDirsOnSftp(c) \/ UploadsToSftp(c) \/ DownloadsFromSftp(c)
         \/ DeletesFromSftp(c) \/ ListsSftp(c)
  PROVE  Follows(c)
<1>1. CASE MakesDirsOnSftp(c)
  BY <1>1, FolderIs, MakesNextFollows DEF MakesDirsOnSftp, Asks
<1>2. CASE UploadsToSftp(c)
  BY <1>2, TruncatesFollows, FillsFollows DEF UploadsToSftp, Asks
<1>3. CASE DownloadsFromSftp(c)
  BY <1>3, GetsFollows DEF DownloadsFromSftp, Asks
<1>4. CASE DeletesFromSftp(c)
  BY <1>4, DropsFollows DEF DeletesFromSftp, Asks
<1>5. CASE ListsSftp(c)
  BY <1>5, ListsFolderFollows DEF ListsSftp, Asks
<1> QED
  BY <1>1, <1>2, <1>3, <1>4, <1>5

\* A copy opens its source, and empties or makes its target, before it fills it.
LEMMA LocalCopyOpens ==
  ASSUME StorageInv, NEW c \in Caller, Asks(c, "Local", "copy", "walk"), There(call[c].path),
         Stores(c, [objects EXCEPT ![call[c].to] = <<Empty>>],
                [call[c] EXCEPT !.step = "send", !.item = Newest(call[c].path)])
  PROVE  Follows(c)
<1>1. PICK j : j = call[c]
  OBVIOUS
<1>2. PICK k : k = [j EXCEPT !.step = "send", !.item = Newest(j.path)]
  OBVIOUS
<1>3. /\ Running(c) /\ client = "Local" /\ j.op = "copy" /\ Carries(j)
      /\ CallOK(j) /\ j.path \in Path /\ j.to \in Path /\ j.path # j.to
      /\ (Holding => Standing(j) /\ PathOK(j.path))
  BY <1>1, CallKnown DEF CallOK, Carries, Asks, Holding, HoldsInv
<1>4. Newest(j.path) \in Content \union {Empty} /\ Newest(j.path) # NoItem /\ Now(j.path) = Newest(j.path)
  BY <1>1, <1>3, NewestIs
<1>5. /\ k \in Call /\ Keeps(k, j) /\ k.step = "send" /\ k.rest = j.rest /\ k.item = Newest(j.path)
      /\ Answers(c, k) /\ UNCHANGED <<client, drive, folders, twice, session, calls, history>>
      /\ objects' = [objects EXCEPT ![j.to] = <<Empty>>]
  BY <1>1, <1>2, <1>3, <1>4 DEF Stores, CallOK, Call, Keeps, Step
<1>6. /\ <<Empty>> \in Seq(Content \union {Empty}) /\ <<Empty>> # <<>> /\ Len(<<Empty>>) = 1
      /\ <<Empty>>[1] = Empty
  OBVIOUS
<1>7. /\ ServiceType' /\ objects'[j.to] = <<Empty>>
      /\ \A p \in Path : p # j.to => objects'[p] = objects[p]
  BY <1>1, <1>3, <1>5, <1>6 DEF StorageInv, ServiceType
<1>8. CallOK(k)'
  BY <1>1, <1>3, <1>4, <1>5 DEF CallOK, Keeps, Carries
<1>9. kept' = kept
  BY <1>5 DEF history
<1>10. Now(j.to)' = Empty /\ Len(objects'[j.to]) <= 1
  <2>1. Now(j.to)' = Empty
    BY <1>6, <1>7 DEF Now, There, Newest
  <2>2. Len(objects'[j.to]) <= 1
    BY <1>6, <1>7
  <2> QED
    BY <2>1, <2>2
<1>11. Now(j.path)' = Now(j.path) /\ objects'[j.path] = objects[j.path]
  BY <1>3, <1>7 DEF Now, There, Newest
<1>12. Empty \in Halfway(j.op, j.to)
  BY <1>3 DEF Halfway, Left
<1>13. Holding => OneVersion(j.path)' /\ OneVersion(j.to)'
  BY <1>3, <1>5, <1>10, <1>11 DEF OneVersion, PathOK
<1>14. Holding => Standing(j)' /\ PathOK(j.path)' /\ PathOK(j.to)'
  BY <1>1, <1>3, <1>5, <1>7, <1>9, <1>10, <1>11, <1>12, <1>13, CarriesHalfway
<1>15. Holding => AtStep(k)'
  <2>1. There(j.to)'
    BY <1>6, <1>7 DEF There
  <2>2. Holding /\ j.others = {} => Now(j.path) \in j.was \union {NoItem}
    BY <1>3 DEF Standing
  <2> QED
    BY <1>3, <1>4, <1>5, <2>1, <2>2 DEF AtStep, Keeps
<1> QED
  BY <1>1, <1>3, <1>5, <1>7, <1>8, <1>14, <1>15, StoresFollows DEF Uses

LEMMA LocalFollows ==
  ASSUME StorageInv, NEW c \in Caller,
         \/ UploadsLocally(c) \/ CopiesRateLimited(c) \/ StartsLocalSession(c)
         \/ FinishesLocalSession(c) \/ DownloadsLocally(c) \/ DeletesLocally(c)
         \/ CreatesFolderLocally(c) \/ CopiesLocally(c) \/ RenamesLocally(c)
         \/ ListsLocally(c)
  PROVE  Follows(c)
<1>1. CASE UploadsLocally(c) \/ FinishesLocalSession(c)
  BY <1>1, FolderIs, TruncatesFollows, MakesNextFollows
  DEF UploadsLocally, FinishesLocalSession, TruncatesLocally, Asks
<1>2. CASE CopiesRateLimited(c)
  BY <1>2, FillsFollows DEF CopiesRateLimited, Asks
<1>3. CASE StartsLocalSession(c)
  BY <1>3, OpensFollows DEF StartsLocalSession, Asks
<1>4. CASE DownloadsLocally(c)
  BY <1>4, GetsFollows DEF DownloadsLocally, Asks
<1>5. CASE DeletesLocally(c)
  BY <1>5, DropsFollows DEF DeletesLocally, Asks
<1>6. CASE CreatesFolderLocally(c)
  BY <1>6, FolderIs, MakesNextFollows, EndsFollows DEF CreatesFolderLocally, Asks
<1>7. CASE CopiesLocally(c)
  <2>1. CASE Asks(c, "Local", "copy", "walk")
    BY <1>7, <2>1, FolderIs, MakesNextFollows, EndsFollows, LocalCopyOpens
    DEF CopiesLocally, Asks
  <2>2. CASE Asks(c, "Local", "copy", "send") /\ Fills(c, call[c].to, call[c].item)
    BY <2>2, FillsFollows DEF Asks
  <2> QED
    BY <1>7, <2>1, <2>2 DEF CopiesLocally
<1>8. CASE RenamesLocally(c)
  <2>1. PICK j : j = call[c]
    OBVIOUS
  <2>2. Running(c) /\ client = "Local" /\ j.op = "rename"
    BY <1>8, <2>1 DEF RenamesLocally, Asks
  <2>3. CASE There(j.path) /\ Finishes(c, Moved(j))
    <3>1. /\ objects' = Moved(j) /\ Succeeds(c) /\ UNCHANGED <<drive, folders, twice>>
      BY <2>1, <2>3 DEF Finishes
    <3> QED
      BY <2>1, <2>2, <2>3, <3>1, HousedFollows
  <2> QED
    BY <1>8, <2>1, <2>2, <2>3, FolderIs, MakesNextFollows, EndsFollows DEF RenamesLocally
<1>9. CASE ListsLocally(c)
  BY <1>9, ListsFolderFollows DEF ListsLocally, Asks
<1> QED
  BY <1>1, <1>2, <1>3, <1>4, <1>5, <1>6, <1>7, <1>8, <1>9

LEMMA PCloudFollows ==
  ASSUME StorageInv, NEW c \in Caller,
         \/ UploadsToPCloud(c) \/ DownloadsFromPCloud(c) \/ DeletesFromPCloud(c)
         \/ ListsPCloud(c)
  PROVE  Follows(c)
<1>1. ASSUME Running(c), BelievesPCloud(c), call[c].op \in {"upload", "delete"}
      PROVE  Follows(c)
  <2>1. /\ ServiceType'
        /\ UNCHANGED <<client, drive, objects, folders, calls, faults, raced, unlisted, stale>>
        /\ kept' = Leaves(call[c]) /\ mistaken' = TRUE /\ Becomes(c, NoCall)
    BY <1>1 DEF BelievesPCloud, service, StorageInv, ServiceType
  <2>2. /\ HistoryType'
        /\ \A p \in Path : p \notin Uses(call[c]) => kept'[p] = kept[p]
    BY <1>1, <2>1, LeavesIs DEF StorageInv, HistoryType
  <2> QED
    BY <1>1, <2>1, <2>2, MistakenFollows DEF StorageInv, CallsInv
<1>2. CASE UploadsToPCloud(c)
  BY <1>1, <1>2, UploadFollows DEF UploadsToPCloud, Asks
<1>3. CASE DownloadsFromPCloud(c)
  BY <1>3, OpensFollows, GetsFollows, EndsFollows DEF DownloadsFromPCloud, Asks
<1>4. CASE DeletesFromPCloud(c)
  BY <1>1, <1>4, RemovalFollows DEF DeletesFromPCloud, Asks
<1>5. CASE ListsPCloud(c)
  <2>1. client = "PCloud" /\ Running(c) /\ call[c].op = "list"
    BY <1>5 DEF ListsPCloud, Asks
  <2>2. PICK files : files = {p \in FilesIn(call[c].path) : Folder(p) = <<>>}
    OBVIOUS
  <2>3. Holding => \A p \in call[c].must \ files : client \in {"S3", "PCloud"} /\ Folder(p) # <<>>
    BY <2>1, <2>2, MustBeThere
  <2>4. CASE Lists(c, files)
    BY <2>1, <2>3, <2>4, ListsFollows
  <2>5. CASE ListsMistaken(c, {})
    BY <2>1, <2>5, ListsMistakenFollows
  <2> QED
    BY <1>5, <2>2, <2>4, <2>5 DEF ListsPCloud
<1> QED
  BY <1>2, <1>3, <1>4, <1>5

LEMMA DropboxFollows ==
  ASSUME StorageInv, NEW c \in Caller,
         \/ UploadsToDropbox(c) \/ OpensDropboxSession(c) \/ FinishesDropboxSession(c)
         \/ DownloadsFromDropbox(c) \/ DeletesFromDropbox(c) \/ RenamesOnDropbox(c)
         \/ CopiesOnDropbox(c) \/ CreatesFolderOnDropbox(c) \/ ListsDropbox(c)
  PROVE  Follows(c)
<1>1. CASE UploadsToDropbox(c) \/ FinishesDropboxSession(c)
  BY <1>1, HousedUploadFollows DEF UploadsToDropbox, FinishesDropboxSession, Asks
<1>2. CASE OpensDropboxSession(c)
  BY <1>2, OpensFollows DEF OpensDropboxSession, Asks
<1>3. CASE DownloadsFromDropbox(c)
  BY <1>3, GetsFollows DEF DownloadsFromDropbox, Asks
<1>4. CASE DeletesFromDropbox(c)
  BY <1>4, DropsFollows DEF DeletesFromDropbox, Asks
<1>5. CASE RenamesOnDropbox(c)
  <2>1. PICK j : j = call[c]
    OBVIOUS
  <2>2. Running(c) /\ client = "Dropbox" /\ j.op = "rename"
    BY <1>5, <2>1 DEF RenamesOnDropbox, Asks
  <2>3. CASE MayMove(j) /\ FinishesHoused(c, Moved(j), j.to)
    BY <2>1, <2>2, <2>3, HousedFollows DEF FinishesHoused, MayMove
  <2> QED
    BY <1>5, <2>1, <2>2, <2>3, EndsFollows DEF RenamesOnDropbox
<1>6. CASE CopiesOnDropbox(c)
  <2>1. PICK j : j = call[c]
    OBVIOUS
  <2>2. Running(c) /\ client = "Dropbox" /\ j.op = "copy"
    BY <1>6, <2>1 DEF CopiesOnDropbox, Asks
  <2>3. CASE MayMove(j) /\ FinishesHoused(c, Copied(j), j.to)
    BY <2>1, <2>2, <2>3, HousedFollows DEF FinishesHoused, MayMove
  <2> QED
    BY <1>6, <2>1, <2>2, <2>3, EndsFollows DEF CopiesOnDropbox
<1>7. CASE CreatesFolderOnDropbox(c)
  BY <1>7, FolderIs, MakesFollows DEF CreatesFolderOnDropbox, Asks
<1>8. CASE ListsDropbox(c)
  BY <1>8, ListsUncheckedFollows DEF ListsDropbox, Asks
<1> QED
  BY <1>1, <1>2, <1>3, <1>4, <1>5, <1>6, <1>7, <1>8

LEMMA OneDriveFollows ==
  ASSUME StorageInv, NEW c \in Caller,
         \/ UploadsToOneDrive(c) \/ OpensOneDriveSession(c) \/ FinishesOneDriveSession(c)
         \/ DownloadsFromOneDrive(c) \/ DeletesFromOneDrive(c) \/ RenamesOnOneDrive(c)
         \/ CopiesOnOneDrive(c) \/ CreatesFolderOnOneDrive(c) \/ ListsOneDrive(c)
  PROVE  Follows(c)
<1>1. CASE UploadsToOneDrive(c) \/ FinishesOneDriveSession(c)
  BY <1>1, HousedUploadFollows DEF UploadsToOneDrive, FinishesOneDriveSession, Asks
<1>2. CASE OpensOneDriveSession(c)
  BY <1>2, OpensFollows DEF OpensOneDriveSession, Asks
<1>3. CASE DownloadsFromOneDrive(c)
  BY <1>3, GetsFollows DEF DownloadsFromOneDrive, Asks
<1>4. CASE DeletesFromOneDrive(c)
  BY <1>4, DropsFollows DEF DeletesFromOneDrive, Asks
<1>5. CASE RenamesOnOneDrive(c)
  <2>1. PICK j : j = call[c]
    OBVIOUS
  <2>2. Running(c) /\ client = "OneDrive" /\ j.op = "rename"
    BY <1>5, <2>1 DEF RenamesOnOneDrive, Asks
  <2>3. CASE MayMove(j) /\ Finishes(c, Moved(j))
    <3>1. /\ objects' = Moved(j) /\ Succeeds(c) /\ UNCHANGED <<drive, folders, twice>>
          /\ There(j.path)
      BY <2>3 DEF Finishes, MayMove
    <3> QED
      BY <2>1, <2>2, <3>1, HousedFollows
  <2> QED
    BY <1>5, <2>1, <2>2, <2>3, EndsFollows DEF RenamesOnOneDrive
<1>6. CASE CopiesOnOneDrive(c)
  <2>1. PICK j : j = call[c]
    OBVIOUS
  <2>2. Running(c) /\ client = "OneDrive" /\ j.op = "copy"
    BY <1>6, <2>1 DEF CopiesOnOneDrive, Asks
  <2>3. CASE ~Ends(c)
    <3>1. /\ There(j.path)
          /\ objects' = objects \/ objects' = Copied(j)
          /\ Becomes(c, NoCall) /\ kept' = Leaves(j) /\ mistaken' = TRUE
          /\ UNCHANGED <<client, drive, folders, twice, session, calls, faults, raced, unlisted,
                         stale>>
      BY <1>6, <2>1, <2>3 DEF CopiesOnOneDrive, MayMove
    <3>2. /\ ServiceType'
          /\ \A p \in Path : p # j.to => objects'[p] = objects[p]
      <4>1. CASE objects' = objects
        BY <3>1, <4>1 DEF StorageInv, ServiceType
      <4>2. CASE objects' = Copied(j)
        BY <2>1, <2>2, <3>1, <4>2, CopiedIs DEF StorageInv, ServiceType
      <4> QED
        BY <3>1, <4>1, <4>2
    <3>3. /\ HistoryType'
          /\ \A p \in Path : p \notin Uses(j) => kept'[p] = kept[p]
      BY <2>1, <2>2, <3>1, LeavesIs DEF StorageInv, HistoryType
    <3> QED
      BY <2>1, <2>2, <3>1, <3>2, <3>3, MistakenFollows DEF StorageInv, CallsInv, Uses
  <2> QED
    BY <2>2, <2>3, EndsFollows
<1>7. CASE CreatesFolderOnOneDrive(c)
  BY <1>7, MakesInsideFollows DEF CreatesFolderOnOneDrive, Asks
<1>8. CASE ListsOneDrive(c)
  BY <1>8, ListsUncheckedFollows DEF ListsOneDrive, Asks
<1> QED
  BY <1>1, <1>2, <1>3, <1>4, <1>5, <1>6, <1>7, <1>8

LEMMA BoxFollows ==
  ASSUME StorageInv, NEW c \in Caller,
         \/ MissesOnBox(c) \/ MakesFolderOnBox(c) \/ UploadsToBox(c) \/ DownloadsFromBox(c)
         \/ DeletesFromBox(c) \/ CreatesFolderOnBox(c) \/ ListsBox(c)
  PROVE  Follows(c)
<1>1. CASE MissesOnBox(c)
  BY <1>1, EndsFollows DEF MissesOnBox
<1>2. CASE MakesFolderOnBox(c)
  BY <1>2, FolderIs, MakesNextFollows DEF MakesFolderOnBox, AtBox, Asks
<1>3. CASE UploadsToBox(c)
  BY <1>3, UploadFollows DEF UploadsToBox, AtBox, Asks
<1>4. CASE DownloadsFromBox(c)
  BY <1>4, GetsFollows DEF DownloadsFromBox, AtBox, Asks
<1>5. CASE DeletesFromBox(c)
  BY <1>5, DropsFollows DEF DeletesFromBox, AtBox, Asks
<1>6. CASE CreatesFolderOnBox(c)
  BY <1>6, FolderIs, MakesNextFollows, EndsFollows DEF CreatesFolderOnBox, AtBox, Asks
<1>7. CASE ListsBox(c)
  BY <1>7, OnePageFollows, EndsFollows DEF ListsBox, AtBox, Asks
<1> QED
  BY <1>1, <1>2, <1>3, <1>4, <1>5, <1>6, <1>7

-----------------------------------------------------------------------------
(* MEGA. *)

\* What is left of a way behind its first n names.
LEMMA RestIs ==
  ASSUME NEW a \in Nat, NEW n \in 0..a, NEW l, l = a - n
  PROVE  /\ a - l = n /\ a - l + 1 = n + 1 /\ l \in 0..a
         /\ n # a => l \in 1..a
         /\ l > 1 => a - (l - 1) = n + 1 /\ l - 1 \in 1..a
  OBVIOUS

LEMMA LeastIs ==
  ASSUME NEW T \in SUBSET Nat, T # {}
  PROVE  \E m \in T : \A n \in T : m <= n
<1> DEFINE R == OpToRel(<, Nat)
<1>1. IsWellFoundedOn(R, Nat)
  BY NatLessThanWellFounded
<1>2. ASSUME NEW m \in Nat, NEW n \in Nat, n < m
      PROVE  <<n, m>> \in R
  BY <1>2 DEF OpToRel
<1> HIDE DEF R
<1>3. PICK m \in T : \A n \in T : ~(<<n, m>> \in R)
  BY <1>1, WFMin, Zenon
<1>4. ASSUME NEW n \in T
      PROVE  m <= n
  <2>1. m \in Nat /\ n \in Nat
    OBVIOUS
  <2>2. ~(n < m)
    BY <1>2, <1>3, <2>1, Zenon
  <2> QED
    BY <2>1, <2>2
<1> QED
  BY <1>4

\* There is a first name on the way to q that no folder has.
LEMMA MissingIs ==
  ASSUME NEW q \in Seq(Name), ~HasFolder(q), NEW r, r = Missing(q)
  PROVE  /\ r \in Seq(Name) /\ Len(r) \in 1..Len(q)
         /\ HasFolder(SubSeq(q, 1, Len(q) - Len(r)))
         /\ ~HasFolder(SubSeq(q, 1, Len(q) - Len(r) + 1))
<1> DEFINE Has(n) == HasFolder(SubSeq(q, 1, n))
           rests == {SubSeq(q, n + 1, Len(q)) : n \in 0..Len(q)}
           Fits(t) == /\ HasFolder(SubSeq(q, 1, Len(q) - Len(t)))
                      /\ t # <<>> => ~HasFolder(SubSeq(q, 1, Len(q) - Len(t) + 1))
<1>1. Len(q) \in Nat /\ SubSeq(q, 1, 0) = <<>> /\ SubSeq(q, 1, Len(q)) = q
  OBVIOUS
<1>2. Has(0) /\ ~Has(Len(q))
  BY <1>1 DEF HasFolder
<1>3. \E n \in 0..Len(q) : Has(n) /\ n # Len(q) /\ ~Has(n + 1)
  <2>1. SUFFICES ASSUME \A n \in 0..Len(q) : Has(n) /\ n # Len(q) => Has(n + 1)
                 PROVE  FALSE
    OBVIOUS
  <2> HIDE DEF Has
  <2> DEFINE bad == {n \in 0..Len(q) : ~Has(n)}
  <2>2. PICK n \in bad : \A m \in bad : n <= m
    <3>1. Len(q) \in bad /\ bad \subseteq Nat
      BY <1>1, <1>2
    <3> HIDE DEF bad
    <3> QED
      BY <3>1, LeastIs
  <2>3. n # 0 /\ n - 1 \in 0..Len(q) /\ n - 1 \notin bad
    BY <1>1, <1>2, <2>2
  <2>4. Has(n - 1) /\ n - 1 # Len(q)
    BY <1>1, <2>2, <2>3
  <2>5. Has((n - 1) + 1)
    BY <2>1, <2>3, <2>4
  <2>6. (n - 1) + 1 = n
    BY <1>1, <2>2
  <2> QED
    BY <2>2, <2>5, <2>6
<1>4. \A n \in 0..Len(q) : /\ SubSeq(q, n + 1, Len(q)) \in Seq(Name)
                           /\ Len(SubSeq(q, n + 1, Len(q))) = Len(q) - n
  OBVIOUS
<1>5. \E t \in rests : Fits(t)
  <2>1. PICK n \in 0..Len(q) : Has(n) /\ n # Len(q) /\ ~Has(n + 1)
    BY <1>3
  <2>2. PICK t : t = SubSeq(q, n + 1, Len(q))
    OBVIOUS
  <2>3. Len(q) - Len(t) = n /\ Len(q) - Len(t) + 1 = n + 1
    <3>1. Len(t) = Len(q) - n
      BY <1>4, <2>2
    <3> QED
      BY <1>1, <3>1, RestIs
  <2>4. Fits(t)
    BY <2>1, <2>3
  <2> QED
    BY <2>2, <2>4
<1>6. r = CHOOSE t \in rests : Fits(t)
  BY DEF Missing
<1>7. r \in rests /\ Fits(r)
  <2> HIDE DEF rests, Fits
  <2> QED
    BY <1>5, <1>6
<1>8. PICK n \in 0..Len(q) : r = SubSeq(q, n + 1, Len(q))
  BY <1>7
<1>9. r \in Seq(Name) /\ Len(r) = Len(q) - n
  BY <1>4, <1>8
<1>10. n # Len(q)
  <2>1. CASE n = Len(q)
    <3>1. Len(q) - Len(r) = Len(q)
      BY <1>1, <1>9, <2>1
    <3>2. HasFolder(q)
      BY <1>1, <1>7, <3>1
    <3> QED
      BY <3>2
  <2> QED
    BY <2>1
<1>11. Len(r) \in 1..Len(q) /\ r # <<>>
  <2>1. Len(r) \in 1..Len(q)
    BY <1>1, <1>9, <1>10, RestIs
  <2> QED
    BY <1>9, <2>1
<1> QED
  BY <1>7, <1>9, <1>11

\* The folders on a way, and what is missing of them.
LEMMA WayIs ==
  ASSUME NEW q \in Seq(Name), NEW l \in 1..Len(q)
  PROVE  /\ \A n \in (Len(q) - l + 1)..Len(q) :
              /\ n \in 1..Len(q) /\ SubSeq(q, 1, n) \in Prefixes(q)
              /\ Len(SubSeq(q, 1, n)) = n /\ SubSeq(q, 1, n) # <<>>
         /\ \A m \in 1..(Len(q) - l) : SubSeq(q, 1, m) \in Prefixes(SubSeq(q, 1, Len(q) - l))
         /\ Prefixes(SubSeq(q, 1, Len(q) - l + 1)) \subseteq
              Prefixes(SubSeq(q, 1, Len(q) - l)) \union {SubSeq(q, 1, Len(q) - l + 1)}
         /\ Len(q) - l \in 0..(Len(q) - 1)
<1>1. Len(q) \in Nat /\ Len(q) - l \in 0..(Len(q) - 1)
  OBVIOUS
<1>2. \A n \in 0..Len(q) : /\ Len(SubSeq(q, 1, n)) = n
                           /\ \A m \in 1..n : SubSeq(SubSeq(q, 1, n), 1, m) = SubSeq(q, 1, m)
  OBVIOUS
<1>3. \A n \in (Len(q) - l + 1)..Len(q) :
        /\ n \in 1..Len(q) /\ SubSeq(q, 1, n) \in Prefixes(q)
        /\ Len(SubSeq(q, 1, n)) = n /\ SubSeq(q, 1, n) # <<>>
  <2> TAKE n \in (Len(q) - l + 1)..Len(q)
  <2>1. n \in 1..Len(q)
    BY <1>1
  <2>2. Len(SubSeq(q, 1, n)) = n
    BY <1>1, <1>2, <2>1
  <2>3. SubSeq(q, 1, n) # <<>>
    BY <2>1, <2>2
  <2> QED
    BY <2>1, <2>2, <2>3 DEF Prefixes
<1>4. PICK t : t = Len(q) - l
  OBVIOUS
<1>5. t \in 0..Len(q) /\ t + 1 \in 0..Len(q)
  BY <1>1, <1>4
<1>6. \A m \in 1..t : SubSeq(q, 1, m) \in Prefixes(SubSeq(q, 1, t))
  BY <1>2, <1>5 DEF Prefixes
<1>7. ASSUME NEW s \in Prefixes(SubSeq(q, 1, t + 1))
      PROVE  s \in Prefixes(SubSeq(q, 1, t)) \union {SubSeq(q, 1, t + 1)}
  <2>1. Len(SubSeq(q, 1, t + 1)) = t + 1
    BY <1>2, <1>5
  <2>2. PICK m \in 1..(t + 1) : s = SubSeq(SubSeq(q, 1, t + 1), 1, m)
    BY <2>1 DEF Prefixes
  <2>3. s = SubSeq(q, 1, m)
    BY <1>2, <1>5, <2>2
  <2>4. m = t + 1 \/ m \in 1..t
    BY <1>5, <2>2
  <2> QED
    BY <1>6, <2>3, <2>4
<1> QED
  BY <1>1, <1>3, <1>4, <1>6, <1>7

\* A call that was to upload a file of its own, on its way.
LEMMA OnMega ==
  ASSUME StorageInv, NEW c \in Caller, Running(c), client = "Mega", call[c].op = "upload",
         NEW j, j = call[c], NEW q, q = Folder(j.path)
  PROVE  /\ CallOK(j) /\ j.path \in Path /\ j.to = j.path /\ ~Carries(j) /\ Uses(j) = {j.path}
         /\ q \in Seq(Name) /\ Prefixes(q) \subseteq Folders \ {<<>>} /\ Wants(j) = Prefixes(q)
         /\ objects[j.path] \in Seq(Content \union {Empty})
         /\ Holding => /\ Standing(j) /\ AtStep(j) /\ PathOK(j.path) /\ j.others = {}
                       /\ twice = {} /\ Nested
         /\ NoItem \in MayLeave(j)
<1>1. CallOK(j) /\ j.path \in Path /\ j.to = j.path /\ ~Carries(j) /\ Uses(j) = {j.path}
  BY CallKnown DEF CallOK, Carries, Uses
<1>2. q \in Seq(Name) /\ Prefixes(q) \subseteq Folders \ {<<>>}
  BY <1>1, FoldersAre
<1>3. Holding => /\ Standing(j) /\ AtStep(j) /\ PathOK(j.path) /\ j.others = {}
                 /\ twice = {} /\ Nested
  BY <1>1, CallKnown DEF Holding, HoldsInv, Standing
<1>4. NoItem \in MayLeave(j)
  BY <1>1, MayLeaveIs DEF Halfway, Left
<1> QED
  BY <1>1, <1>2, <1>3, <1>4 DEF Wants, StorageInv, ServiceType

LEMMA ResolvesFollows ==
  ASSUME StorageInv, NEW c \in Caller, ResolvesOnMega(c)
  PROVE  Follows(c)
<1>1. PICK j, q : j = call[c] /\ q = Folder(j.path)
  OBVIOUS
<1>2. /\ Running(c) /\ client = "Mega" /\ j.op = "upload" /\ ~HasFolder(q)
      /\ Ends(c) \/ Learns(c, [j EXCEPT !.step = "create", !.rest = Missing(q)])
  BY <1>1 DEF ResolvesOnMega, AtMega, Asks, Housed
<1>3. CASE Learns(c, [j EXCEPT !.step = "create", !.rest = Missing(q)])
  <2>1. PICK k, r : r = Missing(q) /\ k = [j EXCEPT !.step = "create", !.rest = r]
    OBVIOUS
  <2>2. /\ CallOK(j) /\ ~Carries(j) /\ q \in Seq(Name)
        /\ Holding => Nested
    BY <1>1, <1>2, OnMega
  <2>3. /\ r \in Seq(Name) /\ Len(r) \in 1..Len(q)
        /\ HasFolder(SubSeq(q, 1, Len(q) - Len(r)))
        /\ ~HasFolder(SubSeq(q, 1, Len(q) - Len(r) + 1))
    BY <1>2, <2>1, <2>2, MissingIs
  <2>4. /\ k \in Call /\ Keeps(k, j) /\ k.step = "create" /\ k.rest = r
    BY <2>1, <2>2, <2>3 DEF CallOK, Call, Keeps, Step
  <2>5. r # <<>>
    BY <2>3
  <2>6. CallOK(k)
    BY <1>1, <1>2, <2>2, <2>3, <2>4, <2>5 DEF CallOK, Keeps, Carries
  <2>7. Holding => ToMake(k) \intersect folders = {}
    <3> SUFFICES ASSUME Holding, NEW n \in (Len(q) - Len(r) + 1)..Len(q),
                        SubSeq(q, 1, n) \in folders
                 PROVE  FALSE
      BY <1>1, <2>4 DEF ToMake, Keeps
    <3>1. PICK m : m = Len(q) - Len(r) + 1
      OBVIOUS
    <3>2. m \in 1..n /\ n \in 1..Len(q)
      BY <2>2, <2>3, <3>1
    <3>3. SubSeq(SubSeq(q, 1, n), 1, m) = SubSeq(q, 1, m) /\ Len(SubSeq(q, 1, n)) = n
      BY <2>2, <3>2
    <3>4. SubSeq(q, 1, m) \in Prefixes(SubSeq(q, 1, n))
      BY <3>2, <3>3 DEF Prefixes
    <3>5. SubSeq(q, 1, m) \in folders
      BY <2>2, <3>4 DEF Nested
    <3> QED
      BY <2>3, <3>1, <3>5 DEF HasFolder
  <2>8. Holding => AtStep(k)
    BY <1>1, <1>2, <2>3, <2>4, <2>7 DEF AtStep, Keeps
  <2> QED
    BY <1>1, <1>2, <1>3, <2>1, <2>4, <2>6, <2>8, LearnsFollows
<1> QED
  BY <1>2, <1>3, EndsFollows

LEMMA MakesOnMegaFollows ==
  ASSUME StorageInv, NEW c \in Caller, MakesFolderOnMega(c)
  PROVE  Follows(c)
<1>1. PICK j, q : j = call[c] /\ q = Folder(j.path)
  OBVIOUS
<1>2. Running(c) /\ client = "Mega" /\ j.op = "upload" /\ j.step = "create"
  BY <1>1 DEF MakesFolderOnMega, AtMega, Asks
<1>3. /\ CallOK(j) /\ j.path \in Path /\ ~Carries(j) /\ q \in Seq(Name)
      /\ Prefixes(q) \subseteq Folders \ {<<>>} /\ Wants(j) = Prefixes(q)
      /\ Holding => AtStep(j) /\ twice = {} /\ Nested
  BY <1>1, <1>2, OnMega
<1>4. PICK l, t : l = Len(j.rest) /\ t = Len(q) - l
  OBVIOUS
<1>5. PICK new : new = SubSeq(q, 1, t + 1)
  OBVIOUS
<1>6. PICK next : next = IF l > 1 THEN [j EXCEPT !.rest = Tail(@)]
                         ELSE [j EXCEPT !.rest = j.path, !.step = "walk"]
  OBVIOUS
<1>7. /\ folders' = folders \union {new} /\ twice' = twice \union (folders \intersect {new})
      /\ Answers(c, next) /\ UNCHANGED <<client, drive, objects, session, calls, history>>
  BY <1>1, <1>4, <1>5, <1>6 DEF MakesFolderOnMega
<1>8. l \in 1..Len(q) /\ t \in 0..(Len(q) - 1) /\ j.rest \in Seq(Name) /\ Len(q) \in Nat
  BY <1>1, <1>2, <1>3, <1>4 DEF CallOK, Call
<1>9. /\ \A n \in (t + 1)..Len(q) : /\ SubSeq(q, 1, n) \in Prefixes(q)
                                    /\ Len(SubSeq(q, 1, n)) = n
      /\ Prefixes(new) \subseteq Prefixes(SubSeq(q, 1, t)) \union {new}
  BY <1>3, <1>4, <1>5, <1>8, WayIs
<1>10. t + 1 \in (t + 1)..Len(q)
  BY <1>8
<1>11. new \in Prefixes(q) /\ Len(new) = t + 1
  BY <1>5, <1>9, <1>10
<1>12. ServiceType'
  BY <1>3, <1>7, <1>11 DEF StorageInv, ServiceType
<1>13. ASSUME Holding
       PROVE  /\ HasFolder(SubSeq(q, 1, t)) /\ twice = {} /\ Nested /\ new \notin folders
              /\ \A n \in (t + 1)..Len(q) : SubSeq(q, 1, n) \notin folders
  <2>1. AtStep(j) /\ twice = {} /\ Nested
    BY <1>3, <1>13
  <2>2. HasFolder(SubSeq(q, 1, t)) /\ ToMake(j) \intersect folders = {}
    BY <1>1, <1>2, <1>4, <2>1 DEF AtStep
  <2>3. \A n \in (t + 1)..Len(q) : SubSeq(q, 1, n) \in ToMake(j)
    BY <1>1, <1>4 DEF ToMake
  <2> QED
    BY <1>5, <1>10, <2>1, <2>2, <2>3
<1>14. Houses(c)
  <2> SUFFICES ASSUME Holding
               PROVE  twice' = {} /\ Nested' /\ folders' \subseteq folders \union Wants(call[c])
    BY <1>7 DEF Houses
  <2>1. SubSeq(q, 1, t) = <<>> \/ SubSeq(q, 1, t) \in folders
    BY <1>2, <1>13 DEF HasFolder
  <2>2. Prefixes(SubSeq(q, 1, t)) \subseteq folders
    <3>1. Prefixes(<<>>) = {}
      BY DEF Prefixes
    <3> QED
      BY <1>13, <2>1, <3>1 DEF Nested
  <2>3. Nested'
    BY <1>7, <1>9, <1>13, <2>2 DEF Nested
  <2> QED
    BY <1>1, <1>3, <1>7, <1>11, <1>13, <2>3
<1>15. CASE l > 1
  <2>1. Tail(j.rest) \in Seq(Name) /\ Len(Tail(j.rest)) = l - 1
    BY <1>4, <1>8, <1>15
  <2>2. next \in Call /\ Keeps(next, j) /\ next.step = "create" /\ next.rest = Tail(j.rest)
    BY <1>2, <1>3, <1>6, <1>15, <2>1 DEF CallOK, Call, Keeps
  <2>9. Len(next.rest) = l - 1 /\ l = Len(q) - t /\ Len(q) \in Nat /\ t \in 0..Len(q)
    <3>1. l = Len(q) - t
      <4> QED
        BY <1>4, <1>8
    <3> QED
      BY <1>8, <2>1, <2>2, <3>1
  <2>10. Len(q) - (l - 1) = t + 1 /\ l - 1 \in 1..Len(q)
    BY <1>15, <2>9, RestIs
  <2>3. Len(next.rest) \in 1..Len(q) /\ next.rest # <<>>
    <3>1. Len(<<>>) = 0
      OBVIOUS
    <3> QED
      BY <2>9, <2>10, <3>1
  <2>4. CallOK(next)
    BY <1>1, <1>2, <1>3, <2>2, <2>3 DEF CallOK, Keeps, Carries
  <2>5. Len(q) - Len(next.rest) = t + 1
    BY <2>9, <2>10
  <2>6. Holding => ToMake(next) \intersect folders' = {}
    <3> SUFFICES ASSUME Holding, NEW n \in ((t + 1) + 1)..Len(q)
                 PROVE  SubSeq(q, 1, n) \notin folders'
      BY <1>1, <2>2, <2>5 DEF ToMake, Keeps
    <3>1. n \in (t + 1)..Len(q) /\ n # t + 1
      BY <1>8
    <3>2. SubSeq(q, 1, n) # new
      BY <1>9, <1>11, <3>1
    <3> QED
      BY <1>7, <1>13, <3>1, <3>2
  <2>7. HasFolder(new)'
    BY <1>7 DEF HasFolder
  <2>8. Holding => AtStep(next)'
    BY <1>1, <1>2, <1>5, <1>7, <2>2, <2>5, <2>6, <2>7 DEF AtStep, Keeps, ToMake
  <2> QED
    BY <1>1, <1>2, <1>7, <1>12, <1>14, <2>2, <2>4, <2>8, AsksFollows
<1>16. CASE ~(l > 1)
  <2>1. next \in Call /\ Keeps(next, j) /\ next.step = "walk"
    BY <1>3, <1>6, <1>16, FoldersAre DEF CallOK, Call, Keeps, Step
  <2>2. CallOK(next)
    BY <1>1, <1>2, <1>3, <2>1 DEF CallOK, Keeps, Carries
  <2>3. AtStep(next)'
    BY <1>7, <2>1 DEF AtStep
  <2> QED
    BY <1>1, <1>2, <1>7, <1>12, <1>14, <2>1, <2>2, <2>3, AsksFollows
<1> QED
  BY <1>15, <1>16

LEMMA LooksFollows ==
  ASSUME StorageInv, NEW c \in Caller, LooksOnMega(c)
  PROVE  Follows(c)
<1>1. PICK j : j = call[c]
  OBVIOUS
<1>2. Running(c) /\ client = "Mega" /\ j.op = "upload"
  BY <1>1 DEF LooksOnMega, AtMega, Asks
<1>3. /\ CallOK(j) /\ ~Carries(j) /\ objects[j.path] \in Seq(Content \union {Empty})
      /\ Holding => twice = {}
  BY <1>1, <1>2, OnMega
<1>4. PICK n : /\ n = Len(objects[j.path]) \/ (n = 0 /\ Forks(j.path))
               /\ Learns(c, [j EXCEPT !.step = "remove", !.item = n])
  BY <1>1 DEF LooksOnMega
<1>5. n \in Nat /\ (Holding => n = Len(objects[j.path]))
  BY <1>3, <1>4 DEF Forks
<1>6. PICK k : k = [j EXCEPT !.step = "remove", !.item = n]
  OBVIOUS
<1>7. k \in Call /\ Keeps(k, j) /\ k.step = "remove" /\ k.item = n
  BY <1>3, <1>5, <1>6 DEF CallOK, Call, Keeps, Step
<1>8. CallOK(k)
  BY <1>2, <1>3, <1>5, <1>7 DEF CallOK, Keeps, Carries
<1>9. Holding => AtStep(k)
  BY <1>2, <1>5, <1>7 DEF AtStep, Keeps
<1> QED
  BY <1>1, <1>2, <1>4, <1>6, <1>7, <1>8, <1>9, LearnsFollows

\* The only version of a file.
LEMMA OnlyVersion ==
  ASSUME NEW S, NEW s \in Seq(S), Len(s) <= 1, NEW n \in DOMAIN s
  PROVE  n = Len(s) /\ Len(s) = 1 /\ Without(s, n) = <<>>
<1>1. n = 1 /\ Len(s) = 1
  <2>1. n \in 1..Len(s) /\ Len(s) \in Nat
    OBVIOUS
  <2>2. \A l \in Nat : l <= 1 /\ n \in 1..l => n = 1 /\ l = 1
    OBVIOUS
  <2> QED
    BY <2>1, <2>2
<1>2. SubSeq(s, 1, n - 1) = <<>> /\ SubSeq(s, n + 1, Len(s)) = <<>>
  <2>1. \A a, b \in Int : a > b => SubSeq(s, a, b) = <<>>
    OBVIOUS
  <2>2. n - 1 = 0 /\ n + 1 = 2
    BY <1>1
  <2> QED
    BY <1>1, <2>1, <2>2
<1> QED
  BY <1>1, <1>2 DEF Without

LEMMA ReplacesFollows ==
  ASSUME StorageInv, NEW c \in Caller, ReplacesOnMega(c)
  PROVE  Follows(c)
<1>1. PICK j : j = call[c]
  OBVIOUS
<1>2. Running(c) /\ client = "Mega" /\ j.op = "upload" /\ j.step = "remove"
  BY <1>1 DEF ReplacesOnMega, AtMega, Asks
<1>3. /\ CallOK(j) /\ j.path \in Path /\ j.to = j.path /\ ~Carries(j) /\ Uses(j) = {j.path}
      /\ objects[j.path] \in Seq(Content \union {Empty})
      /\ Holding => Standing(j) /\ AtStep(j) /\ PathOK(j.path) /\ j.others = {}
      /\ NoItem \in MayLeave(j)
  BY <1>1, <1>2, OnMega
<1>4. PICK versions : versions = objects[j.path]
  OBVIOUS
<1>5. PICK k : k = [j EXCEPT !.step = "send"]
  OBVIOUS
<1>6. PICK new :
        /\ \/ j.item # 0 /\ versions # <<>> /\ \E n \in DOMAIN versions : new = Without(versions, n)
           \/ (j.item = 0 \/ versions = <<>> \/ NoItem \in j.others) /\ new = versions
        /\ Stores(c, [objects EXCEPT ![j.path] = new], k)
  BY <1>1, <1>4, <1>5 DEF ReplacesOnMega
<1>7. new \in Seq(Content \union {Empty})
  BY <1>3, <1>4, <1>6, WithoutIs
<1>8. Holding => new = <<>>
  <2> SUFFICES ASSUME Holding
               PROVE  new = <<>>
    OBVIOUS
  <2>1. j.item = Len(versions) /\ Len(versions) <= 1 /\ j.others = {}
    BY <1>2, <1>3, <1>4 DEF AtStep, PathOK
  <2>2. CASE \E n \in DOMAIN versions : new = Without(versions, n)
    BY <1>3, <1>4, <2>1, <2>2, OnlyVersion
  <2>3. CASE (j.item = 0 \/ versions = <<>>) /\ new = versions
    BY <1>3, <1>4, <2>1, <2>3
  <2> QED
    BY <1>6, <2>1, <2>2, <2>3
<1>9. /\ k \in Call /\ Keeps(k, j) /\ k.step = "send"
      /\ Answers(c, k) /\ UNCHANGED <<client, drive, folders, twice, session, calls, history>>
      /\ objects' = [objects EXCEPT ![j.path] = new]
  BY <1>3, <1>5, <1>6 DEF Stores, CallOK, Call, Keeps, Step
<1>10. CallOK(k)'
  BY <1>2, <1>3, <1>9 DEF CallOK, Keeps, Carries
<1>11. /\ ServiceType' /\ objects'[j.path] = new
       /\ \A p \in Path : p \notin Uses(j) => objects'[p] = objects[p]
  BY <1>3, <1>7, <1>9 DEF StorageInv, ServiceType
<1>12. kept' = kept
  BY <1>9 DEF history
<1>13. Holding => Now(j.path)' = NoItem /\ MayLeave(j)' = MayLeave(j)
  BY <1>2, <1>8, <1>9, <1>11, MayLeaveStays DEF Now, There
<1>14. Holding => PathOK(j.path)' /\ Standing(j)'
  <2>1. Holding => MayLeave(j) \subseteq kept[j.path]
    BY <1>3 DEF Standing
  <2>2. Len(<<>>) = 0
    OBVIOUS
  <2> QED
    BY <1>2, <1>3, <1>8, <1>9, <1>11, <1>12, <1>13, <2>1, <2>2 DEF PathOK, Standing, Carries
<1>15. Holding => AtStep(k)'
  BY <1>2, <1>8, <1>9, <1>11 DEF AtStep, Keeps
<1> QED
  BY <1>1, <1>2, <1>3, <1>9, <1>10, <1>11, <1>13, <1>14, <1>15, StoresFollows

LEMMA MegaFollows ==
  ASSUME StorageInv, NEW c \in Caller,
         \/ ResolvesOnMega(c) \/ MakesFolderOnMega(c) \/ LooksOnMega(c)
         \/ ReplacesOnMega(c) \/ UploadsToMega(c)
         \/ DownloadsFromMega(c) \/ DeletesFromMega(c) \/ ListsMega(c)
  PROVE  Follows(c)
<1>1. PICK j : j = call[c]
  OBVIOUS
<1>2. CASE UploadsToMega(c)
  <2>1. /\ Running(c) /\ client = "Mega" /\ call[c].op = "upload" /\ call[c].step = "send"
        /\ Sets(c, Append(objects[call[c].path], call[c].content))
    BY <1>2 DEF UploadsToMega, AtMega, Asks
  <2>2. Holding => objects[call[c].path] = <<>>
    BY <2>1, CallKnown DEF AtStep
  <2> QED
    BY <2>1, <2>2, UploadFollows
<1>3. ASSUME client = "Mega", Running(c), j.path \in Path
      PROVE  /\ objects[j.path] \in Seq(Content \union {Empty})
             /\ Holding => /\ Len(objects[j.path]) <= 1 /\ Now(j.path) \in kept[j.path]
                           /\ ~Forks(j.path)
  BY <1>3 DEF StorageInv, ServiceType, Holding, HoldsInv, PathOK, Forks
<1>4. CASE DownloadsFromMega(c)
  <2>1. Running(c) /\ client = "Mega" /\ j.op = "download" /\ j.path \in Path
    BY <1>1, <1>4, CallKnown DEF DownloadsFromMega, AtMega, Asks, CallOK
  <2>2. ASSUME NEW v \in Versions(j.path), Delivers(c, v)
        PROVE  Follows(c)
    <3>1. PICK n \in DOMAIN objects[j.path] : v = objects[j.path][n]
      BY <2>2 DEF Versions
    <3>2. Holding => n = Len(objects[j.path]) /\ Len(objects[j.path]) = 1
      BY <1>3, <2>1, <3>1, OnlyVersion
    <3>3. Holding => v = Now(j.path)
      <4>1. Holding => objects[j.path] # <<>>
        BY <3>2
      <4> QED
        BY <3>1, <3>2, <4>1 DEF Now, There, Newest
    <3> QED
      BY <1>1, <1>3, <2>1, <2>2, <3>3, DeliversFollows
  <2> QED
    BY <1>1, <1>4, <2>1, <2>2, EndsFollows DEF DownloadsFromMega
<1>5. CASE DeletesFromMega(c)
  <2>1. Running(c) /\ client = "Mega" /\ j.op = "delete" /\ j.path \in Path
    BY <1>1, <1>5, CallKnown DEF DeletesFromMega, AtMega, Asks, CallOK
  <2>2. ASSUME NEW n \in DOMAIN objects[j.path], Sets(c, Without(objects[j.path], n))
        PROVE  Follows(c)
    <3>1. PICK vs : vs = Without(objects[j.path], n)
      OBVIOUS
    <3>2. vs \in Seq(Content \union {Empty})
      BY <1>3, <2>1, <3>1, WithoutIs
    <3>3. Holding => vs = <<>>
      BY <1>3, <2>1, <3>1, OnlyVersion
    <3> QED
      BY <1>1, <2>1, <2>2, <3>1, <3>2, <3>3, TakesFollows
  <2> QED
    BY <1>1, <1>5, <2>1, <2>2, EndsFollows DEF DeletesFromMega
<1>6. CASE ListsMega(c)
  <2>1. Running(c) /\ client = "Mega" /\ j.op = "list"
    BY <1>1, <1>6 DEF ListsMega, AtMega, Asks
  <2>2. ASSUME Forks(j.path), NEW files, Lists(c, files)
        PROVE  Follows(c)
    <3>1. ~Holding
      BY <2>1, <2>2 DEF Holding, HoldsInv, Forks
    <3> QED
      BY <1>1, <2>1, <2>2, <3>1, ListsFollows
  <2> QED
    BY <1>1, <1>6, <2>1, <2>2, ListsFolderFollows DEF ListsMega
<1> QED
  BY <1>2, <1>4, <1>5, <1>6, ResolvesFollows, MakesOnMegaFollows, LooksFollows, ReplacesFollows

-----------------------------------------------------------------------------
LEMMA ObjectStoreFollows ==
  ASSUME StorageInv, NEW c \in Caller, GoesOnObjectStore(c)
  PROVE  Follows(c)
BY S3Follows, GcsAndAzureFollow, B2Follows, IpfsFollows DEF GoesOnObjectStore

LEMMA FileTreeFollows ==
  ASSUME StorageInv, NEW c \in Caller, GoesOnFileTree(c)
  PROVE  Follows(c)
BY DavFollows, SftpFollows, LocalFollows, PCloudFollows, DropboxFollows, OneDriveFollows,
   BoxFollows, MegaFollows DEF GoesOnFileTree

-----------------------------------------------------------------------------
(* Google Drive. *)

LEMMA NewIdIs ==
  ASSUME Unused # {}
  PROVE  NewId \in Id /\ drive[NewId] = NoItem /\ NewId \notin Held
<1>1. NewId \in Unused
  BY DEF NewId
<1> QED
  BY <1>1 DEF Unused, Live

\* A step that changes the drive.
LEMMA DriveFollows ==
  ASSUME StorageInv, NEW c \in Caller, Running(c), client = "GoogleDrive", GoesOn(c),
         drive' \in [Id -> Item \union {NoItem}],
         UNCHANGED <<client, objects, folders, twice, session, calls, raced, unlisted, stale>>,
         mistaken' = mistaken \/ mistaken' = TRUE,
         kept' = kept \/ (kept' = Leaves(call[c])
                           /\ call[c].op \in {"upload", "delete", "rename", "copy"})
  PROVE  Follows(c)
<1>1. kept' \in [Path -> SUBSET Left] /\ \A p \in Path : p \notin Uses(call[c]) => kept'[p] = kept[p]
  BY LeavesIs DEF StorageInv, HistoryType
<1>2. ServiceType' /\ HistoryType'
  BY <1>1 DEF StorageInv, ServiceType, HistoryType
<1> QED
  BY <1>1, <1>2, HousesSame DEF Follows, Holding, ByPath, StorageInv, HistoryType

\* The request changes the drive and ends the call.
LEMMA CompletesFollows ==
  ASSUME StorageInv, NEW c \in Caller, Running(c), client = "GoogleDrive",
         NEW new \in [Id -> Item \union {NoItem}], Completes(c, new),
         call[c].op \in {"upload", "delete", "rename", "copy"}
  PROVE  Follows(c)
<1>1. GoesOn(c)
  <2>1. Answers(c, NoCall) /\ UNCHANGED client
    BY DEF Completes, Succeeds, Answers
  <2> QED
    BY <2>1, AnswerGoesOn DEF Holding, ByPath
<1> QED
  BY <1>1, DriveFollows DEF Completes, Succeeds

LEMMA WalkFollows ==
  ASSUME StorageInv, NEW c \in Caller, client = "GoogleDrive",
         \/ Finds(c) \/ FindsNothing(c) \/ MisreadsError(c) \/ Creates(c)
         \/ FindsSource(c) \/ MissesSource(c)
  PROVE  Follows(c)
<1>1. PICK j : j = call[c]
  OBVIOUS
<1>2. Running(c) /\ CallOK(j) /\ ~Holding
  BY <1>1, CallKnown DEF Finds, FindsNothing, MisreadsError, Walks, Creates, FindsSource,
     MissesSource, Holding, ByPath
<1>3. /\ j \in Call /\ j.rest \in Seq(Name)
      /\ j.rest # <<>> => Tail(j.rest) \in Seq(Name) /\ Head(j.rest) \in Name
      /\ Folder(j.to) \in Seq(Name)
  <2>1. j.to \in Seq(Name) /\ j.rest \in Seq(Name)
    BY <1>2, FoldersAre DEF CallOK, Call
  <2>2. PICK r \in Seq(Name) : r = j.rest
    BY <2>1
  <2>3. r # <<>> => Tail(r) \in Seq(Name) /\ Head(r) \in Name
    OBVIOUS
  <2> QED
    BY <1>2, <2>1, <2>2, <2>3, PrefixesAre DEF CallOK
<1>4. Found(j) \subseteq Id
  BY DEF Found, Matches, Children, Live
<1>5. CASE Finds(c)
  <2>1. PICK i \in Id : Learns(c, [j EXCEPT !.at = i, !.rest = Tail(@)])
    BY <1>1, <1>4, <1>5 DEF Finds
  <2>2. PICK k : k = [j EXCEPT !.at = i, !.rest = Tail(@)]
    OBVIOUS
  <2>3. j.step = "walk" /\ j.rest # <<>>
    BY <1>1, <1>5 DEF Finds, Walks
  <2>4. k \in Call /\ Keeps(k, j) /\ k.step = "walk"
    BY <1>3, <2>2, <2>3 DEF Call, Keeps, Node
  <2>5. CallOK(k)
    BY <1>2, <2>4 DEF CallOK, Keeps, Carries
  <2> QED
    BY <1>1, <1>2, <2>1, <2>2, <2>4, <2>5, LearnsFollows
<1>6. CASE FindsNothing(c) \/ MisreadsError(c)
  <2>1. PICK k : k = [j EXCEPT !.step = "create"]
    OBVIOUS
  <2>2. j.step = "walk" /\ j.rest # <<>>
    BY <1>1, <1>6 DEF FindsNothing, MisreadsError, Walks
  <2>3. k \in Call /\ Keeps(k, j) /\ k.step = "create" /\ k.rest = j.rest
    BY <1>3, <2>1 DEF Call, Keeps, Step
  <2>4. CallOK(k)
    BY <1>2, <2>2, <2>3 DEF CallOK, Keeps, Carries
  <2>5. CASE FindsNothing(c)
    BY <1>1, <1>2, <2>1, <2>3, <2>4, <2>5, LearnsFollows DEF FindsNothing
  <2>6. CASE MisreadsError(c)
    <3>1. /\ Becomes(c, k) /\ mistaken' = TRUE /\ Fails
          /\ UNCHANGED <<service, calls, kept, raced, unlisted, stale>>
      BY <1>1, <2>1, <2>6 DEF MisreadsError
    <3>2. CallOK(k)'
      BY <2>4, <3>1 DEF CallOK, Carries, service
    <3>3. Steps(c, k)
      BY <3>1, BecomesIs
    <3>4. GoesOn(c)
      BY <1>1, <1>2, <2>3, <3>1, <3>2, <3>3, FailsIs DEF GoesOn
    <3> QED
      BY <1>2, <3>1, <3>4, DriveFollows DEF service, StorageInv, ServiceType
  <2> QED
    BY <1>6, <2>5, <2>6
<1>7. CASE Creates(c)
  <2>1. PICK new : new = [name |-> Head(j.rest), parent |-> j.at,
                          folder |-> Len(j.rest) > 1 \/ j.op \in ToFolder, content |-> Empty]
    OBVIOUS
  <2>2. PICK k : k = [j EXCEPT !.at = NewId, !.rest = Tail(@), !.step = "walk"]
    OBVIOUS
  <2>3. /\ j.step = "create" /\ Unused # {} /\ Changes([drive EXCEPT ![NewId] = new])
        /\ Answers(c, k) /\ UNCHANGED <<calls, history>>
    BY <1>1, <1>7, <2>1, <2>2 DEF Creates
  <2>4. j.rest # <<>>
    BY <1>2, <2>3 DEF CallOK
  <2>5. new \in Item
    BY <1>3, <2>1, <2>4 DEF Item, Call
  <2>6. k \in Call /\ Keeps(k, j) /\ k.step = "walk"
    BY <1>3, <2>2, <2>3, <2>4, NewIdIs DEF Call, Keeps, Node, Step
  <2>7. CallOK(k)'
    BY <1>2, <2>3, <2>6 DEF CallOK, Keeps, Carries, Changes
  <2>8. GoesOn(c)
    BY <1>1, <1>2, <2>3, <2>6, <2>7, AnswerGoesOn DEF Changes
  <2>9. drive' \in [Id -> Item \union {NoItem}]
    BY <2>3, <2>5 DEF Changes, StorageInv, ServiceType
  <2> QED
    BY <1>2, <2>3, <2>8, <2>9, DriveFollows DEF Changes, history
<1>8. CASE FindsSource(c)
  <2>1. PICK i \in Id : Learns(c, IF Len(j.rest) > 1
                                    THEN [j EXCEPT !.at = i, !.rest = Tail(@)]
                                    ELSE [j EXCEPT !.item = i, !.at = Root, !.step = "walk",
                                                   !.rest = Folder(j.to)])
    BY <1>1, <1>4, <1>8 DEF FindsSource
  <2>2. PICK k : k = IF Len(j.rest) > 1
                       THEN [j EXCEPT !.at = i, !.rest = Tail(@)]
                       ELSE [j EXCEPT !.item = i, !.at = Root, !.step = "walk",
                                      !.rest = Folder(j.to)]
    OBVIOUS
  <2>3. ASSUME Len(j.rest) > 1
        PROVE  CallOK(k)
    <3>1. k = [j EXCEPT !.at = i, !.rest = Tail(@)] /\ j.step = "source"
      BY <1>1, <1>8, <2>2, <2>3 DEF FindsSource
    <3>2. j.rest # <<>>
      BY <2>3
    <3>3. k \in Call /\ Keeps(k, j) /\ k.step = "source"
      BY <1>3, <3>1, <3>2 DEF Call, Keeps, Node
    <3> QED
      BY <1>2, <3>3 DEF CallOK, Keeps, Carries
  <2>4. ASSUME ~(Len(j.rest) > 1)
        PROVE  CallOK(k)
    <3>1. k = [j EXCEPT !.item = i, !.at = Root, !.step = "walk", !.rest = Folder(j.to)]
      BY <2>2, <2>4
    <3>2. k \in Call /\ Keeps(k, j) /\ k.step = "walk"
      BY <1>3, <3>1 DEF Call, Keeps, Node, Step
    <3> QED
      BY <1>2, <3>2 DEF CallOK, Keeps, Carries
  <2>5. CallOK(k) /\ Keeps(k, j)
    <3>1. Keeps(k, j)
      BY <1>3, <2>2 DEF Call, Keeps
    <3> QED
      BY <2>3, <2>4, <3>1
  <2> QED
    BY <1>1, <1>2, <2>1, <2>2, <2>5, LearnsFollows
<1>9. CASE MissesSource(c)
  BY <1>2, <1>9, EndsFollows DEF MissesSource
<1> QED
  BY <1>5, <1>6, <1>7, <1>8, <1>9

LEMMA ArrivedFollows ==
  ASSUME StorageInv, NEW c \in Caller, client = "GoogleDrive",
         \/ Uploads(c) \/ OpensSession(c) \/ SendsChunks(c) \/ Downloads(c) \/ Deletes(c)
         \/ Moves(c) \/ Copies(c) \/ CreatesFolder(c)
         \/ ReadsPage(c) \/ ReadsLastPage(c) \/ MisreadsPage(c) \/ MissesItem(c)
  PROVE  Follows(c)
<1>1. PICK j : j = call[c]
  OBVIOUS
<1>2. Running(c) /\ CallOK(j) /\ ~Holding /\ j \in Call
  BY <1>1, CallKnown DEF Uploads, OpensSession, SendsChunks, Downloads, Deletes, Moves, Copies,
     CreatesFolder, ReadsPage, ReadsLastPage, MisreadsPage, MissesItem, Arrived, Asks, Holding, ByPath, CallOK
<1>3. drive \in [Id -> Item \union {NoItem}] /\ \A i \in Live : i \in Id /\ drive[i] \in Item
  BY DEF StorageInv, ServiceType, Live
<1>4. CASE Uploads(c) \/ SendsChunks(c)
  <2>1. j.op = "upload" /\ j.at \in Live /\ Completes(c, Filled(j))
    BY <1>1, <1>4 DEF Uploads, SendsChunks, Arrived, Asks
  <2>2. Filled(j) \in [Id -> Item \union {NoItem}]
    <3>1. [drive[j.at] EXCEPT !.content = j.content] \in Item
      BY <1>2, <1>3, <2>1 DEF Item, Call
    <3> QED
      BY <1>3, <2>1, <3>1 DEF Filled
  <2> QED
    BY <1>1, <1>2, <2>1, <2>2, CompletesFollows
<1>5. CASE OpensSession(c)
  BY <1>2, <1>5, OpensFollows DEF OpensSession, Arrived, Asks, Opens
<1>6. CASE Downloads(c)
  BY <1>2, <1>6, DeliversFollows DEF Downloads
<1>7. CASE Deletes(c)
  <2>1. j.op = "delete" /\ j.at \in Live /\ Completes(c, [drive EXCEPT ![j.at] = NoItem])
    BY <1>1, <1>7 DEF Deletes, Arrived, Asks
  <2>2. [drive EXCEPT ![j.at] = NoItem] \in [Id -> Item \union {NoItem}]
    BY <1>3
  <2> QED
    BY <1>1, <1>2, <2>1, <2>2, CompletesFollows
<1>8. j.op \in {"rename", "copy"} => Last(j.to) \in Name
  BY <1>2, FoldersAre DEF CallOK, Carries
<1>9. CASE Moves(c)
  <2>1. PICK new : new = [drive EXCEPT ![j.item].name = Last(j.to), ![j.item].parent = j.at]
    OBVIOUS
  <2>2. j.op = "rename" /\ j.item \in Live /\ Completes(c, new)
    BY <1>1, <1>9, <2>1 DEF Moves, Arrived, Asks
  <2>3. new \in [Id -> Item \union {NoItem}]
    <3>1. new = [drive EXCEPT ![j.item] = [@ EXCEPT !.name = Last(j.to), !.parent = j.at]]
      BY <1>3, <2>1, <2>2
    <3>2. [drive[j.item] EXCEPT !.name = Last(j.to), !.parent = j.at] \in Item
      BY <1>2, <1>3, <1>8, <2>2 DEF Item, Call
    <3> QED
      BY <1>3, <2>2, <3>1, <3>2
  <2> QED
    BY <1>1, <1>2, <2>2, <2>3, CompletesFollows
<1>10. CASE Copies(c)
  <2>1. PICK new : new = [drive[j.item] EXCEPT !.name = Last(j.to), !.parent = j.at]
    OBVIOUS
  <2>2. /\ j.op = "copy" /\ j.item \in Live /\ Unused # {}
        /\ Changes([drive EXCEPT ![NewId] = new])
        /\ \/ /\ Becomes(c, NoCall) /\ kept' = Leaves(j) /\ UNCHANGED <<faults, mistaken>>
           \/ /\ IsLost(c) /\ mistaken' = TRUE /\ UNCHANGED kept
        /\ UNCHANGED <<calls, raced, unlisted, stale>>
    BY <1>1, <1>10, <2>1 DEF Copies, Arrived, Asks
  <2>3. new \in Item
    BY <1>2, <1>3, <1>8, <2>1, <2>2 DEF Item, Call
  <2>4. drive' \in [Id -> Item \union {NoItem}]
    BY <1>3, <2>2, <2>3 DEF Changes
  <2>5. Answers(c, NoCall)
    BY <2>2 DEF Answers
  <2>6. GoesOn(c)
    BY <1>1, <1>2, <2>2, <2>5, AnswerGoesOn DEF Changes
  <2> QED
    BY <1>1, <1>2, <2>2, <2>4, <2>6, DriveFollows DEF Changes
<1>11. CASE CreatesFolder(c)
  BY <1>2, <1>11, EndsFollows DEF CreatesFolder
<1>12. CASE ReadsPage(c)
  <2>1. PICK page \in Page(j) : Learns(c, [j EXCEPT !.seen = @ \union page])
    BY <1>1, <1>12 DEF ReadsPage
  <2>2. PICK k : k = [j EXCEPT !.seen = @ \union page]
    OBVIOUS
  <2>3. page \subseteq Id
    BY DEF Page, Children, Live
  <2>4. j.step = "walk"
    BY <1>1, <1>12 DEF ReadsPage, Arrived, Asks
  <2>5. k \in Call /\ Keeps(k, j) /\ k.step = "walk" /\ k.rest = j.rest
    BY <1>2, <2>2, <2>3, <2>4 DEF Call, Keeps
  <2>6. CallOK(k)
    BY <1>2, <2>4, <2>5 DEF CallOK, Keeps, Carries
  <2> QED
    BY <1>1, <1>2, <2>1, <2>2, <2>5, <2>6, LearnsFollows
<1>13. CASE ReadsLastPage(c)
  BY <1>2, <1>13, ListsFollows DEF ReadsLastPage, Arrived, Asks
<1>14. CASE MisreadsPage(c)
  BY <1>2, <1>14, ListsMistakenFollows DEF MisreadsPage
<1>15. CASE MissesItem(c)
  BY <1>2, <1>15, EndsFollows DEF MissesItem
<1> QED
  BY <1>4, <1>5, <1>6, <1>7, <1>9, <1>10, <1>11, <1>12, <1>13, <1>14, <1>15

LEMMA GoesFollows ==
  ASSUME StorageInv, NEW c \in Caller, Goes(c)
  PROVE  Follows(c)
BY WalkFollows, ArrivedFollows, ObjectStoreFollows, FileTreeFollows, GivesUpFollows
DEF Goes, GoesOnGoogleDrive

-----------------------------------------------------------------------------
(* Calls begin, and are cut off. *)

\* What a call that begins brings for one that runs: nothing else of it changes.
Grows(j, i) ==
  /\ j.op = i.op /\ j.path = i.path /\ j.to = i.to /\ j.content = i.content
  /\ j.was = i.was /\ j.step = i.step /\ j.rest = i.rest /\ j.item = i.item
  /\ i.others \subseteq j.others

LEMMA GrowsMeans ==
  ASSUME NEW j, NEW i, Grows(j, i)
  PROVE  /\ Uses(j) = Uses(i) /\ Carries(j) = Carries(i) /\ MayLeave(j) = MayLeave(i)
         /\ Wants(j) = Wants(i) /\ ToMake(j) = ToMake(i)
         /\ \A k : Brings(j, k) = Brings(i, k) /\ Brings(k, j) = Brings(k, i)
<1>1. Uses(j) = Uses(i) /\ Carries(j) = Carries(i) /\ Wants(j) = Wants(i)
  BY DEF Grows, Uses, Carries, Wants
<1>2. MayLeave(j) = MayLeave(i)
  BY DEF Grows, MayLeave
<1>3. ToMake(j) = ToMake(i)
  BY DEF Grows, ToMake
<1> QED
  BY <1>1, <1>2, <1>3 DEF Brings

LEMMA WantsAre ==
  ASSUME NEW k, CallOK(k)
  PROVE  Wants(k) \subseteq Folders \ {<<>>}
<1>1. k.op \in Op
  BY DEF CallOK, Call
<1>2. CASE k.op \in {"create_folder", "list"}
  <2>1. k.path \in Folders
    BY <1>2 DEF CallOK
  <2> QED
    BY <1>2, <2>1, FoldersAre DEF Wants, CallOK
<1>3. CASE k.op \notin {"create_folder", "list"}
  <2>1. k.to \in Path
    BY <1>1, <1>3 DEF CallOK, Carries, Op
  <2> QED
    BY <1>3, <2>1, FoldersAre DEF Wants
<1> QED
  BY <1>2, <1>3

\* What calls leave of each other.
LEMMA BringsAre ==
  ASSUME NEW j, NEW k, CallOK(j)
  PROVE  /\ Brings(j, k) \subseteq Left
         /\ Carries(j) \/ Carries(k) => Brings(j, k) = Left
BY MayLeaveIs DEF Brings

LEMMA MixedIs ==
  ASSUME NEW k, NEW d \in Meets(k), Carries(k) \/ Carries(call[d])
  PROVE  Uses(k) \union Uses(call[d]) \subseteq Mixed(k)
BY DEF Mixed

LEMMA RacesAre ==
  ASSUME StorageInv, NEW k, CallOK(k)
  PROVE  /\ Mixed(k) \subseteq Path
         /\ Races(k) \subseteq Path \union Folders
         /\ \A d \in Meets(k) : Uses(call[d]) \intersect Uses(k) \subseteq Races(k)
         /\ \A d \in Meets(k) : Uses(call[d]) \intersect Uses(k) # {}
         /\ \A d \in Caller, q \in Wants(k) :
              Running(d) /\ q \in Wants(call[d]) /\ ~HasFolder(q) => q \in Races(k)
<1>1. \A j : Uses(j) \subseteq Path
  BY DEF Uses
<1>2. Mixed(k) \subseteq Path
  BY <1>1 DEF Mixed
<1>3. Wants(k) \subseteq Folders
  BY WantsAre
<1> DEFINE shared == {p \in Uses(k) : \E d \in Meets(k) : p \in Uses(call[d])}
           toMake == {q \in Wants(k) : /\ ~HasFolder(q)
                                       /\ \E d \in Caller : Running(d) /\ q \in Wants(call[d])}
<1>4. Races(k) = shared \union Mixed(k) \union toMake
  BY DEF Races
<1>5. /\ \A d \in Meets(k) : Uses(call[d]) \intersect Uses(k) \subseteq shared
      /\ shared \subseteq Path
  BY <1>1
<1>6. \A d \in Meets(k) : Uses(call[d]) \intersect Uses(k) # {}
  BY DEF Meets
<1>7. toMake \subseteq Folders
  BY <1>3
<1>8. \A d \in Caller, q \in Wants(k) :
        Running(d) /\ q \in Wants(call[d]) /\ ~HasFolder(q) => q \in toMake
  OBVIOUS
<1> HIDE DEF shared, toMake
<1>10. Races(k) \subseteq Path \union Folders
  BY <1>2, <1>4, <1>5, <1>7
<1>11. \A d \in Meets(k) : Uses(call[d]) \intersect Uses(k) \subseteq Races(k)
  BY <1>4, <1>5
<1>12. \A d \in Caller, q \in Wants(k) :
        Running(d) /\ q \in Wants(call[d]) /\ ~HasFolder(q) => q \in Races(k)
  BY <1>4, <1>8
<1> QED
  BY <1>2, <1>6, <1>10, <1>11, <1>12

\* A call that begins, and one that runs then.
Joined(k) == [k EXCEPT !.others = UNION {Brings(call[d], k) : d \in Meets(k)}]

Joining(k, d, i, now) ==
  [i EXCEPT !.must = {p \in @ : NoItem \notin now[p]},
            !.others = IF d \in Meets(k) THEN @ \union Brings(k, i) ELSE @]

\* A call begins.
LEMMA BegunIs ==
  ASSUME StorageInv, NEW c \in Caller, NEW k, NEW maybe \in [Path -> SUBSET Left],
         ~Running(c), Begins(c, k, maybe), CallOK(k)
  PROVE  /\ UNCHANGED <<client, drive, objects, folders, twice, session, faults, mistaken,
                        unlisted, stale>>
         /\ calls' = calls + 1 /\ DOMAIN call' = Caller
         /\ kept' \in [Path -> SUBSET Left]
         /\ \A p \in Path : /\ maybe[p] \subseteq kept'[p]
                            /\ p \in Mixed(k) => kept'[p] = Left
                            /\ p \notin Mixed(k) => kept'[p] = maybe[p]
         /\ call'[c] = Joined(k)
         /\ \A d \in Caller : d # c /\ Running(d) => call'[d] = Joining(k, d, call[d], kept')
         /\ \A d \in Caller : d # c /\ ~Running(d) => ~Running(d)'
         /\ raced \subseteq raced' /\ raced' \subseteq Path \union Folders
         /\ client \notin LooksFirst => raced' = raced
         /\ client \in LooksFirst => Races(k) \subseteq raced'
         /\ client \in LooksFirst /\ Carries(k) /\ ~Clean(k.path) => k.to \in raced'
<1>1. /\ UNCHANGED <<client, drive, objects, folders, twice, session, faults, mistaken,
                     unlisted, stale>>
      /\ calls' = calls + 1
  BY DEF Begins, service
<1>2. kept' = [p \in Path |-> IF p \in Mixed(k) THEN Left ELSE maybe[p]]
  BY DEF Begins
<1>3. call' = [d \in Caller |->
        IF d = c THEN Joined(k)
        ELSE IF Running(d) THEN Joining(k, d, call[d], kept')
        ELSE NoCall]
  BY <1>2 DEF Begins, Joined, Joining
<1>4. raced' = raced \union
        (IF client \notin LooksFirst THEN {}
         ELSE Races(k) \union (IF Carries(k) /\ ~Clean(k.path) THEN {k.to} ELSE {}))
  BY DEF Begins
<1>5. /\ kept' \in [Path -> SUBSET Left]
      /\ \A p \in Path : /\ maybe[p] \subseteq kept'[p]
                         /\ p \in Mixed(k) => kept'[p] = Left
                         /\ p \notin Mixed(k) => kept'[p] = maybe[p]
  BY <1>2
<1>6. raced' \subseteq Path \union Folders
  <2>1. Carries(k) => k.to \in Path
    BY DEF CallOK
  <2> QED
    BY <1>4, <2>1, RacesAre DEF StorageInv, HistoryType
<1>7. DOMAIN call' = Caller
      /\ call'[c] = Joined(k)
  BY <1>3
<1>8. \A d \in Caller : d # c /\ Running(d) => call'[d] = Joining(k, d, call[d], kept')
  BY <1>3
<1>9. \A d \in Caller : d # c /\ ~Running(d) => ~Running(d)'
  BY <1>3 DEF Running
<1>10. /\ raced \subseteq raced'
       /\ client \notin LooksFirst => raced' = raced
       /\ client \in LooksFirst => Races(k) \subseteq raced'
       /\ client \in LooksFirst /\ Carries(k) /\ ~Clean(k.path) => k.to \in raced'
  BY <1>4
<1> QED
  BY <1>1, <1>5, <1>6, <1>7, <1>8, <1>9, <1>10

\* The calls that run then: the new one, ...
LEMMA NewCallIs ==
  ASSUME StorageInv, NEW k, CallOK(k), k.others = {},
         NEW j, j = Joined(k)
  PROVE  /\ CallOK(j) /\ Grows(j, k) /\ j.must = k.must
         /\ \A d \in Meets(k) : Brings(call[d], k) \subseteq j.others
         /\ Meets(k) = {} => j.others = {}
         /\ Carries(k) /\ j.others = {} => Meets(k) = {}
<1>1. PICK o : o = UNION {Brings(call[d], k) : d \in Meets(k)}
  OBVIOUS
<1>2. \A d \in Meets(k) : Running(d) /\ d \in Caller /\ CallOK(call[d])
  BY CallKnown DEF Meets
<1>3. \A d \in Meets(k) : /\ Brings(call[d], k) \subseteq Left
                          /\ Carries(k) => Brings(call[d], k) = Left
  BY <1>2, BringsAre
<1>4. o \subseteq Left /\ (Meets(k) = {} => o = {})
      /\ \A d \in Meets(k) : Brings(call[d], k) \subseteq o
  BY <1>1, <1>3
<1>5. Carries(k) => IF Meets(k) = {} THEN o = {} ELSE o = Left
  BY <1>3, <1>4
<1>6. Left # {}
  BY DEF Left
<1>7. /\ j \in Call /\ Grows(j, k) /\ j.others = o /\ j.must = k.must /\ j.step = k.step
      /\ j.rest = k.rest /\ j.item = k.item
  <2>1. j = [k EXCEPT !.others = o]
    BY <1>1 DEF Joined
  <2> QED
    BY <1>4, <2>1 DEF CallOK, Call, Grows
<1>8. CallOK(j)
  BY <1>5, <1>7 DEF CallOK, Grows, Carries
<1> QED
  BY <1>4, <1>5, <1>6, <1>7, <1>8

\* ... and those that ran before.
Joins(k, d, i, now, j) ==
  /\ CallOK(i) /\ CallOK(j) /\ Grows(j, i)
  /\ j.must = {p \in i.must : NoItem \notin now[p]}
  /\ d \in Meets(k) => Brings(k, i) \subseteq j.others
  /\ d \notin Meets(k) => j.others = i.others

LEMMA OldCallIs ==
  ASSUME StorageInv, NEW k, CallOK(k), NEW d \in Caller, Running(d), NEW i, i = call[d],
         NEW now, NEW j, j = Joining(k, d, i, now)
  PROVE  Joins(k, d, i, now, j)
<1>1. CallOK(i)
  BY CallKnown
<1>2. PICK o : o = IF d \in Meets(k) THEN i.others \union Brings(k, i) ELSE i.others
  OBVIOUS
<1>3. /\ Brings(k, i) \subseteq Left
      /\ Carries(i) => Brings(k, i) = Left
  BY BringsAre
<1>4. i.others \subseteq Left /\ i \in Call
  BY <1>1 DEF CallOK, Call
<1>5. o \subseteq Left /\ (Carries(i) /\ i.others \in {{}, Left} => o \in {{}, Left})
  BY <1>2, <1>3, <1>4
<1>8. PICK m : m = {p \in i.must : NoItem \notin now[p]}
  OBVIOUS
<1>9. j = [i EXCEPT !.must = m, !.others = o]
  BY <1>2, <1>4, <1>8 DEF Call, Joining
<1>10. m \subseteq Path
  BY <1>4, <1>8 DEF Call
<1>11. i.others \subseteq o
  BY <1>2
<1>6. /\ j \in Call /\ Grows(j, i) /\ j.others = o /\ j.step = i.step /\ j.rest = i.rest
      /\ j.item = i.item /\ j.must = {p \in i.must : NoItem \notin now[p]}
  BY <1>4, <1>5, <1>8, <1>9, <1>10, <1>11 DEF Call, Grows
<1>7. CallOK(j)
  BY <1>1, <1>5, <1>6 DEF CallOK, Grows, Carries
<1> QED
  BY <1>1, <1>2, <1>6, <1>7 DEF Joins

LEMMA BeginsKeepsInv ==
  ASSUME StorageInv, NEW c \in Caller, NEW k, NEW maybe \in [Path -> SUBSET Left],
         ~Running(c), calls < MaxCalls[client], Begins(c, k, maybe), CallOK(k), k.others = {}
  PROVE  StorageInv'
<1>1. /\ UNCHANGED <<client, drive, objects, folders, twice, session, faults, mistaken,
                     unlisted, stale>>
      /\ calls' = calls + 1 /\ DOMAIN call' = Caller
      /\ kept' \in [Path -> SUBSET Left]
      /\ raced \subseteq raced' /\ raced' \subseteq Path \union Folders
      /\ client \notin LooksFirst => raced' = raced
      /\ client \in LooksFirst => Races(k) \subseteq raced'
  BY BegunIs
<1>2. PICK j : j = call'[c]
  OBVIOUS
<1>3. /\ CallOK(j) /\ Grows(j, k)
      /\ \A d \in Meets(k) : Brings(call[d], k) \subseteq j.others
  <2>1. j = Joined(k)
    BY <1>2, BegunIs
  <2> QED
    BY <2>1, NewCallIs
<1>4. ASSUME NEW d \in Caller, d # c, Running(d)', NEW i, i = call'[d]
      PROVE  /\ Running(d) /\ CallOK(call[d]) /\ CallOK(i) /\ Grows(i, call[d])
             /\ d \in Meets(k) => Brings(k, call[d]) \subseteq i.others
  <2>1. Running(d)
    BY <1>4, BegunIs
  <2>2. PICK m : m = call[d]
    OBVIOUS
  <2>4. PICK now : now = kept'
    OBVIOUS
  <2>5. i = Joining(k, d, m, now)
    BY <1>4, <2>1, <2>2, <2>4, BegunIs
  <2>6. Joins(k, d, m, now, i)
    BY <2>1, <2>2, <2>5, OldCallIs
  <2> QED
    BY <2>1, <2>2, <2>6 DEF Joins
<1>5. \A d \in Caller : Running(d)' => CallOK(call[d])'
  <2> SUFFICES ASSUME NEW d \in Caller, Running(d)'
               PROVE  CallOK(call[d])'
    OBVIOUS
  <2>1. PICK i : i = call'[d]
    OBVIOUS
  <2>2. CallOK(i)
    BY <1>2, <1>3, <1>4, <2>1
  <2> QED
    BY <1>1, <2>1, <2>2 DEF CallOK, Carries
<1>6. ASSUME client # "GoogleDrive"
      PROVE  \A i, m : Brings(i, m)' = Brings(i, m)
  BY <1>1, <1>6, MayLeaveStays
<1>7. \A i : Uses(i)' = Uses(i) /\ Wants(i)' = Wants(i)
  BY <1>1 DEF Uses, Wants
<1>8. ASSUME NEW d \in Caller, d # c, Running(d)', NEW i, i = call'[d]
      PROVE  Aware(j, i)' /\ Aware(i, j)'
  <2>1. PICK m : m = call[d]
    OBVIOUS
  <2>2. /\ Running(d) /\ CallOK(m) /\ Grows(i, m)
        /\ d \in Meets(k) => Brings(k, m) \subseteq i.others
    BY <1>4, <1>8, <2>1
  <2>3. /\ Uses(i) = Uses(m) /\ Uses(j) = Uses(k) /\ Wants(i) = Wants(m) /\ Wants(j) = Wants(k)
        /\ Brings(i, j) = Brings(m, k) /\ Brings(j, i) = Brings(k, m)
    BY <1>3, <2>2, GrowsMeans
  <2>4. ASSUME Uses(i) \intersect Uses(j) # {}
        PROVE  /\ client \in LooksFirst => raced' # {}
               /\ client # "GoogleDrive" => Brings(i, j) \subseteq j.others /\ Brings(j, i) \subseteq i.others
    <3>1. d \in Meets(k)
      BY <2>1, <2>2, <2>3, <2>4 DEF Meets
    <3>2. Uses(m) \intersect Uses(k) \subseteq Races(k)
      BY <2>1, <3>1, RacesAre
    <3>3. client \in LooksFirst => raced' # {}
      BY <1>1, <2>3, <2>4, <3>2
    <3> QED
      BY <1>3, <2>1, <2>2, <2>3, <3>1, <3>3
  <2>5. ASSUME client = "Mega", raced' = {}
        PROVE  Wants(i) \intersect Wants(j) \subseteq folders
    <3> SUFFICES ASSUME NEW q \in Wants(i) \intersect Wants(j), ~HasFolder(q)
                 PROVE  FALSE
      BY <2>5, <1>3, WantsAre DEF HasFolder
    <3>1. q \in Races(k)
      BY <2>1, <2>2, <2>3, RacesAre
    <3> QED
      BY <1>1, <2>5, <3>1 DEF LooksFirst
  <2> QED
    BY <1>1, <1>6, <1>7, <2>4, <2>5 DEF Aware
<1>9. ASSUME NEW d \in Caller, NEW e \in Caller, d # c, e # c, d # e, Running(d)', Running(e)',
             NEW i, i = call'[d], NEW l, l = call'[e]
      PROVE  Aware(i, l)'
  <2>1. PICK m, n : m = call[d] /\ n = call[e]
    OBVIOUS
  <2>2. Running(d) /\ Running(e) /\ Grows(i, m) /\ Grows(l, n)
    BY <1>4, <1>9, <2>1
  <2>3. Aware(m, n)
    BY <1>9, <2>1, <2>2 DEF StorageInv, CallsInv
  <2>4. /\ Uses(i) = Uses(m) /\ Uses(l) = Uses(n) /\ Wants(i) = Wants(m) /\ Wants(l) = Wants(n)
        /\ Brings(l, i) = Brings(n, m) /\ m.others \subseteq i.others
    <3>1. m.others \subseteq i.others
      BY <2>2 DEF Grows
    <3> QED
      BY <2>2, <3>1, GrowsMeans
  <2> QED
    BY <1>1, <1>6, <1>7, <2>3, <2>4 DEF Aware
<1>10. \A d, e \in Caller : d # e /\ Running(d)' /\ Running(e)' => Aware(call[d], call[e])'
  <2> SUFFICES ASSUME NEW d \in Caller, NEW e \in Caller, d # e, Running(d)', Running(e)'
               PROVE  Aware(call[d], call[e])'
    OBVIOUS
  <2>1. PICK i, l : i = call'[d] /\ l = call'[e]
    OBVIOUS
  <2>2. Aware(i, l)'
    BY <1>2, <1>8, <1>9, <2>1
  <2> QED
    BY <2>1, <2>2 DEF Aware, Uses, Wants, Brings, MayLeave, Halfway, Carries
<1>11. ServiceType' /\ HistoryType'
  BY <1>1 DEF StorageInv, ServiceType, HistoryType
<1>12. calls' \in 0..MaxCalls[client] /\ faults' \in 0..MaxFaults[client]
  BY <1>1, StorageAssumption DEF StorageInv, CallsInv, ServiceType
<1> QED
  BY <1>1, <1>5, <1>10, <1>11, <1>12 DEF StorageInv, CallsInv

\* What is expected when call k begins.
Expected(k, maybe) ==
  /\ ~Carries(k) => MayLeave(k) \subseteq maybe[k.path]
  /\ Carries(k) =>
       /\ Now(k.path) \in k.was
       /\ k.was \union Halfway(k.op, k.to) \subseteq maybe[k.to]
       /\ k.op = "rename" => NoItem \in maybe[k.path]
  /\ k.op = "list" => \A p \in k.must : Folder(p) = k.path /\ NoItem \notin maybe[p]

LEMMA BeginsKeepsHolds ==
  ASSUME StorageInv, NEW c \in Caller, NEW k, NEW maybe \in [Path -> SUBSET Left],
         ~Running(c), Begins(c, k, maybe), CallOK(k), k.others = {}, k.step \in {"walk", "source"},
         \A p \in Path : kept[p] \subseteq maybe[p],
         ByPath /\ ~mistaken /\ raced = {} /\ HoldsInv => Expected(k, maybe),
         HoldsInv
  PROVE  HoldsInv'
<1>1. /\ UNCHANGED <<client, drive, objects, folders, twice, session, faults, mistaken,
                     unlisted, stale>>
      /\ \A p \in Path : /\ maybe[p] \subseteq kept'[p]
                         /\ p \in Mixed(k) => kept'[p] = Left
                         /\ p \notin Mixed(k) => kept'[p] = maybe[p]
      /\ raced \subseteq raced'
      /\ client \in LooksFirst => Races(k) \subseteq raced'
  BY BegunIs
<1> SUFFICES ASSUME ByPath, ~mistaken, raced' = {}
             PROVE  HoldsInv'
  BY <1>1 DEF HoldsInv, ByPath
<1>2. /\ raced = {} /\ client # "GoogleDrive"
      /\ \A p \in Path : PathOK(p)
      /\ ~stale /\ ListOK
      /\ client = "Mega" => twice = {} /\ Nested
      /\ \A d \in Caller : Running(d) => Standing(call[d]) /\ AtStep(call[d])
      /\ Expected(k, maybe)
  BY <1>1 DEF HoldsInv, ByPath
<1>3. \A p \in Path : kept[p] \subseteq kept'[p]
  BY <1>1
<1>4. /\ \A p : Now(p)' = Now(p) /\ There(p)' = There(p)
      /\ \A q : HasFolder(q)' = HasFolder(q)
      /\ \A op, p : Halfway(op, p)' = Halfway(op, p)
      /\ \A i : MayLeave(i)' = MayLeave(i) /\ ToMake(i)' = ToMake(i)
  BY <1>1, <1>2, MayLeaveStays DEF Now, There, Newest, HasFolder, ToMake
<1>5. \A p \in Path : PathOK(p)'
  BY <1>1, <1>2, <1>3, <1>4 DEF PathOK
<1>6. ~stale' /\ ListOK' /\ (client = "Mega" => twice' = {} /\ Nested')
  BY <1>1, <1>2 DEF ListOK, Nested
<1>7. client = "Mega" => Meets(k) = {}
  BY <1>1, RacesAre DEF LooksFirst
<1>8. ASSUME NEW d \in Meets(k), Carries(k) \/ Carries(call[d])
      PROVE  /\ \A p \in Uses(k) \union Uses(call[d]) : kept'[p] = Left
  <2>1. Uses(k) \union Uses(call[d]) \subseteq Mixed(k) /\ Mixed(k) \subseteq Path
    BY <1>8, MixedIs, RacesAre
  <2> QED
    BY <1>1, <2>1
<1>9. ASSUME NEW j, j = call'[c]
      PROVE  Standing(j)' /\ AtStep(j)'
  <2>1. /\ Grows(j, k) /\ CallOK(j) /\ j.must = k.must
        /\ Meets(k) = {} => j.others = {}
        /\ Carries(k) /\ j.others = {} => Meets(k) = {}
    <3>1. j = Joined(k)
      BY <1>9, BegunIs
    <3> QED
      BY <3>1, NewCallIs
  <2>2. MayLeave(j) = MayLeave(k) /\ Carries(j) = Carries(k)
    BY <2>1, GrowsMeans
  <2>3. ~Carries(j) => MayLeave(j) \subseteq kept'[j.path]
    <3> SUFFICES ASSUME ~Carries(k)
                 PROVE  MayLeave(k) \subseteq kept'[k.path]
      BY <2>1, <2>2 DEF Grows
    <3>1. k.op \in {"upload", "download", "delete"} \/ MayLeave(k) = {}
      BY MayLeaveIs
    <3>2. k.op \in {"upload", "download", "delete"} => k.path \in Path
      BY DEF CallOK
    <3> QED
      BY <1>1, <1>2, <3>1, <3>2 DEF Expected
  <2>4. ASSUME Carries(j)
        PROVE  /\ j.others # {} => kept'[j.path] = Left /\ kept'[j.to] = Left
               /\ j.others = {} =>
                    /\ Now(j.path) \in j.was
                    /\ j.was \union Halfway(j.op, j.to) \subseteq kept'[j.to]
                    /\ j.op = "rename" => NoItem \in kept'[j.path]
    <3>1. j.path = k.path /\ j.to = k.to /\ j.was = k.was /\ j.op = k.op
          /\ k.path \in Path /\ k.to \in Path
      BY <2>1, <2>2, <2>4 DEF Grows, CallOK
    <3>2. Uses(k) = {k.path, k.to}
      BY <3>1 DEF Uses
    <3>3. j.others # {} => kept'[j.path] = Left /\ kept'[j.to] = Left
      BY <1>8, <2>1, <2>2, <2>4, <3>1, <3>2
    <3>4. maybe[k.path] \subseteq kept'[k.path] /\ maybe[k.to] \subseteq kept'[k.to]
      BY <1>1, <3>1
    <3> QED
      BY <1>2, <2>2, <2>4, <3>1, <3>3, <3>4 DEF Expected
  <2>5. j.op = "list" => \A p \in j.must : Folder(p) = j.path /\ NoItem \notin kept'[p]
    <3> SUFFICES ASSUME k.op = "list", NEW p \in k.must
                 PROVE  Folder(p) = k.path /\ NoItem \notin kept'[p]
      BY <2>1 DEF Grows
    <3>1. k.path \in Folders /\ k.to = k.path /\ k.must \subseteq Path
      BY DEF CallOK, Call
    <3>2. Uses(k) = {}
      BY <3>1, FoldersAre DEF Uses
    <3>3. Meets(k) = {}
      BY <3>2 DEF Meets
    <3>4. Mixed(k) = {}
      BY <3>3 DEF Mixed
    <3> QED
      BY <1>1, <1>2, <3>1, <3>4 DEF Expected
  <2>6. client = "Mega" => j.others = {}
    BY <1>7, <2>1
  <2>7. Standing(j)'
    BY <1>1, <1>4, <2>3, <2>4, <2>5, <2>6 DEF Standing, Carries
  <2>8. AtStep(j)'
    BY <2>1 DEF Grows, AtStep
  <2> QED
    BY <2>7, <2>8
<1>10. ASSUME NEW d \in Caller, d # c, Running(d)', NEW j, j = call'[d]
       PROVE  Standing(j)' /\ AtStep(j)'
  <2>1. PICK i : i = call[d]
    OBVIOUS
  <2>2. Running(d)
    BY <1>10, BegunIs
  <2>3. /\ CallOK(i) /\ CallOK(j) /\ Grows(j, i)
        /\ j.must = {p \in i.must : NoItem \notin kept'[p]}
        /\ d \notin Meets(k) => j.others = i.others
    <3>2. PICK now : now = kept'
      OBVIOUS
    <3>3. j = Joining(k, d, i, now)
      BY <1>10, <2>1, <2>2, <3>2, BegunIs
    <3>4. Joins(k, d, i, now, j)
      BY <2>1, <2>2, <3>3, OldCallIs
    <3> QED
      BY <3>2, <3>4 DEF Joins
  <2>4. Standing(i) /\ AtStep(i)
    BY <1>2, <2>1, <2>2
  <2>5. MayLeave(j) = MayLeave(i) /\ Carries(j) = Carries(i) /\ ToMake(j) = ToMake(i)
    BY <2>3, GrowsMeans
  <2>6. ~Carries(j) => MayLeave(j) \subseteq kept'[j.path]
    <3> SUFFICES ASSUME ~Carries(i)
                 PROVE  MayLeave(i) \subseteq kept'[i.path]
      BY <2>3, <2>5 DEF Grows
    <3>1. i.op \in {"upload", "download", "delete"} \/ MayLeave(i) = {}
      BY <2>3, MayLeaveIs
    <3>2. i.op \in {"upload", "download", "delete"} => i.path \in Path
      BY <2>3 DEF CallOK
    <3> QED
      BY <1>3, <2>4, <3>1, <3>2 DEF Standing
  <2>7. ASSUME Carries(j)
        PROVE  /\ j.others # {} => kept'[j.path] = Left /\ kept'[j.to] = Left
               /\ j.others = {} =>
                    /\ i.others = {}
                    /\ Now(j.path) \in j.was \union {NoItem}
                    /\ j.was \union Halfway(j.op, j.to) \subseteq kept'[j.to]
                    /\ j.op = "rename" =>
                         NoItem \in kept'[j.path] /\ (Now(j.path) \in j.was \/ Now(j.to) \in j.was)
    <3>1. j.path = i.path /\ j.to = i.to /\ j.was = i.was /\ j.op = i.op
          /\ i.path \in Path /\ i.to \in Path /\ i.others \subseteq j.others
      BY <2>3, <2>5, <2>7 DEF Grows, CallOK
    <3>2. Uses(i) = {i.path, i.to}
      BY <3>1 DEF Uses
    <3>3. d \in Meets(k) => kept'[j.path] = Left /\ kept'[j.to] = Left
      BY <1>8, <2>1, <2>5, <2>7, <3>1, <3>2
    <3>4. i.others # {} => kept[i.path] = Left /\ kept[i.to] = Left
      BY <2>4, <2>5, <2>7 DEF Standing
    <3>5. \A p \in Path : kept[p] = Left => kept'[p] = Left
      <4>1. kept' \in [Path -> SUBSET Left]
        BY BegunIs
      <4> QED
        BY <1>3, <4>1
    <3>6. j.others # {} => kept'[j.path] = Left /\ kept'[j.to] = Left
      BY <2>3, <3>1, <3>3, <3>4, <3>5
    <3>7. j.others = {} => i.others = {}
      BY <3>1
    <3> QED
      BY <1>3, <2>4, <2>5, <2>7, <3>1, <3>6, <3>7 DEF Standing
  <2>8. j.op = "list" => \A p \in j.must : Folder(p) = j.path /\ NoItem \notin kept'[p]
    BY <2>3, <2>4 DEF Standing, Grows
  <2>9. client = "Mega" => j.others = {}
    BY <1>7, <2>3, <2>4 DEF Standing
  <2>10. Standing(j)'
    BY <1>1, <1>4, <2>6, <2>7, <2>8, <2>9 DEF Standing, Carries
  <2>11. AtStep(j)'
    <3>1. /\ j.op = i.op /\ j.path = i.path /\ j.to = i.to /\ j.was = i.was /\ j.step = i.step
          /\ j.rest = i.rest /\ j.item = i.item /\ i.others \subseteq j.others
      BY <2>3 DEF Grows
    <3>2. j.others = {} => i.others = {}
      BY <3>1
    <3> QED
      BY <1>1, <1>4, <2>4, <2>5, <3>1, <3>2 DEF AtStep
  <2> QED
    BY <2>10, <2>11
<1>11. ASSUME NEW d \in Caller, Running(d)'
       PROVE  Standing(call[d])' /\ AtStep(call[d])'
  <2>1. PICK j : j = call'[d]
    OBVIOUS
  <2>2. Standing(j)' /\ AtStep(j)'
    BY <1>9, <1>10, <1>11, <2>1
  <2>3. Standing(call[d])'
    BY <2>1, <2>2 DEF Standing, Halfway, MayLeave, Carries, Now, There, Newest
  <2>4. AtStep(call[d])'
    BY <2>1, <2>2 DEF AtStep, ToMake, HasFolder, Reached, Now, There, Newest
  <2> QED
    BY <2>3, <2>4
<1> QED
  BY <1>5, <1>6, <1>11, <1>1 DEF HoldsInv

\* A call before its first request.
LEMMA FirstIs ==
  ASSUME NEW op \in Op, NEW q \in Path \union Folders
  PROVE  /\ First(op, q) \in Call
         /\ First(op, q).op = op /\ First(op, q).path = q /\ First(op, q).to = q
         /\ First(op, q).step = FirstStep(op) /\ FirstStep(op) \in {"walk", "source"}
         /\ FirstStep(op) = "source" => client = "GoogleDrive"
         /\ First(op, q).must = {} /\ First(op, q).others = {}
<1>1. q \in Seq(Name)
  BY FoldersAre
<1> QED
  BY <1>1, AttemptsAre DEF First, FirstStep, Call, Step, Node

LEMMA HalfwayIs == \A op, p : Halfway(op, p) \subseteq Left
BY DEF Halfway

\* Both invariants are kept.
LEMMA BeginsKeeps ==
  ASSUME StorageInv, NEW c \in Caller, NEW k, NEW maybe \in [Path -> SUBSET Left],
         ~Running(c), calls < MaxCalls[client], Begins(c, k, maybe), CallOK(k), k.others = {},
         k.step = "walk" \/ (k.step = "source" /\ client = "GoogleDrive"),
         \A p \in Path : kept[p] \subseteq maybe[p],
         ByPath /\ ~mistaken /\ raced = {} /\ HoldsInv => Expected(k, maybe)
  PROVE  StorageInv' /\ (HoldsInv => HoldsInv')
BY BeginsKeepsInv, BeginsKeepsHolds

LEMMA FilesBegin ==
  ASSUME StorageInv, NEW c \in Caller, NEW p \in Path,
         ~Running(c), calls < MaxCalls[client],
         \/ BeginsDownload(c, p) \/ BeginsDelete(c, p)
         \/ \E v \in Content : BeginsUpload(c, p, v)
  PROVE  StorageInv' /\ (HoldsInv => HoldsInv')
<1>1. kept \in [Path -> SUBSET Left] /\ NoItem \in Left /\ Content \subseteq Left
  BY DEF StorageInv, HistoryType, Left
<1>2. CASE BeginsDownload(c, p)
  <2>1. PICK k : k = First("download", p)
    OBVIOUS
  <2>2. PICK maybe : maybe = [kept EXCEPT ![p] = @ \union Halfway("download", p)]
    OBVIOUS
  <2>3. /\ maybe \in [Path -> SUBSET Left]
        /\ \A q \in Path : kept[q] \subseteq maybe[q]
        /\ Halfway("download", p) \subseteq maybe[p]
    BY <1>1, <2>2, HalfwayIs
  <2>4. /\ k \in Call /\ k.op = "download" /\ k.path = p /\ k.to = p /\ k.others = {}
        /\ k.step = "walk" \/ (k.step = "source" /\ client = "GoogleDrive")
    BY <2>1, FirstIs DEF Op
  <2>5. CallOK(k) /\ ~Carries(k)
    BY <2>4 DEF CallOK, Carries
  <2>6. Expected(k, maybe)
    BY <2>3, <2>4, <2>5, MayLeaveIs DEF Expected
  <2>7. Begins(c, k, maybe)
    BY <1>2, <2>1, <2>2 DEF BeginsDownload
  <2> QED
    BY <2>3, <2>4, <2>5, <2>6, <2>7, BeginsKeeps
<1>3. CASE BeginsDelete(c, p)
  <2>1. PICK k : k = First("delete", p)
    OBVIOUS
  <2>2. PICK maybe : maybe = [kept EXCEPT ![p] = @ \union {NoItem} \union Halfway("delete", p)]
    OBVIOUS
  <2>3. /\ maybe \in [Path -> SUBSET Left]
        /\ \A q \in Path : kept[q] \subseteq maybe[q]
        /\ {NoItem} \union Halfway("delete", p) \subseteq maybe[p]
    BY <1>1, <2>2, HalfwayIs
  <2>4. /\ k \in Call /\ k.op = "delete" /\ k.path = p /\ k.to = p /\ k.others = {}
        /\ k.step = "walk" \/ (k.step = "source" /\ client = "GoogleDrive")
    BY <2>1, FirstIs DEF Op
  <2>5. CallOK(k) /\ ~Carries(k)
    BY <2>4 DEF CallOK, Carries
  <2>6. Begins(c, k, maybe)
    BY <1>3, <2>1, <2>2 DEF BeginsDelete
  <2>7. Expected(k, maybe)
    BY <2>3, <2>4, <2>5, MayLeaveIs DEF Expected
  <2> QED
    BY <2>3, <2>4, <2>5, <2>6, <2>7, BeginsKeeps
<1>4. CASE \E v \in Content : BeginsUpload(c, p, v)
  <2>1. PICK v \in Content : BeginsUpload(c, p, v)
    BY <1>4
  <2>2. PICK j : j = First("upload", p)
    OBVIOUS
  <2>3. PICK k : k = [j EXCEPT !.content = v]
    OBVIOUS
  <2>4. PICK maybe : maybe = [kept EXCEPT ![p] = @ \union {v} \union Halfway("upload", p)]
    OBVIOUS
  <2>5. /\ maybe \in [Path -> SUBSET Left]
        /\ \A q \in Path : kept[q] \subseteq maybe[q]
        /\ {v} \union Halfway("upload", p) \subseteq maybe[p]
    BY <1>1, <2>4, HalfwayIs
  <2>6. /\ j \in Call /\ j.op = "upload" /\ j.path = p /\ j.to = p /\ j.others = {}
        /\ j.step = "walk" \/ (j.step = "source" /\ client = "GoogleDrive")
    BY <2>2, FirstIs DEF Op
  <2>7. /\ k \in Call /\ k.op = "upload" /\ k.path = p /\ k.to = p /\ k.content = v
        /\ k.others = {}
        /\ k.step = "walk" \/ (k.step = "source" /\ client = "GoogleDrive")
    BY <2>3, <2>6 DEF Call
  <2>8. CallOK(k) /\ ~Carries(k)
    BY <2>7 DEF CallOK, Carries
  <2>9. Begins(c, k, maybe)
    BY <2>1, <2>2, <2>3, <2>4 DEF BeginsUpload
  <2>10. Expected(k, maybe)
    BY <2>5, <2>7, <2>8, MayLeaveIs DEF Expected
  <2> QED
    BY <2>5, <2>7, <2>8, <2>9, <2>10, BeginsKeeps
<1> QED
  BY <1>2, <1>3, <1>4

LEMMA TransfersBegin ==
  ASSUME StorageInv, NEW c \in Caller, NEW p \in Path, NEW q \in Path,
         ~Running(c), calls < MaxCalls[client],
         BeginsRename(c, p, q) \/ BeginsCopy(c, p, q)
  PROVE  StorageInv' /\ (HoldsInv => HoldsInv')
<1>1. kept \in [Path -> SUBSET Left] /\ NoItem \in Left
  BY DEF StorageInv, HistoryType, Left
<1>2. ByPath /\ ~mistaken /\ raced = {} /\ HoldsInv => Now(p) \in kept[p]
  BY DEF HoldsInv, PathOK
<1>3. ASSUME NEW op \in {"rename", "copy"}, NEW k,
             k = [First(op, p) EXCEPT !.to = q, !.was = kept[p]], p # q, client \in Renames
      PROVE  /\ CallOK(k)
             /\ k.op = op /\ k.path = p /\ k.to = q /\ k.was = kept[p] /\ k.others = {}
             /\ k.step = "walk" \/ (k.step = "source" /\ client = "GoogleDrive")
             /\ Carries(k)
  <2>1. PICK j : j = First(op, p)
    OBVIOUS
  <2>2. /\ j \in Call /\ j.op = op /\ j.path = p /\ j.others = {}
        /\ j.step = "walk" \/ (j.step = "source" /\ client = "GoogleDrive")
    BY <2>1, FirstIs DEF Op
  <2>3. /\ k \in Call /\ k.op = op /\ k.path = p /\ k.to = q /\ k.was = kept[p]
        /\ k.others = {}
        /\ k.step = "walk" \/ (k.step = "source" /\ client = "GoogleDrive")
    BY <1>1, <1>3, <2>1, <2>2 DEF Call
  <2> QED
    BY <1>3, <2>3 DEF CallOK, Carries
<1>4. CASE BeginsRename(c, p, q)
  <2>1. PICK k : k = [First("rename", p) EXCEPT !.to = q, !.was = kept[p]]
    OBVIOUS
  <2>2. PICK maybe : maybe = [kept EXCEPT ![p] = @ \union {NoItem}, ![q] = @ \union kept[p]]
    OBVIOUS
  <2>3. Begins(c, k, maybe) /\ p # q /\ client \in Renames
    BY <1>4, <2>1, <2>2 DEF BeginsRename
  <2>4. /\ maybe \in [Path -> SUBSET Left]
        /\ \A r \in Path : kept[r] \subseteq maybe[r]
        /\ NoItem \in maybe[p] /\ kept[p] \subseteq maybe[q]
    BY <1>1, <2>2, <2>3
  <2>5. /\ CallOK(k) /\ Carries(k) /\ k.others = {}
        /\ k.op = "rename" /\ k.path = p /\ k.to = q /\ k.was = kept[p]
        /\ k.step = "walk" \/ (k.step = "source" /\ client = "GoogleDrive")
    BY <1>3, <2>1, <2>3
  <2>7. ByPath => Halfway("rename", q) = {}
    BY DEF Halfway, ByPath
  <2>6. ByPath /\ ~mistaken /\ raced = {} /\ HoldsInv => Expected(k, maybe)
    BY <1>2, <2>4, <2>5, <2>7 DEF Expected
  <2> QED
    BY <2>3, <2>4, <2>5, <2>6, BeginsKeeps
<1>5. CASE BeginsCopy(c, p, q)
  <2>1. PICK k : k = [First("copy", p) EXCEPT !.to = q, !.was = kept[p]]
    OBVIOUS
  <2>2. PICK maybe : maybe = [kept EXCEPT ![q] = @ \union kept[p] \union Halfway("copy", q)]
    OBVIOUS
  <2>3. Begins(c, k, maybe) /\ p # q /\ client \in Renames
    BY <1>5, <2>1, <2>2 DEF BeginsCopy
  <2>4. /\ maybe \in [Path -> SUBSET Left]
        /\ \A r \in Path : kept[r] \subseteq maybe[r]
        /\ Halfway("copy", q) \union kept[p] \subseteq maybe[q]
    BY <1>1, <2>2, HalfwayIs
  <2>5. /\ CallOK(k) /\ Carries(k) /\ k.others = {}
        /\ k.op = "copy" /\ k.path = p /\ k.to = q /\ k.was = kept[p]
        /\ k.step = "walk" \/ (k.step = "source" /\ client = "GoogleDrive")
    BY <1>3, <2>1, <2>3
  <2>7. ByPath /\ ~mistaken /\ raced = {} /\ HoldsInv => Expected(k, maybe)
    BY <1>2, <2>4, <2>5 DEF Expected
  <2> QED
    BY <2>3, <2>4, <2>5, <2>7, BeginsKeeps
<1> QED
  BY <1>4, <1>5

LEMMA FoldersBegin ==
  ASSUME StorageInv, NEW c \in Caller, NEW q \in Folders,
         ~Running(c), calls < MaxCalls[client],
         BeginsCreateFolder(c, q) \/ BeginsList(c, q)
  PROVE  StorageInv' /\ (HoldsInv => HoldsInv')
<1>1. kept \in [Path -> SUBSET Left] /\ q \notin Path
  BY FoldersAre DEF StorageInv, HistoryType
<1>2. CASE BeginsCreateFolder(c, q)
  <2>1. PICK k : k = First("create_folder", q)
    OBVIOUS
  <2>2. /\ k \in Call /\ k.op = "create_folder" /\ k.path = q /\ k.to = q /\ k.others = {}
        /\ k.step = "walk" \/ (k.step = "source" /\ client = "GoogleDrive")
    BY <2>1, FirstIs DEF Op
  <2>3. CallOK(k) /\ ~Carries(k)
    BY <2>2 DEF CallOK, Carries
  <2>4. Expected(k, kept)
    BY <2>2, <2>3, MayLeaveIs DEF Expected
  <2>5. Begins(c, k, kept)
    BY <1>2, <2>1 DEF BeginsCreateFolder
  <2> QED
    BY <1>1, <2>2, <2>3, <2>4, <2>5, BeginsKeeps
<1>3. CASE BeginsList(c, q)
  <2>1. PICK files : files = {p \in Path : Folder(p) = q /\ NoItem \notin kept[p]}
    OBVIOUS
  <2>2. PICK j : j = First("list", q)
    OBVIOUS
  <2>3. PICK k : k = [j EXCEPT !.must = files]
    OBVIOUS
  <2>4. /\ j \in Call /\ j.op = "list" /\ j.path = q /\ j.to = q /\ j.others = {}
        /\ j.step = "walk" \/ (j.step = "source" /\ client = "GoogleDrive")
    BY <2>2, FirstIs DEF Op
  <2>5. /\ k \in Call /\ k.op = "list" /\ k.path = q /\ k.to = q /\ k.must = files
        /\ k.others = {}
        /\ k.step = "walk" \/ (k.step = "source" /\ client = "GoogleDrive")
    BY <2>1, <2>3, <2>4 DEF Call
  <2>6. CallOK(k) /\ ~Carries(k)
    BY <2>5 DEF CallOK, Carries
  <2>7. Begins(c, k, kept)
    BY <1>3, <2>1, <2>2, <2>3 DEF BeginsList
  <2>8. Expected(k, kept)
    BY <2>1, <2>5, <2>6, MayLeaveIs DEF Expected
  <2> QED
    BY <1>1, <2>5, <2>6, <2>7, <2>8, BeginsKeeps
<1> QED
  BY <1>2, <1>3

-----------------------------------------------------------------------------
(* All steps. *)

LEMMA InitHasInv == Init => StorageInv /\ HoldsInv
<1> SUFFICES ASSUME Init
             PROVE  StorageInv /\ HoldsInv
  OBVIOUS
<1>1. /\ \A c \in Caller : ~Running(c)
      /\ \A p \in Path : objects[p] = <<>> /\ kept[p] = {NoItem}
      /\ DOMAIN objects = Path
  BY DEF Init, Running
<1>2. ServiceType
  <2>1. <<>> \in Seq(Content \union {Empty})
    OBVIOUS
  <2> QED
    BY <1>1, <2>1 DEF ServiceType, Init
<1>3. HistoryType
  BY DEF Init, HistoryType, Left
<1>4. CallsInv
  <2>1. calls = 0 /\ faults = 0 /\ MaxCalls[client] \in Nat /\ MaxFaults[client] \in Nat
    BY StorageAssumption DEF Init
  <2> QED
    BY <1>1, <2>1 DEF CallsInv, Init
<1>5. HoldsInv
  <2>1. Len(<<>>) = 0 /\ <<>> \in Seq(Content)
    OBVIOUS
  <2>2. ASSUME NEW p \in Path
        PROVE  PathOK(p)
    <3>1. objects[p] = <<>> /\ NoItem \in kept[p]
      BY <1>1
    <3>2. Len(objects[p]) <= 1 /\ objects[p] \in Seq(Content)
      BY <2>1, <3>1
    <3> QED
      BY <3>1, <3>2 DEF PathOK, Now, There
  <2>3. Nested /\ twice = {}
    BY DEF Init, Nested
  <2> QED
    BY <1>1, <2>2, <2>3 DEF HoldsInv, ListOK, Init
<1> QED
  BY <1>2, <1>3, <1>4, <1>5 DEF StorageInv

\* Nobody is left with a call when the program is killed.
LEMMA CutOffKeepsInv ==
  ASSUME StorageInv, Crash \/ ExpiresB2 \/ UNCHANGED vars
  PROVE  StorageInv' /\ (HoldsInv => HoldsInv')
<1>1. /\ UNCHANGED <<client, drive, objects, folders, twice, calls, kept, raced, mistaken,
                     unlisted, stale>>
      /\ session' \in {"none", "account", "bucket", "expired"}
      /\ call' = [c \in Caller |-> NoCall] \/ call' = call
      /\ faults' \in 0..MaxFaults[client]
  <2>1. CASE Crash
    BY <2>1, FailsIs DEF Crash, history
  <2>2. CASE ExpiresB2
    BY <2>2, FailsIs DEF ExpiresB2, history
  <2>3. CASE UNCHANGED vars
    BY <2>3 DEF vars, service, history, StorageInv, ServiceType, CallsInv
  <2> QED
    BY <2>1, <2>2, <2>3
<1>2. ServiceType' /\ HistoryType'
  BY <1>1 DEF StorageInv, ServiceType, HistoryType
<1>3. \A c \in Caller : Running(c)' => Running(c) /\ call'[c] = call[c]
  BY <1>1 DEF Running
<1>4. \A c \in Caller : Running(c)' => CallOK(call[c])'
  <2> SUFFICES ASSUME NEW c \in Caller, Running(c)'
               PROVE  CallOK(call[c])'
    OBVIOUS
  <2>1. CallOK(call[c]) /\ call'[c] = call[c]
    BY <1>3, CallKnown
  <2> QED
    BY <1>1, <2>1 DEF CallOK, Carries
<1>5. \A c, d \in Caller : c # d /\ Running(c)' /\ Running(d)' => Aware(call[c], call[d])'
  <2> SUFFICES ASSUME NEW c \in Caller, NEW d \in Caller, c # d, Running(c)', Running(d)'
               PROVE  Aware(call[c], call[d])'
    OBVIOUS
  <2>1. PICK i, j : i = call[c] /\ j = call[d]
    OBVIOUS
  <2>2. Running(c) /\ Running(d) /\ call'[c] = i /\ call'[d] = j
    BY <1>3, <2>1
  <2>3. Aware(i, j)
    BY <2>1, <2>2 DEF StorageInv, CallsInv
  <2>4. client # "GoogleDrive" => Brings(j, i)' = Brings(j, i)
    BY <1>1, MayLeaveStays
  <2>5. Aware(i, j)'
    BY <1>1, <2>3, <2>4 DEF Aware, Uses, Wants
  <2> QED
    BY <2>2, <2>5 DEF Aware, Uses, Wants, Brings, Carries, MayLeave, Halfway
<1>6. StorageInv'
  BY <1>1, <1>2, <1>4, <1>5 DEF StorageInv, CallsInv
<1>7. ASSUME HoldsInv, ByPath, ~mistaken, raced = {}
      PROVE  HoldsInv'
  <2>1. \A p \in Path : PathOK(p)'
    BY <1>1, <1>7 DEF HoldsInv, PathOK, Now, There, Newest
  <2>2. ~stale' /\ ListOK' /\ (client = "Mega" => twice' = {} /\ Nested')
    BY <1>1, <1>7 DEF HoldsInv, ListOK, Nested
  <2>3. ASSUME NEW c \in Caller, Running(c)'
        PROVE  Standing(call[c])' /\ AtStep(call[c])'
    <3>1. Standing(call[c]) /\ AtStep(call[c]) /\ call'[c] = call[c]
      BY <1>3, <1>7, <2>3 DEF HoldsInv
    <3>2. PICK j : j = call[c]
      OBVIOUS
    <3>3. Standing(j) /\ AtStep(j) /\ call'[c] = j
      BY <3>1, <3>2
    <3>4. Standing(j)'
      BY <1>1, <3>3 DEF Standing, Halfway, MayLeave, Carries, Now, There, Newest
    <3>5. AtStep(j)'
      <4>1. client = "Mega" => \A q : HasFolder(q)' = HasFolder(q)
        BY <1>1 DEF HasFolder
      <4> QED
        BY <1>1, <3>3, <4>1 DEF AtStep, ToMake, Now, There, Newest
    <3>6. Standing(call[c])'
      BY <3>3, <3>4 DEF Standing, Halfway, MayLeave, Carries, Now, There, Newest
    <3>7. AtStep(call[c])'
      BY <3>3, <3>5 DEF AtStep, ToMake, HasFolder, Reached, Now, There, Newest
    <3> QED
      BY <3>6, <3>7
  <2> QED
    BY <1>1, <2>1, <2>2, <2>3 DEF HoldsInv
<1> QED
  BY <1>1, <1>6, <1>7 DEF HoldsInv, ByPath

LEMMA NextKeepsInv == StorageInv /\ [Next]_vars => StorageInv' /\ (HoldsInv => HoldsInv')
<1> SUFFICES ASSUME StorageInv, [Next]_vars
             PROVE  StorageInv' /\ (HoldsInv => HoldsInv')
  OBVIOUS
<1>1. ASSUME NEW c \in Caller, BeginsCall(c)
      PROVE  StorageInv' /\ (HoldsInv => HoldsInv')
  BY <1>1, FilesBegin, TransfersBegin, FoldersBegin DEF BeginsCall
<1>2. ASSUME NEW c \in Caller, Goes(c)
      PROVE  StorageInv' /\ (HoldsInv => HoldsInv')
  BY <1>2, GoesFollows, FollowsKeepsInv, FollowsKeepsHolds
<1> QED
  BY <1>1, <1>2, CutOffKeepsInv DEF Next

LEMMA SpecHasInv == Spec => [](StorageInv /\ HoldsInv)
<1>1. Init => StorageInv /\ HoldsInv
  BY InitHasInv
<1>2. StorageInv /\ HoldsInv /\ [Next]_vars => (StorageInv /\ HoldsInv)'
  BY NextKeepsInv
<1> QED
  BY <1>1, <1>2, PTL DEF Spec

-----------------------------------------------------------------------------
(* Google Drive: the ids of its items and the paths that they stand for. *)

\* The nodes that names can be walked down from.
Nodes == Live \union {Root}

\* The items at path q, where loc says which path each id stands for.
At(loc, q) == {i \in Live : loc[i] = q}

\* The items are a tree: there is one at most at every path, folders at the paths
\* of folders and files at those of files.
Tree(loc) ==
  /\ loc \in [Node -> Seq(Name)]
  /\ loc[Root] = <<>>
  /\ \A i \in Live :
       /\ drive[i].parent \in Nodes
       /\ loc[i] = Append(loc[drive[i].parent], drive[i].name)
       /\ drive[i].folder => loc[i] \in Folders
       /\ ~drive[i].folder => loc[i] \in Path
  /\ \A i, j \in Live : loc[i] = loc[j] => i = j

\* One name further down.
LEMMA StepDown ==
  ASSUME NEW s \in Seq(Name), NEW r \in Seq(Name), NEW t, t = s \o r
  PROVE  /\ r = <<>> => s = t
         /\ r # <<>> =>
              /\ Append(s, Head(r)) \in Prefixes(t)
              /\ Append(s, Head(r)) \in Seq(Name)
              /\ Head(r) \in Name /\ Tail(r) \in Seq(Name)
              /\ Append(s, Head(r)) \o Tail(r) = t
              /\ Len(r) = 1 => Append(s, Head(r)) = t /\ Tail(r) = <<>>
              /\ Len(r) > 1 => Append(s, Head(r)) \in Prefixes(Folder(t)) /\ Tail(r) # <<>>
              /\ Len(r) >= 1
<1>1. t \in Seq(Name) /\ Len(t) = Len(s) + Len(r)
  OBVIOUS
<1>2. ASSUME r = <<>>
      PROVE  s = t
  BY <1>2
<1> SUFFICES ASSUME r # <<>>
             PROVE  /\ Append(s, Head(r)) \in Prefixes(t)
                    /\ Append(s, Head(r)) \in Seq(Name)
                    /\ Head(r) \in Name /\ Tail(r) \in Seq(Name)
                    /\ Append(s, Head(r)) \o Tail(r) = t
                    /\ Len(r) = 1 => Append(s, Head(r)) = t /\ Tail(r) = <<>>
                    /\ Len(r) > 1 => Append(s, Head(r)) \in Prefixes(Folder(t)) /\ Tail(r) # <<>>
                    /\ Len(r) >= 1
  BY <1>2
<1>3. Head(r) \in Name /\ Tail(r) \in Seq(Name) /\ Len(Tail(r)) = Len(r) - 1 /\ Len(r) >= 1
      /\ Append(s, Head(r)) \in Seq(Name) /\ Len(Append(s, Head(r))) = Len(s) + 1
  OBVIOUS
<1>4. Append(s, Head(r)) = SubSeq(t, 1, Len(s) + 1)
  OBVIOUS
<1>5. Append(s, Head(r)) \o Tail(r) = t
  OBVIOUS
<1>6. Len(s) + 1 \in 1..Len(t)
  BY <1>1, <1>3
<1>7. Append(s, Head(r)) \in Prefixes(t)
  BY <1>4, <1>6 DEF Prefixes
<1>8. PICK u \in Seq(Name) : u = Tail(r)
  BY <1>3
<1>9. (Len(r) = 1 => u = <<>>) /\ (Len(r) > 1 => u # <<>>)
  <2>1. Len(u) = Len(r) - 1 /\ Len(r) \in Nat
    <3>1. Len(r) \in Nat
      OBVIOUS
    <3>2. Len(Tail(r)) = Len(r) - 1
      OBVIOUS
    <3> QED
      BY <1>8, <3>1, <3>2
  <2>2. \A m, n \in Nat : m = n - 1 => (n = 1 => m = 0) /\ (n > 1 => m # 0)
    OBVIOUS
  <2>3. (Len(r) = 1 => Len(u) = 0) /\ (Len(r) > 1 => Len(u) # 0)
    <3>1. Len(u) \in Nat
      OBVIOUS
    <3> QED
      BY <2>1, <2>2, <3>1
  <2>4. Len(u) = 0 <=> u = <<>>
    OBVIOUS
  <2> QED
    BY <2>3, <2>4
<1>10. Len(r) = 1 => Append(s, Head(r)) = t
  <2>1. PICK v \in Seq(Name) : v = Append(s, Head(r))
    BY <1>3
  <2>2. v \o <<>> = v
    OBVIOUS
  <2> QED
    BY <1>5, <1>8, <1>9, <2>1, <2>2
<1>11. ASSUME Len(r) > 1
       PROVE  Append(s, Head(r)) \in Prefixes(Folder(t))
  <2>1. Len(s) + 1 \in 1..(Len(t) - 1) /\ Len(t) \in Nat
    BY <1>1, <1>11
  <2>2. PICK g : g = Folder(t)
    OBVIOUS
  <2>3. Len(g) = Len(t) - 1
    BY <1>1, <2>1, <2>2 DEF Folder
  <2>4. SubSeq(g, 1, Len(s) + 1) = SubSeq(t, 1, Len(s) + 1)
    BY <1>1, <2>1, <2>2 DEF Folder
  <2>5. Len(s) + 1 \in 1..Len(g)
    BY <2>1, <2>3
  <2>6. SubSeq(g, 1, Len(s) + 1) \in Prefixes(g)
    BY <2>5 DEF Prefixes
  <2> QED
    BY <1>4, <2>2, <2>4, <2>6
<1> QED
  BY <1>3, <1>5, <1>7, <1>8, <1>9, <1>10, <1>11

LEMMA StartIs ==
  ASSUME NEW s \in Seq(Name), NEW r \in Seq(Name), NEW t, t = s \o r
  PROVE  s = <<>> \/ s \in Prefixes(t)
<1>1. Len(t) = Len(s) + Len(r) /\ Len(s) \in Nat /\ Len(r) \in Nat
  OBVIOUS
<1>2. s = SubSeq(t, 1, Len(s))
  OBVIOUS
<1>3. s # <<>> => Len(s) # 0
  OBVIOUS
<1>4. s # <<>> => Len(s) \in 1..Len(t)
  BY <1>1, <1>3
<1> QED
  BY <1>2, <1>4 DEF Prefixes

LEMMA AppendIs ==
  /\ \A s, t \in Seq(Name) : \A x, y \in Name : Append(s, x) = Append(t, y) => s = t /\ x = y
  /\ \A s \in Seq(Name) : \A x \in Name :
       Append(s, x) \in Seq(Name) /\ Append(s, x) # <<>> /\ Folder(Append(s, x)) = s
       /\ Last(Append(s, x)) = x
  /\ \A s \in Seq(Name) : s # <<>> => Append(Folder(s), Last(s)) = s /\ Last(s) \in Name
                                      /\ Folder(s) \in Seq(Name)
  /\ \A s \in Seq(Name) : <<>> \o s = s
<1>1. ASSUME NEW s \in Seq(Name), NEW x \in Name
      PROVE  Append(s, x) \in Seq(Name) /\ Append(s, x) # <<>> /\ Folder(Append(s, x)) = s
             /\ Last(Append(s, x)) = x
  BY DEF Folder, Last
<1>2. ASSUME NEW s \in Seq(Name), s # <<>>
      PROVE  Append(Folder(s), Last(s)) = s /\ Last(s) \in Name /\ Folder(s) \in Seq(Name)
  BY <1>2 DEF Folder, Last
<1>3. \A s \in Seq(Name) : <<>> \o s = s
  OBVIOUS
<1>4. ASSUME NEW s \in Seq(Name), NEW t \in Seq(Name), NEW x \in Name, NEW y \in Name,
             Append(s, x) = Append(t, y)
      PROVE  s = t /\ x = y
  BY <1>1, <1>4
<1> QED
  BY <1>1, <1>2, <1>3, <1>4

\* What the tree says of a node and of the one above it.
LEMMA TreeIs ==
  ASSUME StorageInv, NEW loc, Tree(loc)
  PROVE  /\ Root \notin Live /\ Live \subseteq Id /\ Nodes \subseteq Node
         /\ \A n \in Nodes : loc[n] \in Seq(Name) /\ loc[n] \in Path \union Folders
         /\ \A i \in Live :
              /\ drive[i] \in Item
              /\ drive[i].name \in Name /\ drive[i].folder \in BOOLEAN
              /\ loc[i] \in Path \union Folders
              /\ loc[i] # <<>>
              /\ drive[i].folder <=> loc[i] \in Folders
              /\ drive[i].folder <=> loc[i] \notin Path
         /\ \A m, n \in Nodes : loc[m] = loc[n] => m = n
<1>1. Root \notin Live /\ Live \subseteq Id /\ Nodes \subseteq Node
  BY StorageAssumption DEF Live, Nodes, Node
<1>2. ASSUME NEW i \in Live
      PROVE  /\ drive[i] \in Item
             /\ drive[i].name \in Name /\ drive[i].folder \in BOOLEAN
  BY DEF StorageInv, ServiceType, Live, Item
<1>3. ASSUME NEW i \in Live
      PROVE  /\ loc[i] \in Path \union Folders
             /\ drive[i].folder <=> loc[i] \in Folders
             /\ drive[i].folder <=> loc[i] \notin Path
             /\ loc[i] # <<>>
  <2>1. loc[i] \in Path \union Folders
    BY <1>2 DEF Tree
  <2>2. (drive[i].folder => loc[i] \in Folders) /\ (~drive[i].folder => loc[i] \in Path)
    BY DEF Tree
  <2>3. Path \intersect Folders = {}
    BY FoldersAre
  <2>4. loc[i] = Append(loc[drive[i].parent], drive[i].name)
        /\ loc[drive[i].parent] \in Seq(Name)
    BY <1>1 DEF Tree
  <2>5. loc[i] # <<>>
    <3>1. PICK s \in Seq(Name), x \in Name : loc[i] = Append(s, x)
      BY <1>2, <2>4
    <3> QED
      BY <3>1
  <2> QED
    BY <1>2, <2>1, <2>2, <2>3, <2>5
<1>4. \A n \in Nodes : loc[n] \in Seq(Name) /\ loc[n] \in Path \union Folders
  <2>1. <<>> \in Folders
    BY DEF Folders
  <2> QED
    BY <1>1, <1>3, <2>1 DEF Nodes, Tree
<1>5. \A m, n \in Nodes : loc[m] = loc[n] => m = n
  BY <1>1, <1>3 DEF Nodes, Tree
<1> QED
  BY <1>1, <1>2, <1>3, <1>4, <1>5

\* The children of a node with one name.
LEMMA ChildIs ==
  ASSUME StorageInv, NEW loc, Tree(loc), NEW n \in Nodes, NEW x \in Name
  PROVE  {i \in Children(n) : drive[i].name = x} = At(loc, Append(loc[n], x))
<1>1. ASSUME NEW i \in Live
      PROVE  i \in Children(n) /\ drive[i].name = x <=> loc[i] = Append(loc[n], x)
  <2>1. /\ drive[i].parent \in Nodes
        /\ loc[i] = Append(loc[drive[i].parent], drive[i].name)
        /\ drive[i].name \in Name
    BY TreeIs DEF Tree
  <2>2. loc[drive[i].parent] \in Seq(Name) /\ loc[n] \in Seq(Name)
    BY <2>1, TreeIs
  <2>3. loc[i] = Append(loc[n], x) => loc[drive[i].parent] = loc[n] /\ drive[i].name = x
    <3>1. PICK s \in Seq(Name), t \in Seq(Name), y \in Name :
            s = loc[drive[i].parent] /\ t = loc[n] /\ y = drive[i].name
      BY <2>1, <2>2
    <3>2. Append(s, y) = Append(t, x) => s = t /\ y = x
      <4>1. Folder(Append(s, y)) = s /\ Last(Append(s, y)) = y
        BY AppendIs
      <4>2. Folder(Append(t, x)) = t /\ Last(Append(t, x)) = x
        BY AppendIs
      <4> QED
        BY <4>1, <4>2
    <3> QED
      BY <2>1, <3>1, <3>2
  <2>4. loc[drive[i].parent] = loc[n] => drive[i].parent = n
    BY <2>1, TreeIs
  <2> QED
    BY <2>1, <2>3, <2>4 DEF Children
<1> QED
  BY <1>1 DEF Children, At

\* A path leads to what is at it.
LEMMA ReachedIs ==
  ASSUME StorageInv, NEW loc, Tree(loc), NEW p, NEW folder \in BOOLEAN,
         IF folder THEN p \in Folders \ {<<>>} ELSE p \in Path
  PROVE  Reached(p, folder) = At(loc, p)
<1> DEFINE to == 0..Len(p)
           After(f) == [n \in to |->
             IF n = 0 THEN {Root}
             ELSE UNION {Matches(m, p[n], folder \/ n < Len(p)) : m \in f[n - 1]}]
           nodes == CHOOSE f : f = After(f)
           places == [n \in to |-> {i \in Nodes : loc[i] = SubSeq(p, 1, n)}]
<1>1. /\ p \in Seq(Name) /\ p # <<>> /\ Len(p) \in Nat /\ Len(p) > 0 /\ p \in Prefixes(p)
      /\ SubSeq(p, 1, Len(p)) = p
      /\ folder => Prefixes(p) \subseteq Folders
      /\ ~folder => Prefixes(Folder(p)) \subseteq Folders
  <2>1. p \in Seq(Name) /\ p # <<>>
    BY FoldersAre
  <2>2. Len(p) \in Nat /\ Len(p) > 0 /\ SubSeq(p, 1, Len(p)) = p
    BY <2>1
  <2> QED
    BY <2>1, <2>2, FoldersAre, PrefixesAre
<1>2. ASSUME NEW n \in 1..Len(p)
      PROVE  /\ SubSeq(p, 1, n) = Append(SubSeq(p, 1, n - 1), p[n])
             /\ SubSeq(p, 1, n - 1) \in Seq(Name) /\ p[n] \in Name
             /\ SubSeq(p, 1, n) \in Prefixes(p)
             /\ IF folder \/ n < Len(p) THEN SubSeq(p, 1, n) \in Folders
                                        ELSE SubSeq(p, 1, n) \in Path
  <2>1. /\ SubSeq(p, 1, n) = Append(SubSeq(p, 1, n - 1), p[n])
        /\ SubSeq(p, 1, n - 1) \in Seq(Name) /\ p[n] \in Name
    BY <1>1
  <2>2. SubSeq(p, 1, n) \in Prefixes(p)
    BY DEF Prefixes
  <2>3. ASSUME n < Len(p)
        PROVE  SubSeq(p, 1, n) \in Prefixes(Folder(p))
    <3>1. PICK g : g = Folder(p)
      OBVIOUS
    <3>2. Len(g) = Len(p) - 1 /\ SubSeq(g, 1, n) = SubSeq(p, 1, n)
      BY <1>1, <2>3, <3>1 DEF Folder
    <3>3. n \in 1..Len(g)
      BY <1>1, <2>3, <3>2
    <3>4. SubSeq(g, 1, n) \in Prefixes(g)
      BY <3>3 DEF Prefixes
    <3> QED
      BY <3>1, <3>2, <3>4
  <2>4. n < Len(p) \/ n = Len(p)
    <3>1. n \in 1..Len(p) /\ Len(p) \in Nat
      BY <1>1
    <3> QED
      BY <3>1
  <2> QED
    BY <1>1, <2>1, <2>2, <2>3, <2>4
<1>3. ASSUME NEW n \in 1..Len(p)
      PROVE  UNION {Matches(m, p[n], folder \/ n < Len(p)) : m \in places[n - 1]} = places[n]
  <2>1. n - 1 \in to /\ n \in to
    BY <1>1
  <2>2. places[n - 1] = {i \in Nodes : loc[i] = SubSeq(p, 1, n - 1)}
    BY <2>1
  <2>3. places[n] = At(loc, SubSeq(p, 1, n))
    <3>1. loc[Root] # SubSeq(p, 1, n)
      BY <1>2, PrefixesAre, <1>1 DEF Tree
    <3> QED
      BY <2>1, <3>1 DEF At, Nodes
  <2>4. ASSUME NEW m \in places[n - 1]
        PROVE  Matches(m, p[n], folder \/ n < Len(p)) = At(loc, SubSeq(p, 1, n))
    <3>1. m \in Nodes /\ loc[m] = SubSeq(p, 1, n - 1)
      BY <2>2, <2>4
    <3>2. PICK x \in Name : x = p[n]
      BY <1>2
    <3>3. {i \in Children(m) : drive[i].name = x} = At(loc, Append(loc[m], x))
      BY <3>1, ChildIs
    <3>4. {i \in Children(m) : drive[i].name = p[n]} = At(loc, SubSeq(p, 1, n))
      BY <1>2, <3>1, <3>2, <3>3
    <3>5. PICK s : s = SubSeq(p, 1, n)
      OBVIOUS
    <3>6. IF folder \/ n < Len(p) THEN s \in Folders ELSE s \in Path
      BY <1>2, <3>5
    <3>7. \A i \in At(loc, s) : drive[i].folder = (folder \/ n < Len(p))
      BY <3>6, TreeIs DEF At
    <3> QED
      BY <3>4, <3>5, <3>7 DEF Matches
  <2>5. ASSUME NEW i \in At(loc, SubSeq(p, 1, n))
        PROVE  places[n - 1] # {}
    <3>1. /\ i \in Live /\ loc[i] = SubSeq(p, 1, n) /\ drive[i].parent \in Nodes
          /\ loc[i] = Append(loc[drive[i].parent], drive[i].name) /\ drive[i].name \in Name
      BY <2>5, TreeIs DEF At, Tree
    <3>2. loc[drive[i].parent] \in Seq(Name)
      BY <3>1, TreeIs
    <3>3. loc[drive[i].parent] = SubSeq(p, 1, n - 1)
      BY <1>2, <3>1, <3>2, AppendIs
    <3> QED
      BY <2>2, <3>1, <3>3
  <2> HIDE DEF places
  <2> QED
    BY <2>3, <2>4, <2>5
<1>4. places[0] = {Root}
  <2>1. 0 \in to /\ SubSeq(p, 1, 0) = <<>>
    BY <1>1
  <2>2. places[0] = {i \in Nodes : loc[i] = <<>>}
    BY <2>1
  <2>3. \A i \in Live : loc[i] # <<>>
    BY TreeIs
  <2> QED
    BY <2>2, <2>3 DEF Nodes, Tree
<1>5. places = After(places)
  <2> DEFINE after == After(places)
  <2>1. \A n \in to : after[n] = places[n]
    <3> TAKE n \in to
    <3>1. CASE n = 0
      BY <1>4, <3>1
    <3>2. CASE n # 0
      <4>1. n \in 1..Len(p)
        BY <1>1, <3>2
      <4> QED
        BY <1>3, <3>2, <4>1
    <3> QED
      BY <3>1, <3>2
  <2>2. after = [n \in to |-> after[n]] /\ places = [n \in to |-> places[n]]
    OBVIOUS
  <2> QED
    BY <2>1, <2>2
<1>6. nodes = After(nodes)
  <2> HIDE DEF places
  <2> QED
    BY <1>5
<1>7. ASSUME NEW n \in to
      PROVE  nodes[n] = places[n]
  <2> DEFINE Wrong == {m \in to : nodes[m] # places[m]}
  <2>1. nodes[0] = {Root}
    <3> HIDE DEF nodes, places
    <3>1. 0 \in to
      BY <1>1
    <3> QED
      BY <1>6, <3>1
  <2>2. ASSUME NEW m \in 1..Len(p)
        PROVE  nodes[m] = UNION {Matches(i, p[m], folder \/ m < Len(p)) : i \in nodes[m - 1]}
    <3> HIDE DEF nodes, places
    <3>1. m \in to /\ m # 0
      BY <1>1
    <3> QED
      BY <1>6, <3>1
  <2> SUFFICES ASSUME Wrong # {}
               PROVE  FALSE
    OBVIOUS
  <2>3. Wrong \in SUBSET Nat
    BY <1>1
  <2>4. PICK m \in Wrong : \A k \in Wrong : m <= k
    BY <2>3, LeastIs
  <2> HIDE DEF nodes, places
  <2>5. m # 0
    BY <1>4, <2>1, <2>4
  <2>6. m \in 1..Len(p) /\ m - 1 \in to /\ m - 1 < m
    BY <1>1, <2>4, <2>5
  <2>7. nodes[m - 1] = places[m - 1]
    BY <2>4, <2>6
  <2> QED
    BY <1>3, <2>2, <2>4, <2>6, <2>7
<1>8. Reached(p, folder) = nodes[Len(p)]
  BY DEF Reached
<1>9. ASSUME NEW n \in 1..Len(p)
      PROVE  places[n] = At(loc, SubSeq(p, 1, n))
  <2>1. loc[Root] # SubSeq(p, 1, n)
    BY <1>1, <1>2, PrefixesAre DEF Tree
  <2>2. n \in to
    BY <1>1
  <2> QED
    BY <2>1, <2>2 DEF At, Nodes
<1>10. Reached(p, folder) = At(loc, p)
  <2> HIDE DEF nodes, places
  <2>1. Len(p) \in to /\ Len(p) \in 1..Len(p)
    BY <1>1
  <2> QED
    BY <1>1, <1>7, <1>8, <1>9, <2>1
<1> QED
  BY <1>10

\* Where the walk of call k leads, and the folder that it makes when it is not there.
Target(k) ==
  IF k.op \in {"rename", "copy"} /\ k.step # "source" THEN Folder(k.to) ELSE k.path
Dest(k) == IF k.op \in {"create_folder", "list"} THEN k.path ELSE Folder(k.to)

\* The next place on the way.
Ahead(loc, k) == Append(loc[k.at], Head(k.rest))

\* How far call k is: the names that are left lead from its node to its target,
\* what it creates is not there, and the file it renames or copies is.
Walking(loc, k) ==
  /\ k.at \in Nodes
  /\ loc[k.at] \o k.rest = Target(k)
  /\ k.step \in {"source", "walk", "create", "send"}
  /\ k.step = "source" => k.rest # <<>> /\ k.op \in {"rename", "copy"}
  /\ k.step = "create" => At(loc, Ahead(loc, k)) = {}
  /\ k.step = "send" => k.rest = <<>> /\ k.op = "upload"
  /\ k.op \in {"rename", "copy"} /\ k.step # "source" => k.item \in Live /\ loc[k.item] = k.path

\* What call k may leave is expected, what it carries is where it should be, and no
\* other call has met it.
Owing(loc, k) ==
  /\ k.others = {}
  /\ k.op \in {"upload", "download"} => (NoItem \in kept[k.path] => Empty \in kept[k.path])
  /\ k.op = "upload" => k.content \in kept[k.path]
  /\ k.op = "delete" => {Empty, NoItem} \subseteq kept[k.path]
  /\ k.op \in {"rename", "copy"} =>
       /\ k.was \subseteq kept[k.to]
       /\ \A i \in At(loc, k.path) \union At(loc, k.to) : drive[i].content \in k.was
       /\ At(loc, k.path) = {} \/ At(loc, k.to) = {}
  /\ k.op = "copy" => At(loc, k.to) = {}
  /\ k.op = "rename" =>
       /\ NoItem \in kept[k.path]
       /\ NoItem \notin k.was => At(loc, k.path) \union At(loc, k.to) # {}
  /\ k.op = "list" => \A p \in k.must : Folder(p) = k.path /\ NoItem \notin kept[p]

FileOK(loc, p) ==
  /\ \A i \in At(loc, p) : drive[i].content \in kept[p]
  /\ At(loc, p) = {} => NoItem \in kept[p]

\* No two running calls have a folder to make that both are on the way to.
Ordered(loc) ==
  \A c, d \in Caller : c # d /\ Running(c) /\ Running(d) =>
    \A q \in Prefixes(Dest(call[c])) \intersect Prefixes(Dest(call[d])) : At(loc, q) # {}

DriveOK(loc) ==
  /\ Tree(loc)
  /\ \A p \in Path : FileOK(loc, p)
  /\ \A c \in Caller : Running(c) => Walking(loc, call[c]) /\ Owing(loc, call[c])
  /\ Ordered(loc)

LEMMA TargetIs ==
  ASSUME StorageInv, NEW k, CallOK(k)
  PROVE  /\ Target(k) \in Path \union Folders /\ Target(k) \in Seq(Name)
         /\ Dest(k) \in Folders
         /\ Target(k) \in Path => Target(k) = k.path
         /\ \A q \in Prefixes(Target(k)) :
              /\ q \in Path \union Folders
              /\ q \in Path => q = k.path /\ q = Target(k)
              /\ q \in Folders /\ k.step # "source" => q \in Prefixes(Dest(k))
<1>1. /\ k.op \in Op /\ k.path \in Path \union Folders /\ k.to \in Path \union Folders
      /\ k.op \in {"upload", "download", "delete"} => k.path \in Path /\ k.to = k.path
      /\ k.op \in {"rename", "copy"} => k.path \in Path /\ k.to \in Path
      /\ k.op \in {"create_folder", "list"} => k.path \in Folders /\ k.to = k.path
  BY DEF CallOK, Carries, Call
<1>2. Target(k) \in Path \union Folders /\ (Target(k) \in Path => Target(k) = k.path)
  BY <1>1, FoldersAre DEF Target
<1>3. Dest(k) \in Folders
  BY <1>1, FoldersAre DEF Dest, Op
<1>4. ASSUME NEW t \in Path, NEW q \in Prefixes(t), q # t
      PROVE  q \in Prefixes(Folder(t)) /\ q \in Folders
  <2>1. t \in Seq(Name) /\ Len(t) \in Nat /\ SubSeq(t, 1, Len(t)) = t
    BY FoldersAre
  <2>2. PICK n \in 1..Len(t) : q = SubSeq(t, 1, n)
    BY DEF Prefixes
  <2>3. n \in 1..(Len(t) - 1)
    <3>1. PICK m \in Nat : m = Len(t)
      BY <2>1
    <3>2. n \in 1..m /\ n # m
      BY <1>4, <2>1, <2>2, <3>1
    <3>3. n \in 1..(m - 1)
      BY <3>2
    <3> QED
      BY <3>1, <3>3
  <2>4. PICK g : g = Folder(t)
    OBVIOUS
  <2>5. Len(g) = Len(t) - 1 /\ SubSeq(g, 1, n) = SubSeq(t, 1, n)
    BY <2>1, <2>3, <2>4 DEF Folder
  <2>6. SubSeq(g, 1, n) \in Prefixes(g)
    BY <2>3, <2>5 DEF Prefixes
  <2> QED
    BY <2>2, <2>4, <2>5, <2>6, FoldersAre
<1>5. ASSUME NEW q \in Prefixes(Target(k))
      PROVE  /\ q \in Path \union Folders
             /\ q \in Path => q = k.path /\ q = Target(k)
             /\ q \in Folders /\ k.step # "source" => q \in Prefixes(Dest(k))
  <2>1. CASE Target(k) \in Folders
    <3>1. q \in Folders /\ q \notin Path
      BY <2>1, FoldersAre
    <3>2. k.step # "source" => Target(k) = Dest(k)
      BY <1>1, <2>1, FoldersAre DEF Target, Dest, Op
    <3> QED
      BY <3>1, <3>2
  <2>2. CASE Target(k) \in Path
    <3>1. Target(k) = k.path /\ Target(k) \notin Folders
      BY <1>2, <2>2, FoldersAre
    <3>2. k.step # "source" => Dest(k) = Folder(Target(k))
      BY <1>1, <2>2, <3>1, FoldersAre DEF Target, Dest, Op
    <3> QED
      BY <1>4, <2>2, <3>1, <3>2, FoldersAre
  <2> QED
    BY <1>2, <2>1, <2>2
<1> QED
  BY <1>2, <1>3, <1>5, FoldersAre

\* What is ahead of a call that has names left.
LEMMA AheadIs ==
  ASSUME StorageInv, NEW k, CallOK(k), NEW loc, Tree(loc), k.at \in Nodes, k.rest # <<>>,
         loc[k.at] \o k.rest = Target(k)
  PROVE  /\ Ahead(loc, k) \in Seq(Name) /\ Ahead(loc, k) \in Prefixes(Target(k))
         /\ Head(k.rest) \in Name
         /\ Ahead(loc, k) \o Tail(k.rest) = Target(k)
         /\ Len(k.rest) > 1 => Ahead(loc, k) \in Folders /\ Tail(k.rest) # <<>>
         /\ ~(Len(k.rest) > 1) =>
              Len(k.rest) = 1 /\ Ahead(loc, k) = Target(k) /\ Tail(k.rest) = <<>>
<1>1. PICK s, r, t \in Seq(Name) :
        /\ s = loc[k.at] /\ r = k.rest /\ t = Target(k) /\ t = s \o r
  <2>1. k.rest \in Seq(Name)
    BY DEF CallOK, Carries, Call
  <2>2. loc[k.at] \in Seq(Name)
    BY TreeIs
  <2>3. Target(k) \in Seq(Name)
    BY TargetIs
  <2> QED
    BY <2>1, <2>2, <2>3
<1>2. r # <<>>
  BY <1>1
<1>3. PICK a, u, x : a = Append(s, Head(r)) /\ u = Tail(r) /\ x = Head(r)
  OBVIOUS
<1>4. /\ a \in Prefixes(t) /\ a \in Seq(Name) /\ x \in Name /\ u \in Seq(Name)
      /\ a \o u = t
      /\ Len(r) = 1 => a = t /\ u = <<>>
      /\ Len(r) > 1 => a \in Prefixes(Folder(t)) /\ u # <<>>
      /\ Len(r) >= 1
  <2> SUFFICES ASSUME t = s \o r, r # <<>>,
                      a = Append(s, Head(r)), u = Tail(r), x = Head(r)
               PROVE  /\ a \in Prefixes(t) /\ a \in Seq(Name) /\ x \in Name /\ u \in Seq(Name)
                      /\ a \o u = t
                      /\ Len(r) = 1 => a = t /\ u = <<>>
                      /\ Len(r) > 1 => a \in Prefixes(Folder(t)) /\ u # <<>>
                      /\ Len(r) >= 1
    BY <1>1, <1>2, <1>3
  <2>1. a \in Prefixes(t)
    BY StepDown
  <2>2. a \in Seq(Name) /\ x \in Name /\ u \in Seq(Name)
    BY StepDown
  <2>3. a \o u = t
    BY StepDown
  <2>4. Len(r) = 1 => a = t /\ u = <<>>
    BY StepDown
  <2>5. Len(r) > 1 => a \in Prefixes(Folder(t)) /\ u # <<>>
    BY StepDown
  <2>6. Len(r) >= 1
    BY StepDown
  <2> QED
    BY <2>1, <2>2, <2>3, <2>4, <2>5, <2>6
<1>5. Len(r) > 1 => a \in Folders
  <2>1. t \in Path => Prefixes(Folder(t)) \subseteq Folders
    BY FoldersAre
  <2>2. t \in Folders => Prefixes(t) \subseteq Folders
    BY FoldersAre
  <2> QED
    BY <1>1, <1>4, <2>1, <2>2, TargetIs
<1>6. ~(Len(r) > 1) => Len(r) = 1
  <2>1. Len(r) \in Nat
    OBVIOUS
  <2>2. PICK n \in Nat : n = Len(r) /\ n >= 1
    BY <1>4, <2>1
  <2> QED
    BY <2>2
<1>7. Ahead(loc, k) = a
  BY <1>1, <1>3 DEF Ahead
<1> QED
  BY <1>1, <1>3, <1>4, <1>5, <1>6, <1>7

LEMMA FoundIs ==
  ASSUME StorageInv, NEW k, CallOK(k), NEW loc, Tree(loc), k.at \in Nodes, k.rest # <<>>,
         loc[k.at] \o k.rest = Target(k), k.step \in {"source", "walk"},
         k.step = "source" => k.op \in {"rename", "copy"}
  PROVE  Found(k) = At(loc, Ahead(loc, k))
<1>1. PICK x \in Name : x = Head(k.rest)
  BY AheadIs
<1>2. {i \in Children(k.at) : drive[i].name = x} = At(loc, Ahead(loc, k))
  BY <1>1, ChildIs DEF Ahead
<1>3. \A folder \in BOOLEAN :
        Matches(k.at, x, folder) = {i \in At(loc, Ahead(loc, k)) : drive[i].folder = folder}
  BY <1>2 DEF Matches
<1>4. \A i \in At(loc, Ahead(loc, k)) :
        /\ drive[i].folder \in BOOLEAN
        /\ drive[i].folder <=> Ahead(loc, k) \in Folders
  BY TreeIs DEF At
<1>5. ASSUME ~(Len(k.rest) > 1)
      PROVE  /\ Len(k.rest) = 1
             /\ k.step = "walk" => (k.op \in ToFolder <=> Ahead(loc, k) \in Folders)
  <2>1. Len(k.rest) = 1 /\ Ahead(loc, k) = Target(k)
    BY <1>5, AheadIs
  <2>2. /\ k.op \in Op
        /\ k.op \in {"upload", "download", "delete"} => k.path \in Path
        /\ k.op \in {"rename", "copy"} => k.to \in Path
        /\ k.op \in {"create_folder", "list"} => k.path \in Folders
    BY DEF CallOK, Carries, Call
  <2> QED
    BY <2>1, <2>2, FoldersAre DEF Target, ToFolder, Op
<1>6. CASE Len(k.rest) > 1
  <2>1. Ahead(loc, k) \in Folders /\ Len(k.rest) # 1
    <3>1. Len(k.rest) \in Nat
      BY DEF CallOK, Carries, Call
    <3>2. PICK n \in Nat : n = Len(k.rest)
      BY <3>1
    <3>3. Len(k.rest) # 1
      <4>1. \A m \in Nat : m > 1 => m # 1
        OBVIOUS
      <4> QED
        BY <1>6, <3>1, <4>1
    <3> QED
      BY <1>6, <3>3, AheadIs
  <2>2. Found(k) = Matches(k.at, x, TRUE)
    BY <1>1, <2>1 DEF Found
  <2> QED
    BY <1>3, <1>4, <2>1, <2>2
<1>7. CASE ~(Len(k.rest) > 1)
  <2>1. k.step = "source" =>
          Found(k) = Matches(k.at, x, TRUE) \union Matches(k.at, x, FALSE)
    BY <1>1, <1>5, <1>7 DEF Found
  <2>2. k.step = "walk" =>
          Found(k) = IF k.op \in ToFolder THEN Matches(k.at, x, TRUE)
                                          ELSE Matches(k.at, x, FALSE)
    BY <1>1, <1>5, <1>7 DEF Found
  <2> QED
    BY <1>3, <1>4, <1>5, <1>7, <2>1, <2>2
<1> QED
  BY <1>6, <1>7

\* A step of call c changes its own files only, and makes no folder but one that is
\* not there yet.
Only(c, loc, lo) ==
  /\ \A i \in Live : loc[i] \notin Uses(call[c]) =>
       i \in Live' /\ lo[i] = loc[i] /\ drive'[i] = drive[i]
  /\ \A i \in Live' :
       \/ i \in Live /\ lo[i] = loc[i]
       \/ lo[i] \in Uses(call[c])
       \/ lo[i] \in Prefixes(Dest(call[c])) /\ At(loc, lo[i]) = {}
  /\ \A p \in Path : p \notin Uses(call[c]) => kept'[p] = kept[p]
  /\ \A p \in Path : NoItem \in kept'[p] => NoItem \in kept[p]

\* What is not of call c stays where it is.
LEMMA OthersStay ==
  ASSUME StorageInv, StorageInv', NEW loc, Tree(loc), NEW lo, Tree(lo)',
         NEW c \in Caller, CallOK(call[c]), Only(c, loc, lo)
  PROVE  /\ \A p \in Path : p \notin Uses(call[c]) =>
              /\ At(lo, p)' = At(loc, p)
              /\ \A i \in At(loc, p) : drive'[i] = drive[i]
         /\ \A n \in Nodes : loc[n] \notin Uses(call[c]) =>
              n \in Nodes' /\ lo[n] = loc[n]
         /\ \A q \in Folders : At(loc, q) \subseteq At(lo, q)'
<1>1. \A q \in Prefixes(Dest(call[c])) : q \notin Path
  BY TargetIs, FoldersAre
<1>2. ASSUME NEW p \in Path, p \notin Uses(call[c])
      PROVE  /\ At(lo, p)' = At(loc, p)
             /\ \A i \in At(loc, p) : drive'[i] = drive[i]
  BY <1>1, <1>2 DEF Only, At
<1>3. ASSUME NEW n \in Nodes, loc[n] \notin Uses(call[c])
      PROVE  n \in Nodes' /\ lo[n] = loc[n]
  BY <1>3 DEF Only, Nodes, Tree
<1>4. \A q \in Folders : At(loc, q) \subseteq At(lo, q)'
  BY FoldersAre DEF Only, At, Uses
<1> QED
  BY <1>2, <1>3, <1>4

\* Another call is as far as it was.
LEMMA OtherCallsGoOn ==
  ASSUME StorageInv, StorageInv', client = "GoogleDrive", raced = {},
         NEW loc, DriveOK(loc), NEW lo, Tree(lo)',
         NEW c \in Caller, Running(c), Only(c, loc, lo),
         NEW d \in Caller, d # c, Running(d), NEW j, j = call[d]
  PROVE  Walking(lo, j)' /\ Owing(lo, j)'
<1>1. CallOK(j) /\ CallOK(call[c]) /\ Walking(loc, j) /\ Owing(loc, j) /\ Tree(loc)
  BY CallKnown DEF DriveOK
<1>2. {j.path, j.to} \intersect Uses(call[c]) = {}
  <2>1. Aware(j, call[c])
    BY DEF StorageInv, CallsInv
  <2>2. Uses(j) \intersect Uses(call[c]) = {}
    BY <2>1 DEF Aware, LooksFirst
  <2> QED
    BY <2>2 DEF Uses
<1>3. /\ j.path \in Path => j.path \notin Uses(call[c])
      /\ j.to \in Path => j.to \notin Uses(call[c])
      /\ j.op \in {"upload", "download", "delete", "rename", "copy"} => j.path \in Path
      /\ j.op \in {"rename", "copy"} => j.to \in Path
  BY <1>1, <1>2 DEF CallOK, Carries
<1>4. PICK s, r, t \in Seq(Name) :
        s = loc[j.at] /\ r = j.rest /\ t = Target(j) /\ t = s \o r /\ j.at \in Nodes
  <2>1. j.rest \in Seq(Name)
    BY <1>1 DEF CallOK, Carries, Call
  <2>2. loc[j.at] \in Seq(Name)
    BY <1>1, TreeIs DEF Walking
  <2>3. Target(j) \in Seq(Name)
    BY <1>1, TargetIs
  <2> QED
    BY <1>1, <2>1, <2>2, <2>3 DEF Walking
<1>5. s \in Path => s = j.path
  <2>1. s = <<>> \/ s \in Prefixes(t)
    BY <1>4, StartIs
  <2> QED
    BY <1>1, <1>4, <2>1, TargetIs, FoldersAre
<1>6. j.at \in Nodes' /\ lo[j.at] = loc[j.at]
  <2>1. loc[j.at] \notin Uses(call[c])
    BY <1>3, <1>4, <1>5 DEF Uses
  <2> QED
    BY <1>1, <1>4, <2>1 DEF Only, Nodes, Tree
<1>7. ASSUME j.step = "create"
      PROVE  At(lo, Ahead(lo, j))' = {}
  <2>1. PICK q : q = Ahead(loc, j)
    OBVIOUS
  <2>2. Ahead(lo, j) = q
    BY <1>6, <2>1 DEF Ahead
  <2>3. At(loc, q) = {} /\ j.rest # <<>>
    BY <1>1, <1>7, <2>1 DEF Walking, CallOK, Carries
  <2>4. q \in Prefixes(Target(j))
    BY <1>1, <2>1, <2>3, AheadIs DEF Walking
  <2>5. q \in Path => q \notin Uses(call[c])
    BY <1>1, <1>3, <2>4, TargetIs
  <2>6. ~(q \in Prefixes(Dest(call[c])))
    <3> SUFFICES ASSUME q \in Prefixes(Dest(call[c]))
                 PROVE  FALSE
      OBVIOUS
    <3>1. q \in Folders
      BY <1>1, TargetIs, FoldersAre
    <3>2. q \in Prefixes(Dest(j))
      BY <1>1, <1>7, <2>4, <3>1, TargetIs
    <3>3. At(loc, q) # {}
      BY <3>2 DEF DriveOK, Ordered
    <3> QED
      BY <2>3, <3>3
  <2> QED
    BY <2>2, <2>3, <2>5, <2>6 DEF At, Only, Uses
<1>8. ASSUME j.op \in {"rename", "copy"}, j.step # "source"
      PROVE  j.item \in Live' /\ lo[j.item] = j.path
  BY <1>1, <1>3, <1>8 DEF Walking, Only, CallOK, Carries
<1>9. Walking(lo, j)'
  BY <1>1, <1>6, <1>7, <1>8 DEF Walking
<1>10. \A p \in Path : p \in {j.path, j.to} =>
         /\ kept'[p] = kept[p] /\ At(lo, p)' = At(loc, p)
         /\ \A i \in At(loc, p) : drive'[i] = drive[i]
  <2> SUFFICES ASSUME NEW p \in Path, p \in {j.path, j.to}
               PROVE  /\ kept'[p] = kept[p] /\ At(lo, p)' = At(loc, p)
                      /\ \A i \in At(loc, p) : drive'[i] = drive[i]
    OBVIOUS
  <2>1. p \notin Uses(call[c])
    BY <1>3
  <2>2. kept'[p] = kept[p]
    BY <2>1 DEF Only
  <2>3. At(lo, p)' = At(loc, p) /\ \A i \in At(loc, p) : drive'[i] = drive[i]
    BY <1>1, <2>1, OthersStay
  <2> QED
    BY <2>2, <2>3
<1>11. j.op = "list" => \A p \in j.must : Folder(p) = j.path /\ NoItem \notin kept'[p]
  BY <1>1 DEF Owing, Only, CallOK, Carries, Call
<1>12. Owing(lo, j)'
  BY <1>1, <1>3, <1>10, <1>11 DEF Owing
<1> QED
  BY <1>9, <1>12

\* A step of call c keeps what there is on the drive.
LEMMA StepKeeps ==
  ASSUME StorageInv, StorageInv', client = "GoogleDrive", raced = {},
         NEW loc, DriveOK(loc), NEW lo, Tree(lo)',
         NEW c \in Caller, Running(c), Only(c, loc, lo),
         \A p \in Path : p \in Uses(call[c]) => FileOK(lo, p)',
         NEW k, call' = [call EXCEPT ![c] = k],
         k = NoCall \/ (Keeps(k, call[c]) /\ Walking(lo, k)' /\ Owing(lo, k)')
  PROVE  DriveOK(lo)'
<1>1. CallOK(call[c]) /\ Tree(loc) /\ DOMAIN call = Caller
  BY CallKnown DEF DriveOK, StorageInv, CallsInv
<1>2. call'[c] = k /\ \A d \in Caller : d # c => call'[d] = call[d]
  BY <1>1
<1>3. ASSUME NEW p \in Path
      PROVE  FileOK(lo, p)'
  <2>1. CASE p \in Uses(call[c])
    BY <2>1
  <2>2. CASE p \notin Uses(call[c])
    <3>1. At(lo, p)' = At(loc, p) /\ (\A i \in At(loc, p) : drive'[i] = drive[i])
          /\ kept'[p] = kept[p]
      BY <1>1, <2>2, OthersStay DEF Only
    <3> QED
      BY <3>1 DEF DriveOK, FileOK
  <2> QED
    BY <2>1, <2>2
<1>4. ASSUME NEW d \in Caller, Running(d)'
      PROVE  Walking(lo, call[d])' /\ Owing(lo, call[d])'
  <2>1. PICK j : j = call'[d]
    OBVIOUS
  <2>2. Walking(lo, j)' /\ Owing(lo, j)'
    <3>1. CASE d = c
      BY <1>2, <1>4, <2>1, <3>1 DEF Running
    <3>2. CASE d # c
      <4>1. Running(d) /\ j = call[d]
        BY <1>2, <1>4, <2>1, <3>2 DEF Running
      <4> QED
        BY <3>2, <4>1, OtherCallsGoOn
    <3> QED
      BY <3>1, <3>2
  <2> QED
    BY <2>1, <2>2 DEF Walking, Owing
<1>5. Ordered(lo)'
  <2>1. \A d \in Caller : Running(d)' => Running(d) /\ Dest(call'[d]) = Dest(call[d])
    BY <1>2 DEF Running, Keeps, Dest
  <2>2. \A d \in Caller : Running(d) => Prefixes(Dest(call[d])) \subseteq Folders
    <3> TAKE d \in Caller
    <3>1. Running(d) => Dest(call[d]) \in Folders
      BY CallKnown, TargetIs
    <3> QED
      BY <3>1, FoldersAre
  <2>3. ASSUME NEW a \in Caller, NEW b \in Caller, a # b, Running(a)', Running(b)',
               NEW x, x = Dest(call'[a]), NEW y, y = Dest(call'[b]),
               NEW q \in Prefixes(x) \intersect Prefixes(y)
        PROVE  At(lo, q)' # {}
    <3>1. /\ Running(a) /\ Running(b) /\ x = Dest(call[a]) /\ y = Dest(call[b])
      BY <2>1, <2>3
    <3>2. At(loc, q) # {} /\ q \in Folders
      BY <2>2, <2>3, <3>1 DEF DriveOK, Ordered
    <3> QED
      BY <1>1, <3>2, OthersStay
  <2>4. ASSUME NEW a \in Caller, NEW b \in Caller, a # b, Running(a)', Running(b)',
               NEW q, (q \in Prefixes(Dest(call[a])) \intersect Prefixes(Dest(call[b])))'
        PROVE  At(lo, q)' # {}
    <3>1. PICK x, y : x = Dest(call'[a]) /\ y = Dest(call'[b])
      OBVIOUS
    <3>2. q \in Prefixes(x) \intersect Prefixes(y)
      BY <2>4, <3>1 DEF Prefixes, Dest
    <3> QED
      BY <2>3, <2>4, <3>1, <3>2
  <2> QED
    BY <2>4 DEF Ordered
<1> QED
  BY <1>3, <1>4, <1>5 DEF DriveOK

LEMMA AgainWalks ==
  ASSUME StorageInv, client = "GoogleDrive", NEW k, CallOK(k), NEW lo, Tree(lo)',
         NEW j, j = Again(k)
  PROVE  j = NoCall \/ (Keeps(j, k) /\ Walking(lo, j)')
<1> SUFFICES ASSUME j # NoCall
             PROVE  Keeps(j, k) /\ Walking(lo, j)'
  OBVIOUS
<1>1. /\ k \in Call
      /\ k.op \in {"rename", "copy"} => k.path \in Path
  BY DEF CallOK, Carries
<1>2. /\ Keeps(j, k) /\ j.step = FirstStep(k.op) /\ j.rest = k.path /\ j.at = Root
  <2>1. k.tries # 1
    BY DEF Again
  <2> QED
    BY <1>1, <2>1 DEF Again, Keeps, Call
<1>3. PICK p \in Seq(Name) : p = k.path
  BY <1>1, FoldersAre DEF Call
<1>4. lo[Root] \o p = p
  BY <1>3, AppendIs DEF Tree
<1>5. Target(j) = p
  BY <1>2, <1>3 DEF Target, FirstStep, Keeps
<1>6. p = <<>> => p \notin Path
  BY StorageAssumption
<1> QED
  BY <1>1, <1>2, <1>3, <1>4, <1>5, <1>6 DEF Walking, Nodes, Keeps, FirstStep

LEMMA OwingKept ==
  ASSUME NEW j, NEW k, Keeps(j, k), NEW lo, Owing(lo, k)'
  PROVE  Owing(lo, j)'
BY DEF Keeps, Owing

\* The call of c becomes k, or its answer is lost.
LEMMA OutcomeIs ==
  ASSUME StorageInv, client = "GoogleDrive", NEW c \in Caller, Running(c),
         NEW lo, Tree(lo)', NEW k,
         Becomes(c, k) \/ Becomes(c, Again(call[c])) \/ Becomes(c, NoCall),
         k = NoCall \/ (Keeps(k, call[c]) /\ Walking(lo, k)')
  PROVE  \E j : /\ call' = [call EXCEPT ![c] = j]
                /\ j = NoCall \/ (Keeps(j, call[c]) /\ Walking(lo, j)')
<1>1. CallOK(call[c])
  BY CallKnown
<1>2. Becomes(c, Again(call[c])) =>
        \E j : /\ call' = [call EXCEPT ![c] = j]
               /\ j = NoCall \/ (Keeps(j, call[c]) /\ Walking(lo, j)')
  <2>1. PICK j : j = Again(call[c])
    OBVIOUS
  <2>2. j = NoCall \/ (Keeps(j, call[c]) /\ Walking(lo, j)')
    BY <1>1, <2>1, AgainWalks
  <2> QED
    BY <2>1, <2>2 DEF Becomes
<1> QED
  BY <1>2 DEF Becomes

\* A request that does not change the drive.
LEMMA DriveStays ==
  ASSUME StorageInv, StorageInv', client = "GoogleDrive", raced = {}, NEW loc, DriveOK(loc),
         NEW c \in Caller, Running(c), UNCHANGED <<drive, kept>>, NEW k,
         Becomes(c, k) \/ Becomes(c, Again(call[c])) \/ Becomes(c, NoCall),
         k = NoCall \/ (Keeps(k, call[c]) /\ Walking(loc, k))
  PROVE  DriveOK(loc)'
<1>1. Tree(loc)'
  BY DEF DriveOK, Tree, Live, Nodes
<1>2. Walking(loc, k) => Walking(loc, k)'
  BY DEF Walking, Nodes, Live, At
<1>3. Only(c, loc, loc)
  BY DEF Only, Live
<1>4. \A p \in Path : FileOK(loc, p)'
  BY DEF DriveOK, FileOK, At, Live
<1>5. PICK i : i = call[c]
  OBVIOUS
<1>6. PICK j : /\ call' = [call EXCEPT ![c] = j]
               /\ j = NoCall \/ (Keeps(j, i) /\ Walking(loc, j)')
  BY <1>1, <1>2, <1>5, OutcomeIs
<1>7. Owing(loc, i)'
  BY <1>5 DEF DriveOK, Owing, At, Live
<1> QED
  BY <1>1, <1>3, <1>4, <1>5, <1>6, <1>7, OwingKept, StepKeeps

\* A request that changes the files of its call, or makes a folder.
LEMMA DriveChanges ==
  ASSUME StorageInv, StorageInv', client = "GoogleDrive", raced = {}, NEW loc, DriveOK(loc),
         NEW lo, Tree(lo)', NEW c \in Caller, Running(c), Only(c, loc, lo),
         \A p \in Path : p \in Uses(call[c]) => FileOK(lo, p)',
         NEW i, i = call[c], NEW k,
         \/ Becomes(c, NoCall)
         \/ (Becomes(c, k) \/ Becomes(c, Again(i))) /\ Owing(lo, i)',
         k = NoCall \/ (Keeps(k, i) /\ Walking(lo, k)')
  PROVE  DriveOK(lo)'
<1>1. CASE Becomes(c, NoCall)
  BY <1>1, StepKeeps DEF Becomes
<1>2. CASE (Becomes(c, k) \/ Becomes(c, Again(i))) /\ Owing(lo, i)'
  <2>1. PICK j : /\ call' = [call EXCEPT ![c] = j]
                 /\ j = NoCall \/ (Keeps(j, i) /\ Walking(lo, j)')
    BY <1>2, OutcomeIs
  <2> QED
    BY <1>2, <2>1, OwingKept, StepKeeps
<1> QED
  BY <1>1, <1>2

\* What holds while the client of Google Drive was not mistaken and no two calls
\* raced.
DriveHolds == ~stale /\ unlisted = {} /\ \E loc : DriveOK(loc)

DriveInv ==
  client = "GoogleDrive" =>
    /\ folders = {} /\ \A p \in Path : objects[p] = <<>>
    /\ ~mistaken /\ raced = {} => DriveHolds

\* The folder of an item is a folder.
LEMMA ParentIs ==
  ASSUME StorageInv, NEW loc, Tree(loc), NEW i \in Live
  PROVE  loc[drive[i].parent] \in Folders
<1>1. PICK s \in Seq(Name), x \in Name :
        s = loc[drive[i].parent] /\ x = drive[i].name /\ loc[i] = Append(s, x)
  <2>1. drive[i].parent \in Nodes /\ drive[i].name \in Name
    BY TreeIs DEF Tree
  <2>2. loc[drive[i].parent] \in Seq(Name)
    BY <2>1, TreeIs
  <2> QED
    BY <2>1, <2>2 DEF Tree
<1>2. Folder(loc[i]) = s
  BY <1>1, AppendIs
<1>3. loc[i] \in Path \union Folders /\ loc[i] # <<>>
  BY TreeIs
<1>4. loc[i] \in Path => Folder(loc[i]) \in Folders
  BY FoldersAre
<1>5. ASSUME loc[i] \in Folders
      PROVE  Folder(loc[i]) \in Folders
  <2>1. PICK t \in Seq(Name) : t = loc[i]
    BY <1>3, FoldersAre
  <2>2. PICK g \in Seq(Name) : g = Folder(t)
    BY PrefixesAre
  <2>3. g = <<>> \/ g \in Prefixes(t)
    <3>1. t = g \o <<Last(t)>>
      BY <1>3, <2>1, <2>2 DEF Folder, Last
    <3>2. <<Last(t)>> \in Seq(Name)
      BY <1>3, <2>1 DEF Last
    <3> QED
      BY <3>1, <3>2, StartIs
  <2>4. <<>> \in Folders
    BY DEF Folders
  <2> QED
    BY <1>5, <2>1, <2>2, <2>3, <2>4, FoldersAre
<1> QED
  BY <1>1, <1>2, <1>3, <1>4, <1>5

\* Where a call is that has no names left.
LEMMA ArrivedIs ==
  ASSUME StorageInv, NEW loc, DriveOK(loc), NEW c \in Caller, Running(c), NEW j, j = call[c],
         j.rest = <<>>
  PROVE  /\ CallOK(j) /\ j \in Call /\ Walking(loc, j) /\ Owing(loc, j) /\ Tree(loc)
         /\ j.at \in Nodes /\ loc[j.at] = Target(j)
<1>1. CallOK(j) /\ j \in Call /\ Walking(loc, j) /\ Owing(loc, j) /\ Tree(loc)
  BY CallKnown DEF DriveOK, CallOK, Carries
<1>2. j.at \in Nodes /\ loc[j.at] \o j.rest = Target(j)
  BY <1>1 DEF Walking
<1>3. PICK s \in Seq(Name) : s = loc[j.at]
  BY <1>1, <1>2, TreeIs
<1>4. s \o <<>> = s
  OBVIOUS
<1> QED
  BY <1>1, <1>2, <1>3, <1>4

LEMMA LearnsHolds ==
  ASSUME StorageInv, StorageInv', client = "GoogleDrive", raced = {}, DriveHolds,
         NEW loc, DriveOK(loc), NEW c \in Caller, Running(c), NEW k, Learns(c, k),
         k = NoCall \/ (Keeps(k, call[c]) /\ Walking(loc, k))
  PROVE  DriveHolds'
<1>1. /\ Becomes(c, k) \/ Becomes(c, Again(call[c])) \/ Becomes(c, NoCall)
      /\ UNCHANGED <<drive, kept, stale, unlisted>>
  BY DEF Learns, Answers, IsLost, service, history
<1>2. DriveOK(loc)'
  BY <1>1, DriveStays
<1> QED
  BY <1>1, <1>2 DEF DriveHolds

LEMMA EndsHolds ==
  ASSUME StorageInv, StorageInv', client = "GoogleDrive", raced = {}, DriveHolds,
         NEW c \in Caller,
         (Ends(c) /\ Running(c)) \/ Retries(c) \/ Refused(c)
  PROVE  DriveHolds'
<1>1. /\ Running(c)
      /\ Becomes(c, Again(call[c])) \/ Becomes(c, NoCall)
      /\ UNCHANGED <<drive, kept, stale, unlisted>>
  BY DEF Ends, Retries, Refused, service, history
<1>2. PICK loc : DriveOK(loc)
  BY DEF DriveHolds
<1>3. DriveOK(loc)'
  BY <1>1, <1>2, DriveStays
<1> QED
  BY <1>1, <1>3 DEF DriveHolds

LEMMA FindsHolds ==
  ASSUME StorageInv, StorageInv', client = "GoogleDrive", raced = {}, DriveHolds,
         NEW c \in Caller,
         Finds(c) \/ FindsNothing(c)
  PROVE  DriveHolds'
<1>1. PICK loc : DriveOK(loc)
  BY DEF DriveHolds
<1>2. PICK j : j = call[c]
  OBVIOUS
<1>3. Running(c) /\ j.step = "walk" /\ j.rest # <<>>
  BY <1>2 DEF Finds, FindsNothing, Walks
<1>4. CallOK(j) /\ j \in Call /\ Walking(loc, j) /\ Tree(loc)
  BY <1>1, <1>2, <1>3, CallKnown DEF DriveOK, CallOK, Carries
<1>5. j.at \in Nodes /\ loc[j.at] \o j.rest = Target(j)
  BY <1>4 DEF Walking
<1>6. Found(j) = At(loc, Ahead(loc, j))
  BY <1>3, <1>4, <1>5, FoundIs
<1>7. CASE Finds(c)
  <2>1. PICK i \in At(loc, Ahead(loc, j)) : Learns(c, [j EXCEPT !.at = i, !.rest = Tail(@)])
    BY <1>2, <1>6, <1>7 DEF Finds
  <2>2. PICK k : k = [j EXCEPT !.at = i, !.rest = Tail(@)]
    OBVIOUS
  <2>3. /\ Keeps(k, j) /\ k.step = "walk" /\ k.at = i /\ k.rest = Tail(j.rest)
        /\ k.item = j.item /\ k.op = j.op /\ k.path = j.path
    BY <1>3, <1>4, <2>2 DEF Call, Keeps
  <2>4. i \in Nodes /\ loc[i] = Ahead(loc, j)
    BY <2>1 DEF At, Nodes
  <2>5. Ahead(loc, j) \o Tail(j.rest) = Target(j)
    BY <1>3, <1>4, <1>5, AheadIs
  <2>6. Target(k) = Target(j)
    BY <1>3, <2>3 DEF Target, Keeps
  <2>7. loc[k.at] \o k.rest = Target(k)
    BY <2>3, <2>4, <2>5, <2>6
  <2>8. Walking(loc, k)
    BY <1>3, <1>4, <2>3, <2>4, <2>7 DEF Walking
  <2> QED
    BY <1>1, <1>2, <1>3, <2>1, <2>2, <2>3, <2>8, LearnsHolds
<1>8. CASE FindsNothing(c)
  <2>1. PICK k : k = [j EXCEPT !.step = "create"]
    OBVIOUS
  <2>2. Learns(c, k) /\ Found(j) = {}
    BY <1>2, <1>8, <2>1 DEF FindsNothing
  <2>3. /\ Keeps(k, j) /\ k.step = "create" /\ k.at = j.at /\ k.rest = j.rest
        /\ k.item = j.item /\ k.op = j.op /\ k.path = j.path
    BY <1>3, <1>4, <2>1 DEF Call, Keeps
  <2>4. Target(k) = Target(j) /\ Ahead(loc, k) = Ahead(loc, j)
    BY <1>3, <2>3 DEF Target, Keeps, Ahead
  <2>5. loc[k.at] \o k.rest = Target(k)
    BY <1>5, <2>3, <2>4
  <2>6. Walking(loc, k)
    BY <1>3, <1>4, <1>6, <2>2, <2>3, <2>4, <2>5 DEF Walking
  <2> QED
    BY <1>1, <1>2, <1>3, <2>2, <2>3, <2>6, LearnsHolds
<1> QED
  BY <1>7, <1>8

LEMMA SourceHolds ==
  ASSUME StorageInv, StorageInv', client = "GoogleDrive", raced = {}, DriveHolds,
         NEW c \in Caller,
         FindsSource(c) \/ MissesSource(c)
  PROVE  DriveHolds'
<1>1. PICK loc : DriveOK(loc)
  BY DEF DriveHolds
<1>2. PICK j : j = call[c]
  OBVIOUS
<1>3. Running(c) /\ j.step = "source"
  BY <1>2 DEF FindsSource, MissesSource
<1>4. CallOK(j) /\ j \in Call /\ Walking(loc, j) /\ Tree(loc)
  BY <1>1, <1>2, <1>3, CallKnown DEF DriveOK, CallOK, Carries
<1>5. /\ j.at \in Nodes /\ loc[j.at] \o j.rest = Target(j) /\ j.rest # <<>>
      /\ j.op \in {"rename", "copy"} /\ Target(j) = j.path /\ j.to \in Path
  BY <1>3, <1>4 DEF Walking, Target, CallOK, Carries
<1>6. Found(j) = At(loc, Ahead(loc, j))
  BY <1>3, <1>4, <1>5, FoundIs
<1>7. CASE FindsSource(c)
  <2>1. PICK i \in At(loc, Ahead(loc, j)) :
          Learns(c, IF Len(j.rest) > 1
                      THEN [j EXCEPT !.at = i, !.rest = Tail(@)]
                      ELSE [j EXCEPT !.item = i, !.at = Root, !.step = "walk",
                                     !.rest = Folder(j.to)])
    BY <1>2, <1>6, <1>7 DEF FindsSource
  <2>2. i \in Live /\ i \in Nodes /\ loc[i] = Ahead(loc, j)
    BY <2>1 DEF At, Nodes
  <2>3. CASE Len(j.rest) > 1
    <3>1. PICK k : k = [j EXCEPT !.at = i, !.rest = Tail(@)]
      OBVIOUS
    <3>2. /\ Keeps(k, j) /\ k.step = "source" /\ k.at = i /\ k.rest = Tail(j.rest)
          /\ k.op = j.op /\ k.path = j.path
      BY <1>3, <1>4, <3>1 DEF Call, Keeps
    <3>3. Ahead(loc, j) \o Tail(j.rest) = Target(j) /\ Tail(j.rest) # <<>>
      BY <1>4, <1>5, <2>3, AheadIs
    <3>4. Target(k) = Target(j)
      BY <1>3, <3>2 DEF Target, Keeps
    <3>5. loc[k.at] \o k.rest = Target(k)
      BY <2>2, <3>2, <3>3, <3>4
    <3>6. Walking(loc, k)
      BY <1>5, <2>2, <3>2, <3>3, <3>5 DEF Walking
    <3>7. Learns(c, k)
      BY <2>1, <2>3, <3>1
    <3> QED
      BY <1>1, <1>2, <1>3, <3>2, <3>6, <3>7, LearnsHolds
  <2>4. CASE ~(Len(j.rest) > 1)
    <3>1. PICK k : k = [j EXCEPT !.item = i, !.at = Root, !.step = "walk", !.rest = Folder(j.to)]
      OBVIOUS
    <3>2. /\ Keeps(k, j) /\ k.step = "walk" /\ k.at = Root /\ k.rest = Folder(j.to)
          /\ k.item = i /\ k.op = j.op /\ k.path = j.path /\ k.to = j.to
      BY <1>3, <1>4, <3>1 DEF Call, Keeps
    <3>3. loc[i] = j.path
      BY <1>4, <1>5, <2>2, <2>4, AheadIs
    <3>4. Target(k) = Folder(j.to)
      BY <1>5, <3>2 DEF Target
    <3>5. loc[k.at] \o k.rest = Target(k)
      <4>1. Folder(j.to) \in Seq(Name)
        BY <1>5, FoldersAre
      <4>2. <<>> \o Folder(j.to) = Folder(j.to)
        BY <4>1, AppendIs
      <4>3. loc[Root] = <<>>
        BY <1>4 DEF Tree
      <4> QED
        BY <3>2, <3>4, <4>2, <4>3
    <3>6. Walking(loc, k)
      BY <1>5, <2>2, <3>2, <3>3, <3>5 DEF Walking, Nodes
    <3>7. Learns(c, k)
      BY <2>1, <2>4, <3>1
    <3> QED
      BY <1>1, <1>2, <1>3, <3>2, <3>6, <3>7, LearnsHolds
  <2> QED
    BY <2>3, <2>4
<1>8. CASE MissesSource(c)
  BY <1>3, <1>8, EndsHolds DEF MissesSource
<1> QED
  BY <1>7, <1>8

LEMMA ReadsHold ==
  ASSUME StorageInv, StorageInv', client = "GoogleDrive", raced = {}, DriveHolds,
         NEW c \in Caller,
         OpensSession(c) \/ Downloads(c) \/ CreatesFolder(c) \/ ReadsPage(c) \/ ReadsLastPage(c)
  PROVE  DriveHolds'
<1>1. PICK loc : DriveOK(loc)
  BY DEF DriveHolds
<1>2. PICK j : j = call[c]
  OBVIOUS
<1>3. Running(c) /\ j.step = "walk" /\ j.rest = <<>>
  BY <1>2 DEF OpensSession, Downloads, CreatesFolder, ReadsPage, ReadsLastPage, Arrived, Asks
<1>4. /\ CallOK(j) /\ j \in Call /\ Walking(loc, j) /\ Owing(loc, j) /\ Tree(loc)
      /\ j.at \in Nodes /\ loc[j.at] = Target(j)
  BY <1>1, <1>2, <1>3, ArrivedIs
<1>5. CASE OpensSession(c)
  <2>1. PICK k : k = [j EXCEPT !.step = "send"]
    OBVIOUS
  <2>2. Learns(c, k) /\ j.op = "upload"
    BY <1>2, <1>5, <2>1 DEF OpensSession, Arrived, Asks
  <2>3. /\ Keeps(k, j) /\ k.step = "send" /\ k.at = j.at /\ k.rest = j.rest
        /\ k.op = "upload" /\ k.path = j.path
    BY <1>4, <2>1, <2>2 DEF Call, Keeps
  <2>4. Target(k) = Target(j)
    BY <2>2, <2>3 DEF Target
  <2>5. Walking(loc, k)
    BY <1>3, <1>4, <2>2, <2>3, <2>4 DEF Walking
  <2> QED
    BY <1>1, <1>2, <1>3, <2>2, <2>3, <2>5, LearnsHolds
<1>6. CASE Downloads(c)
  <2>1. j.op = "download" /\ j.at \in Live /\ Delivers(c, drive[j.at].content)
    BY <1>2, <1>6 DEF Downloads, Arrived, Asks
  <2>2. /\ Becomes(c, Again(call[c])) \/ Becomes(c, NoCall)
        /\ UNCHANGED <<drive, kept, unlisted>>
        /\ \/ stale' = stale
           \/ stale' = (stale \/ (Clean(j.path) /\ drive[j.at].content \notin kept[j.path]))
    BY <1>2, <2>1, Zenon DEF Delivers, IsLost, service
  <2>3. loc[j.at] = j.path /\ j.path \in Path
    BY <1>4, <2>1 DEF Target, CallOK, Carries
  <2>4. drive[j.at].content \in kept[j.path]
    BY <1>1, <2>1, <2>3 DEF DriveOK, FileOK, At
  <2>5. ~stale' /\ unlisted' = {}
    <3>1. ~stale /\ unlisted' = {}
      BY <2>2 DEF DriveHolds
    <3>2. CASE stale' = stale
      BY <3>1, <3>2
    <3>3. CASE stale' = (stale \/ (Clean(j.path) /\ drive[j.at].content \notin kept[j.path]))
      <4>1. ~(stale \/ (Clean(j.path) /\ drive[j.at].content \notin kept[j.path]))
        BY <2>4, <3>1
      <4> QED
        BY <3>1, <3>3, <4>1, Zenon
    <3> QED
      BY <2>2, <3>2, <3>3
  <2>6. DriveOK(loc)'
    BY <1>1, <1>3, <2>2, DriveStays
  <2> QED
    BY <2>5, <2>6 DEF DriveHolds
<1>7. CASE CreatesFolder(c)
  BY <1>3, <1>7, EndsHolds DEF CreatesFolder
<1>8. CASE ReadsPage(c)
  <2>1. PICK page : Learns(c, [j EXCEPT !.seen = @ \union page])
    BY <1>2, <1>8 DEF ReadsPage
  <2>2. PICK k : k = [j EXCEPT !.seen = @ \union page]
    OBVIOUS
  <2>3. /\ Keeps(k, j) /\ k.step = j.step /\ k.at = j.at /\ k.rest = j.rest
        /\ k.op = j.op /\ k.path = j.path /\ k.item = j.item
    BY <1>4, <2>2 DEF Call, Keeps
  <2>4. Target(k) = Target(j)
    BY <2>3 DEF Target, Keeps
  <2>5. Walking(loc, k)
    BY <1>3, <1>4, <2>3, <2>4 DEF Walking
  <2> QED
    BY <1>1, <1>2, <1>3, <2>1, <2>2, <2>3, <2>5, LearnsHolds
<1>9. CASE ReadsLastPage(c)
  <2>1. PICK page : IsLastPage(j, page) /\ Lists(c, Named(j, j.seen \union page))
    BY <1>2, <1>9 DEF ReadsLastPage
  <2>2. j.op = "list"
    BY <1>2, <1>9 DEF ReadsLastPage, Arrived, Asks
  <2>3. ASSUME NEW p \in j.must
        PROVE  p \in Named(j, j.seen \union page)
    <3>1. p \in Path /\ Folder(p) = j.path /\ NoItem \notin kept[p]
      BY <1>4, <2>2 DEF Owing, Call
    <3>2. PICK i \in Live : loc[i] = p
      BY <1>1, <3>1 DEF DriveOK, FileOK, At
    <3>3. PICK s \in Seq(Name), x \in Name :
            s = loc[drive[i].parent] /\ x = drive[i].name /\ p = Append(s, x)
      <4>1. drive[i].parent \in Nodes /\ drive[i].name \in Name
            /\ loc[i] = Append(loc[drive[i].parent], drive[i].name)
        BY <1>4, TreeIs DEF Tree
      <4>2. loc[drive[i].parent] \in Seq(Name)
        BY <1>4, <4>1, TreeIs
      <4> QED
        BY <3>2, <4>1, <4>2
    <3>4. Folder(p) = s /\ Last(p) = x
      BY <3>3, AppendIs
    <3>5. loc[drive[i].parent] = loc[j.at]
      BY <1>4, <2>2, <3>1, <3>3, <3>4 DEF Target
    <3>6. drive[i].parent = j.at
      BY <1>4, <3>5, TreeIs DEF Tree
    <3>7. i \in j.seen \union page
      BY <2>1, <3>6 DEF IsLastPage, Children
    <3> QED
      BY <3>1, <3>3, <3>4, <3>7 DEF Named
  <2>4. Becomes(c, NoCall) /\ UNCHANGED <<drive, kept, stale>>
        /\ unlisted' = j.must \ Named(j, j.seen \union page)
    BY <1>2, <2>1 DEF Lists, service
  <2>5. ~stale' /\ unlisted' = {}
    BY <2>3, <2>4 DEF DriveHolds
  <2>6. DriveOK(loc)'
    BY <1>1, <1>3, <2>4, DriveStays
  <2> QED
    BY <2>5, <2>6 DEF DriveHolds
<1> QED
  BY <1>5, <1>6, <1>7, <1>8, <1>9

\* A new item at q, where there was none, below node n.
NewAt(loc, n, q, new) ==
  /\ Unused # {} /\ n \in Nodes /\ new \in Item
  /\ new.parent = n /\ q = Append(loc[n], new.name) /\ q \in Path \union Folders
  /\ new.folder <=> q \in Folders
  /\ At(loc, q) = {}
  /\ drive' = [drive EXCEPT ![NewId] = new]

\* That is all that changes.
Added(loc, lo, q, new) ==
  /\ NewId \notin Live /\ Live' = Live \union {NewId} /\ drive'[NewId] = new
  /\ lo[NewId] = q
  /\ \A i \in Nodes : lo[i] = loc[i] /\ i # NewId /\ i \in Nodes'
  /\ \A i \in Live : drive'[i] = drive[i]
  /\ \A r : r # q => At(lo, r)' = At(loc, r)
  /\ At(lo, q)' = {NewId}

LEMMA NewItemIs ==
  ASSUME StorageInv, NEW loc, Tree(loc), NEW n, NEW q, NEW new, NewAt(loc, n, q, new),
         NEW lo, lo = [loc EXCEPT ![NewId] = q]
  PROVE  Tree(lo)' /\ Added(loc, lo, q, new)
<1>1. /\ NewId \in Id /\ NewId \notin Live /\ NewId # Root
      /\ NewId \in Node /\ q \in Seq(Name) /\ drive' = [drive EXCEPT ![NewId] = new]
  BY NewIdIs, StorageAssumption, FoldersAre DEF Live, Node, NewAt
<1>2. /\ drive \in [Id -> Item \union {NoItem}] /\ new # NoItem
      /\ loc \in [Node -> Seq(Name)]
  BY StorageAssumption DEF StorageInv, ServiceType, Tree, NewAt
<1>3. Live' = Live \union {NewId} /\ drive'[NewId] = new /\ \A i \in Live : drive'[i] = drive[i]
  BY <1>1, <1>2 DEF Live
<1>4. lo[NewId] = q /\ lo \in [Node -> Seq(Name)] /\ \A i \in Nodes : i # NewId /\ lo[i] = loc[i]
  BY <1>1, <1>2, TreeIs DEF Nodes
<1>5. Nodes' = Nodes \union {NewId}
  BY <1>3 DEF Nodes
<1>6. ASSUME NEW i \in Live'
      PROVE  /\ drive'[i].parent \in Nodes'
             /\ lo[i] = Append(lo[drive'[i].parent], drive'[i].name)
             /\ drive'[i].folder => lo[i] \in Folders
             /\ ~drive'[i].folder => lo[i] \in Path
  <2>1. CASE i = NewId
    <3>1. new.folder \in BOOLEAN
      BY DEF NewAt, Item
    <3> QED
      BY <1>3, <1>4, <1>5, <2>1, <3>1 DEF NewAt
  <2>2. CASE i \in Live
    <3>1. drive[i].parent \in Nodes
      BY <2>2 DEF Tree
    <3>2. i \in Nodes
      BY <2>2 DEF Nodes
    <3> QED
      BY <1>3, <1>4, <1>5, <2>2, <3>1, <3>2 DEF Tree
  <2> QED
    BY <1>3, <2>1, <2>2
<1>7. \A i \in Live : lo[i] = loc[i] /\ loc[i] # q
  BY <1>4 DEF Nodes, At, NewAt
<1>8. ASSUME NEW i \in Live', NEW k \in Live', lo[i] = lo[k]
      PROVE  i = k
  <2>1. CASE i \in Live /\ k \in Live
    BY <1>7, <1>8, <2>1 DEF Tree
  <2>2. CASE i = NewId /\ k \in Live
    BY <1>4, <1>7, <1>8, <2>2
  <2>3. CASE i \in Live /\ k = NewId
    BY <1>4, <1>7, <1>8, <2>3
  <2> QED
    BY <1>3, <2>1, <2>2, <2>3
<1>9. lo[Root] = <<>>
  BY <1>4 DEF Nodes, Tree
<1>10. Tree(lo)'
  <2>1. \A i, k \in Live' : lo[i] = lo[k] => i = k
    BY <1>8
  <2> QED
    BY <1>4, <1>6, <1>9, <2>1, Zenon DEF Tree
<1>11. (\A r : r # q => At(lo, r)' = At(loc, r)) /\ At(lo, q)' = {NewId}
  <2>1. ASSUME NEW r, r # q
        PROVE  At(lo, r)' = At(loc, r)
    BY <1>3, <1>4, <1>7, <2>1 DEF At
  <2>2. At(lo, q)' = {NewId}
    BY <1>3, <1>4, <1>7 DEF At
  <2> QED
    BY <2>1, <2>2
<1> QED
  BY <1>1, <1>3, <1>4, <1>5, <1>10, <1>11 DEF Added

LEMMA CreatesHolds ==
  ASSUME StorageInv, StorageInv', client = "GoogleDrive", raced = {}, DriveHolds,
         NEW c \in Caller,
         Creates(c)
  PROVE  DriveHolds'
<1>1. PICK loc : DriveOK(loc)
  BY DEF DriveHolds
<1>2. PICK j : j = call[c]
  OBVIOUS
<1>3. PICK new : new = [name |-> Head(j.rest), parent |-> j.at,
                        folder |-> Len(j.rest) > 1 \/ j.op \in ToFolder, content |-> Empty]
  OBVIOUS
<1>4. PICK k : k = [j EXCEPT !.at = NewId, !.rest = Tail(@), !.step = "walk"]
  OBVIOUS
<1>5. /\ Running(c) /\ j.step = "create" /\ Unused # {}
      /\ drive' = [drive EXCEPT ![NewId] = new]
      /\ Answers(c, k) /\ UNCHANGED <<kept, stale, unlisted>>
  BY <1>2, <1>3, <1>4 DEF Creates, Changes, history
<1>6. CallOK(j) /\ j \in Call /\ Walking(loc, j) /\ Owing(loc, j) /\ Tree(loc) /\ j.rest # <<>>
  BY <1>1, <1>2, <1>5, CallKnown DEF DriveOK, CallOK, Carries
<1>7. PICK q, x : q = Ahead(loc, j) /\ x = Head(j.rest)
  OBVIOUS
<1>8. /\ j.at \in Nodes /\ loc[j.at] \o j.rest = Target(j) /\ At(loc, q) = {}
  BY <1>5, <1>6, <1>7 DEF Walking
<1>9. /\ q \in Prefixes(Target(j)) /\ x \in Name /\ q = Append(loc[j.at], x)
      /\ q \o Tail(j.rest) = Target(j)
      /\ Len(j.rest) > 1 => q \in Folders
      /\ ~(Len(j.rest) > 1) => q = Target(j)
  BY <1>6, <1>7, <1>8, AheadIs DEF Ahead
<1>10. /\ q \in Path \union Folders
       /\ q \in Path => q = j.path /\ q = Target(j)
       /\ q \in Folders => q \in Prefixes(Dest(j))
  BY <1>5, <1>6, <1>9, TargetIs
<1>11. new.folder <=> q \in Folders
  <2>1. ~(Len(j.rest) > 1) => (j.op \in ToFolder <=> q \in Folders)
    BY <1>5, <1>6, <1>9, FoldersAre DEF Target, ToFolder, CallOK, Carries, Call, Op
  <2> QED
    BY <1>3, <1>9, <2>1
<1>12. new \in Item /\ new.name = x /\ new.parent = j.at /\ new.content = Empty
  BY <1>3, <1>6, <1>7, <1>8, <1>9, TreeIs DEF Item
<1>13. PICK lo : lo = [loc EXCEPT ![NewId] = q]
  OBVIOUS
<1>14. Tree(lo)' /\ Added(loc, lo, q, new)
  <2>1. NewAt(loc, j.at, q, new)
    BY <1>5, <1>6, <1>8, <1>9, <1>10, <1>11, <1>12 DEF NewAt
  <2> QED
    BY <1>6, <1>13, <2>1, NewItemIs
<1>15. q \in Path => q \in Uses(call[c])
  BY <1>2, <1>10 DEF Uses
<1>16. Only(c, loc, lo)
  BY <1>2, <1>5, <1>8, <1>10, <1>14, <1>15 DEF Only, Nodes, Added
<1>17. ASSUME q \in Path
       PROVE  NoItem \in kept[q] /\ Empty \in kept[q] /\ j.op \in {"upload", "download", "delete"}
  <2>1. NoItem \in kept[q]
    BY <1>1, <1>8, <1>17 DEF DriveOK, FileOK
  <2>2. q = j.path /\ q = Target(j) /\ q \notin Folders
    BY <1>10, <1>17, FoldersAre
  <2>3. j.op \in {"upload", "download", "delete"}
    BY <1>5, <1>6, <2>2, FoldersAre DEF Target, CallOK, Carries, Call, Op
  <2> QED
    BY <1>6, <2>1, <2>2, <2>3 DEF Owing
<1>18. ASSUME NEW p \in Path
       PROVE  FileOK(lo, p)'
  <2>1. CASE p = q
    BY <1>5, <1>12, <1>14, <1>17, <2>1 DEF FileOK, Added
  <2>2. CASE p # q
    <3>1. At(lo, p)' = At(loc, p) /\ \A i \in At(loc, p) : drive'[i] = drive[i]
      BY <1>14, <2>2 DEF At, Added
    <3> QED
      BY <1>1, <1>5, <3>1 DEF FileOK, DriveOK
  <2> QED
    BY <2>1, <2>2
<1>19. /\ Keeps(k, j) /\ k.step = "walk" /\ k.at = NewId /\ k.rest = Tail(j.rest)
       /\ k.op = j.op /\ k.path = j.path /\ k.item = j.item /\ k.to = j.to
  BY <1>4, <1>6 DEF Call, Keeps
<1>20. Walking(lo, k)'
  <2>1. Target(k) = Target(j)
    BY <1>5, <1>19 DEF Target
  <2>2. lo[k.at] \o k.rest = Target(k)
    BY <1>9, <1>14, <1>19, <2>1 DEF Added
  <2>3. k.at \in Nodes'
    BY <1>14, <1>19 DEF Nodes, Added
  <2>4. k.op \in {"rename", "copy"} => k.item \in Live' /\ lo[k.item] = k.path
    BY <1>5, <1>6, <1>14, <1>19 DEF Walking, Nodes, Added
  <2> QED
    BY <1>19, <2>2, <2>3, <2>4 DEF Walking
<1>21. Owing(lo, j)'
  <2>1. j.op \in {"rename", "copy"} =>
          /\ At(lo, j.path)' = At(loc, j.path) /\ At(lo, j.to)' = At(loc, j.to)
          /\ \A i \in At(loc, j.path) \union At(loc, j.to) : drive'[i] = drive[i]
    <3>1. j.op \in {"rename", "copy"} => j.path # q /\ j.to # q
      BY <1>6, <1>10, <1>17 DEF CallOK, Carries
    <3> QED
      BY <1>14, <3>1 DEF At, Added
  <2> QED
    BY <1>5, <1>6, <2>1 DEF Owing
<1>22. Becomes(c, k) \/ Becomes(c, Again(j)) \/ Becomes(c, NoCall)
  BY <1>2, <1>5 DEF Answers, IsLost
<1>23. DriveOK(lo)'
  BY <1>1, <1>2, <1>5, <1>14, <1>16, <1>18, <1>19, <1>20, <1>21, <1>22, DriveChanges
<1> QED
  BY <1>5, <1>23 DEF DriveHolds

\* What a request that completes its call does.
LEMMA CompletesIs ==
  ASSUME NEW c, NEW new, Completes(c, new), NEW j, j = call[c]
  PROVE  /\ drive' = new /\ stale' = stale /\ unlisted' = unlisted
         /\ \/ Becomes(c, NoCall) /\ kept' = Leaves(j)
            \/ (Becomes(c, NoCall) \/ Becomes(c, Again(j))) /\ kept' = kept
BY DEF Completes, Succeeds, IsLost

LEMMA UploadsHolds ==
  ASSUME StorageInv, StorageInv', client = "GoogleDrive", raced = {}, DriveHolds,
         NEW c \in Caller,
         Uploads(c) \/ SendsChunks(c)
  PROVE  DriveHolds'
<1>1. PICK loc : DriveOK(loc)
  BY DEF DriveHolds
<1>2. PICK j : j = call[c]
  OBVIOUS
<1>3. /\ Running(c) /\ j.op = "upload" /\ j.step \in {"walk", "send"} /\ j.at \in Live
      /\ Completes(c, Filled(j))
  BY <1>2 DEF Uploads, SendsChunks, Arrived, Asks
<1>4. j.rest = <<>>
  <2>1. Walking(loc, j)
    BY <1>1, <1>2, <1>3 DEF DriveOK
  <2> QED
    BY <1>2, <1>3, <2>1 DEF Uploads, SendsChunks, Arrived, Asks, Walking
<1>5. /\ CallOK(j) /\ j \in Call /\ Walking(loc, j) /\ Owing(loc, j) /\ Tree(loc)
      /\ j.at \in Nodes /\ loc[j.at] = Target(j)
  BY <1>1, <1>2, <1>3, <1>4, ArrivedIs
<1>6. PICK n, p : n = j.at /\ p = j.path
  OBVIOUS
<1>7. /\ n \in Live /\ p \in Path /\ loc[n] = p /\ p \in Uses(call[c]) /\ Uses(call[c]) = {p}
      /\ j.content \in Content /\ j.content # NoItem
      /\ kept[p] \intersect ({j.content} \union j.others) = {j.content}
  <2>1. j.content \in kept[p] /\ j.others = {}
    BY <1>3, <1>5, <1>6 DEF Owing
  <2>2. kept[p] \intersect ({j.content} \union j.others) = {j.content}
    BY <2>1
  <2>3. Uses(call[c]) = {p} /\ p \in Path /\ loc[n] = p /\ n \in Live
    BY <1>2, <1>3, <1>5, <1>6 DEF CallOK, Carries, Target, Uses
  <2> QED
    BY <1>3, <1>5, <2>2, <2>3, StorageAssumption DEF CallOK
<1>8. /\ drive' = [drive EXCEPT ![n].content = j.content]
      /\ stale' = stale /\ unlisted' = unlisted
      /\ \/ Becomes(c, NoCall) /\ kept' = [kept EXCEPT ![p] = {j.content}]
         \/ (Becomes(c, NoCall) \/ Becomes(c, Again(j))) /\ kept' = kept
  BY <1>2, <1>3, <1>6, <1>7, CompletesIs DEF Filled, Leaves
<1>9. /\ Live' = Live /\ drive'[n].content = j.content
      /\ \A i \in Live : i # n => drive'[i] = drive[i]
      /\ \A i \in Live : /\ drive'[i].name = drive[i].name
                         /\ drive'[i].parent = drive[i].parent
                         /\ drive'[i].folder = drive[i].folder
  <2>1. drive \in [Id -> Item \union {NoItem}] /\ drive[n] \in Item
    BY <1>5, <1>7, TreeIs DEF StorageInv, ServiceType
  <2>2. [drive[n] EXCEPT !.content = j.content] \in Item
    BY <1>7, <2>1 DEF Item
  <2>3. n \in Id /\ drive' = [drive EXCEPT ![n] = [drive[n] EXCEPT !.content = j.content]]
    BY <1>7, <1>8 DEF Live
  <2>4. drive'[n] # NoItem /\ \A i \in Id : i # n => drive'[i] = drive[i]
    BY <2>1, <2>2, <2>3, StorageAssumption
  <2>5. Live' = Live
    BY <1>7, <2>4 DEF Live
  <2> QED
    BY <1>7, <2>1, <2>3, <2>4, <2>5 DEF Live, Item
<1>10. Tree(loc)'
  <2>1. Nodes' = Nodes
    BY <1>9 DEF Nodes
  <2> QED
    BY <1>5, <1>9, <2>1 DEF Tree
<1>11. kept \in [Path -> SUBSET Left] /\ \A q \in Path : q # p => kept'[q] = kept[q]
  BY <1>8 DEF StorageInv, HistoryType
<1>12. \A q \in Path : NoItem \in kept'[q] => NoItem \in kept[q]
  BY <1>7, <1>8, <1>11
<1>13. Only(c, loc, loc)
  BY <1>7, <1>9, <1>11, <1>12 DEF Only
<1>14. FileOK(loc, p)'
  <2>1. At(loc, p)' = {n}
    BY <1>5, <1>7, <1>9 DEF At, Tree
  <2>2. j.content \in kept'[p]
    BY <1>7, <1>8, <1>11
  <2> QED
    BY <1>9, <2>1, <2>2 DEF FileOK
<1>15. ASSUME kept' = kept
       PROVE  Owing(loc, j)'
  BY <1>3, <1>5, <1>15 DEF Owing
<1>16. DriveOK(loc)'
  <2>1. \/ Becomes(c, NoCall)
        \/ (Becomes(c, NoCall) \/ Becomes(c, Again(j))) /\ Owing(loc, j)'
    BY <1>8, <1>15
  <2>2. \A q \in Path : q \in Uses(call[c]) => FileOK(loc, q)'
    BY <1>7, <1>14
  <2> QED
    BY <1>1, <1>2, <1>3, <1>10, <1>13, <2>1, <2>2, DriveChanges
<1> QED
  BY <1>8, <1>16 DEF DriveHolds

LEMMA DeletesHolds ==
  ASSUME StorageInv, StorageInv', client = "GoogleDrive", raced = {}, DriveHolds,
         NEW c \in Caller,
         Deletes(c)
  PROVE  DriveHolds'
<1>1. PICK loc : DriveOK(loc)
  BY DEF DriveHolds
<1>2. PICK j : j = call[c]
  OBVIOUS
<1>3. /\ Running(c) /\ j.op = "delete" /\ j.step = "walk" /\ j.rest = <<>> /\ j.at \in Live
      /\ Completes(c, [drive EXCEPT ![j.at] = NoItem])
  BY <1>2 DEF Deletes, Arrived, Asks
<1>5. /\ CallOK(j) /\ j \in Call /\ Walking(loc, j) /\ Owing(loc, j) /\ Tree(loc)
      /\ j.at \in Nodes /\ loc[j.at] = Target(j)
  BY <1>1, <1>2, <1>3, ArrivedIs
<1>6. PICK n, p : n = j.at /\ p = j.path
  OBVIOUS
<1>7. /\ n \in Live /\ p \in Path /\ loc[n] = p /\ p \in Uses(call[c]) /\ Uses(call[c]) = {p}
      /\ kept[p] \intersect ({NoItem} \union j.others) = {NoItem}
  <2>1. NoItem \in kept[p] /\ j.others = {}
    BY <1>3, <1>5, <1>6 DEF Owing
  <2>2. kept[p] \intersect ({NoItem} \union j.others) = {NoItem}
    BY <2>1
  <2>3. Uses(call[c]) = {p} /\ p \in Path /\ loc[n] = p /\ n \in Live
    BY <1>2, <1>3, <1>5, <1>6 DEF CallOK, Carries, Target, Uses
  <2> QED
    BY <2>2, <2>3
<1>8. /\ drive' = [drive EXCEPT ![n] = NoItem]
      /\ stale' = stale /\ unlisted' = unlisted
      /\ \/ Becomes(c, NoCall) /\ kept' = [kept EXCEPT ![p] = {NoItem}]
         \/ (Becomes(c, NoCall) \/ Becomes(c, Again(j))) /\ kept' = kept
  BY <1>2, <1>3, <1>6, <1>7, CompletesIs DEF Leaves
<1>9. Live' = Live \ {n} /\ \A i \in Live' : drive'[i] = drive[i]
  BY <1>7, <1>8 DEF Live, StorageInv, ServiceType
<1>10. Tree(loc)'
  <2>1. n # Root /\ Nodes' = Nodes \ {n}
    BY <1>5, <1>7, <1>9, TreeIs DEF Nodes
  <2>2. ASSUME NEW i \in Live'
        PROVE  drive[i].parent # n
    BY <1>5, <1>7, <1>9, ParentIs, FoldersAre
  <2> QED
    BY <1>5, <1>9, <2>1, <2>2 DEF Tree
<1>11. kept \in [Path -> SUBSET Left] /\ \A q \in Path : q # p => kept'[q] = kept[q]
  BY <1>8 DEF StorageInv, HistoryType
<1>12. \A q \in Path : NoItem \in kept'[q] => NoItem \in kept[q]
  BY <1>7, <1>8, <1>11
<1>13. Only(c, loc, loc)
  BY <1>7, <1>9, <1>11, <1>12 DEF Only
<1>14. FileOK(loc, p)'
  <2>1. At(loc, p)' = {}
    BY <1>5, <1>7, <1>9 DEF At, Tree
  <2>2. NoItem \in kept'[p]
    BY <1>7, <1>8, <1>11
  <2> QED
    BY <2>1, <2>2 DEF FileOK
<1>15. ASSUME kept' = kept
       PROVE  Owing(loc, j)'
  BY <1>3, <1>5, <1>15 DEF Owing
<1>16. DriveOK(loc)'
  <2>1. \/ Becomes(c, NoCall)
        \/ (Becomes(c, NoCall) \/ Becomes(c, Again(j))) /\ Owing(loc, j)'
    BY <1>8, <1>15
  <2>2. \A q \in Path : q \in Uses(call[c]) => FileOK(loc, q)'
    BY <1>7, <1>14
  <2> QED
    BY <1>1, <1>2, <1>3, <1>10, <1>13, <2>1, <2>2, DriveChanges
<1> QED
  BY <1>8, <1>16 DEF DriveHolds

\* Where a rename or copy goes when its walk is over: its file n is at p, nothing at
\* q, and m is the folder of q.
Conveys(loc, c, n, m, p, q) ==
  /\ n \in Live /\ loc[n] = p /\ drive[n] \in Item /\ drive[n].folder = FALSE
  /\ m \in Nodes /\ m # n /\ Append(loc[m], Last(q)) = q /\ Last(q) \in Name
  /\ p \in Path /\ q \in Path /\ p # q /\ Uses(call[c]) = {p, q}
  /\ At(loc, p) = {n} /\ At(loc, q) = {}
  /\ drive[n].content \in call[c].was /\ call[c].was \subseteq kept[q]
  /\ kept[q] \intersect ((call[c].was \ {NoItem}) \union call[c].others)
       = call[c].was \ {NoItem}
  /\ drive[n].content # NoItem

LEMMA ConveysIs ==
  ASSUME StorageInv, NEW loc, DriveOK(loc), NEW c \in Caller, Running(c), NEW j, j = call[c],
         j.op \in {"rename", "copy"}, j.step = "walk", j.rest = <<>>
  PROVE  Conveys(loc, c, j.item, j.at, j.path, j.to)
<1>1. /\ CallOK(j) /\ j \in Call /\ Walking(loc, j) /\ Owing(loc, j) /\ Tree(loc)
      /\ j.at \in Nodes /\ loc[j.at] = Target(j)
  BY ArrivedIs
<1>2. /\ j.path \in Path /\ j.to \in Path /\ j.path # j.to /\ Uses(call[c]) = {j.path, j.to}
      /\ loc[j.at] = Folder(j.to)
      /\ j.item \in Live /\ loc[j.item] = j.path
  BY <1>1 DEF CallOK, Carries, Target, Walking, Uses
<1>3. drive[j.item] \in Item /\ drive[j.item].folder = FALSE
  BY <1>1, <1>2, TreeIs
<1>4. Append(loc[j.at], Last(j.to)) = j.to /\ Last(j.to) \in Name
  BY <1>2, AppendIs, FoldersAre
<1>5. At(loc, j.path) = {j.item}
  BY <1>1, <1>2 DEF At, Tree
<1>6. At(loc, j.to) = {} /\ drive[j.item].content \in j.was /\ j.was \subseteq kept[j.to]
      /\ j.others = {}
  BY <1>1, <1>5 DEF Owing
<1>9. kept[j.to] \intersect ((j.was \ {NoItem}) \union j.others) = j.was \ {NoItem}
  BY <1>6
<1>7. drive[j.item].content # NoItem
  <2>1. drive[j.item].content \in Content \union {Empty}
    BY <1>3 DEF Item
  <2> QED
    BY <2>1, StorageAssumption
<1>8. j.at # j.item
  BY <1>2, FoldersAre
<1> QED
  BY <1>1, <1>2, <1>3, <1>4, <1>5, <1>6, <1>7, <1>8, <1>9 DEF Conveys

LEMMA MovesHolds ==
  ASSUME StorageInv, StorageInv', client = "GoogleDrive", raced = {}, DriveHolds,
         NEW c \in Caller,
         Moves(c)
  PROVE  DriveHolds'
<1>1. PICK loc : DriveOK(loc)
  BY DEF DriveHolds
<1>2. PICK j : j = call[c]
  OBVIOUS
<1>3. /\ Running(c) /\ j.op = "rename" /\ j.step = "walk" /\ j.rest = <<>>
      /\ Completes(c, [drive EXCEPT ![j.item].name = Last(j.to), ![j.item].parent = j.at])
  BY <1>2 DEF Moves, Arrived, Asks
<1>4. /\ CallOK(j) /\ j \in Call /\ Walking(loc, j) /\ Owing(loc, j) /\ Tree(loc)
  BY <1>1, <1>2, <1>3, ArrivedIs
<1>5. PICK n, m, p, q : n = j.item /\ m = j.at /\ p = j.path /\ q = j.to
  OBVIOUS
<1>6. /\ n \in Live /\ loc[n] = p /\ drive[n] \in Item /\ drive[n].folder = FALSE
      /\ m \in Nodes /\ m # n /\ Append(loc[m], Last(q)) = q /\ Last(q) \in Name
      /\ p \in Path /\ q \in Path /\ p # q /\ Uses(call[c]) = {p, q}
      /\ At(loc, p) = {n} /\ At(loc, q) = {}
      /\ drive[n].content \in j.was /\ j.was \subseteq kept[q] /\ drive[n].content # NoItem
      /\ kept[q] \intersect ((j.was \ {NoItem}) \union j.others) = j.was \ {NoItem}
  <2>1. Conveys(loc, c, j.item, j.at, j.path, j.to)
    BY <1>1, <1>2, <1>3, ConveysIs
  <2> QED
    BY <1>2, <1>5, <2>1 DEF Conveys
<1>7. /\ NoItem \in kept[p] /\ q \in Seq(Name)
      /\ kept[p] \intersect ({NoItem} \union j.others) = {NoItem}
  <2>1. NoItem \in kept[p] /\ j.others = {}
    BY <1>3, <1>4, <1>5 DEF Owing
  <2>2. kept[p] \intersect ({NoItem} \union j.others) = {NoItem}
    BY <2>1
  <2> QED
    BY <1>6, <2>1, <2>2, FoldersAre
<1>8. /\ drive' = [drive EXCEPT ![n].name = Last(q), ![n].parent = m]
      /\ stale' = stale /\ unlisted' = unlisted
      /\ \/ Becomes(c, NoCall)
            /\ kept' = [kept EXCEPT ![p] = {NoItem}, ![q] = j.was \ {NoItem}]
         \/ (Becomes(c, NoCall) \/ Becomes(c, Again(j))) /\ kept' = kept
  <2>1. PICK gone, moved :
          /\ gone = {NoItem} \union j.others /\ moved = (j.was \ {NoItem}) \union j.others
    OBVIOUS
  <2>2. Leaves(j) = [kept EXCEPT ![p] = @ \intersect gone, ![q] = @ \intersect moved]
    BY <1>3, <1>5, <2>1 DEF Leaves
  <2>3. kept[p] \intersect gone = {NoItem} /\ kept[q] \intersect moved = j.was \ {NoItem}
    BY <1>6, <1>7, <2>1
  <2>4. Leaves(j) = [kept EXCEPT ![p] = {NoItem}, ![q] = j.was \ {NoItem}]
    BY <1>6, <2>2, <2>3 DEF StorageInv, HistoryType
  <2> QED
    BY <1>2, <1>3, <1>5, <2>4, CompletesIs
<1>9. /\ Live' = Live
      /\ drive'[n].name = Last(q) /\ drive'[n].parent = m /\ drive'[n].folder = FALSE
      /\ drive'[n].content = drive[n].content
      /\ \A i \in Live : i # n => drive'[i] = drive[i]
  <2>1. drive \in [Id -> Item \union {NoItem}] /\ n \in Id /\ m \in Node
    BY <1>4, <1>6, TreeIs DEF StorageInv, ServiceType, Live
  <2>2. PICK new : new = [drive[n] EXCEPT !.name = Last(q), !.parent = m]
    OBVIOUS
  <2>3. /\ new \in Item /\ new.name = Last(q) /\ new.parent = m /\ new.folder = FALSE
        /\ new.content = drive[n].content
    BY <1>6, <2>1, <2>2 DEF Item
  <2>4. drive' = [drive EXCEPT ![n] = new]
    BY <1>8, <2>1, <2>2
  <2>5. drive'[n] = new /\ new # NoItem /\ \A i \in Id : i # n => drive'[i] = drive[i]
    BY <2>1, <2>3, <2>4, StorageAssumption
  <2>6. Live' = Live
    BY <1>6, <2>5 DEF Live
  <2> QED
    BY <2>3, <2>5, <2>6 DEF Live
<1>10. PICK lo : lo = [loc EXCEPT ![n] = q]
  OBVIOUS
<1>11. /\ lo \in [Node -> Seq(Name)] /\ lo[n] = q /\ \A i \in Nodes : i # n => lo[i] = loc[i]
       /\ Nodes' = Nodes /\ n # Root
  BY <1>4, <1>6, <1>7, <1>9, <1>10, TreeIs DEF Tree, Nodes
<1>12. Tree(lo)'
  <2>1. ASSUME NEW i \in Live
        PROVE  /\ drive'[i].parent \in Nodes
               /\ lo[i] = Append(lo[drive'[i].parent], drive'[i].name)
               /\ drive'[i].folder => lo[i] \in Folders
               /\ ~drive'[i].folder => lo[i] \in Path
    <3>1. CASE i = n
      BY <1>6, <1>9, <1>11, <3>1
    <3>2. CASE i # n
      <4>1. drive[i].parent \in Nodes /\ i \in Nodes
        BY <1>4 DEF Tree, Nodes
      <4>2. drive[i].parent # n
        BY <1>4, <1>6, ParentIs, FoldersAre
      <4> QED
        BY <1>4, <1>9, <1>11, <3>2, <4>1, <4>2 DEF Tree
    <3> QED
      BY <3>1, <3>2
  <2>2. \A i \in Live : i # n => lo[i] = loc[i] /\ loc[i] # q
    BY <1>6, <1>11 DEF At, Nodes
  <2>3. ASSUME NEW i \in Live, NEW k \in Live, lo[i] = lo[k]
        PROVE  i = k
    BY <1>4, <1>11, <2>2, <2>3 DEF Tree
  <2>4. lo[Root] = <<>>
    BY <1>4, <1>11 DEF Nodes, Tree
  <2>5. \A i, k \in Live' : lo[i] = lo[k] => i = k
    BY <1>9, <2>3
  <2> QED
    BY <1>9, <1>11, <2>1, <2>4, <2>5, Zenon DEF Tree
<1>13. kept \in [Path -> SUBSET Left] /\ \A r \in Path : r \notin {p, q} => kept'[r] = kept[r]
  BY <1>8 DEF StorageInv, HistoryType
<1>14. \/ Becomes(c, NoCall) /\ kept'[p] = {NoItem} /\ kept'[q] = j.was \ {NoItem}
       \/ (Becomes(c, NoCall) \/ Becomes(c, Again(j))) /\ kept' = kept
  BY <1>6, <1>8, <1>13
<1>15. \A r \in Path : NoItem \in kept'[r] => NoItem \in kept[r]
  BY <1>7, <1>13, <1>14
<1>16. Only(c, loc, lo)
  BY <1>6, <1>9, <1>11, <1>13, <1>15 DEF Only, Nodes
<1>17. At(lo, p)' = {} /\ At(lo, q)' = {n}
  <2>1. n \in Live /\ p # q /\ At(loc, p) = {n} /\ At(loc, q) = {}
    BY <1>6
  <2> QED
    BY <1>9, <1>11, <2>1 DEF At, Nodes
<1>18. FileOK(lo, p)' /\ FileOK(lo, q)'
  BY <1>6, <1>7, <1>9, <1>14, <1>17 DEF FileOK
<1>19. ASSUME kept' = kept
       PROVE  Owing(lo, j)'
  <2>1. /\ j.others = {} /\ drive[n].content \in j.was /\ j.was \subseteq kept[q]
        /\ NoItem \in kept[p]
    BY <1>4, <1>6, <1>7 DEF Owing
  <2>2. drive'[n].content \in j.was
    BY <1>9, <2>1
  <2> QED
    BY <1>3, <1>5, <1>17, <1>19, <2>1, <2>2 DEF Owing
<1>20. DriveOK(lo)'
  <2>1. \/ Becomes(c, NoCall)
        \/ (Becomes(c, NoCall) \/ Becomes(c, Again(j))) /\ Owing(lo, j)'
    BY <1>8, <1>19
  <2>2. \A r \in Path : r \in Uses(call[c]) => FileOK(lo, r)'
    BY <1>6, <1>18
  <2> QED
    BY <1>1, <1>2, <1>3, <1>12, <1>16, <2>1, <2>2, DriveChanges
<1> QED
  BY <1>8, <1>20 DEF DriveHolds

LEMMA CopiesHolds ==
  ASSUME StorageInv, StorageInv', client = "GoogleDrive", raced = {}, DriveHolds,
         NEW c \in Caller,
         Copies(c), ~mistaken'
  PROVE  DriveHolds'
<1>1. PICK loc : DriveOK(loc)
  BY DEF DriveHolds
<1>2. PICK j : j = call[c]
  OBVIOUS
<1>3. PICK new : new = [drive[j.item] EXCEPT !.name = Last(j.to), !.parent = j.at]
  OBVIOUS
<1>4. /\ Running(c) /\ j.op = "copy" /\ j.step = "walk" /\ j.rest = <<>> /\ Unused # {}
      /\ drive' = [drive EXCEPT ![NewId] = new]
      /\ Becomes(c, NoCall) /\ kept' = Leaves(j)
      /\ stale' = stale /\ unlisted' = unlisted
  BY <1>2, <1>3 DEF Copies, Arrived, Asks, Changes
<1>5. Tree(loc)
  BY <1>1 DEF DriveOK
<1>6. PICK n, m, p, q : n = j.item /\ m = j.at /\ p = j.path /\ q = j.to
  OBVIOUS
<1>7. /\ n \in Live /\ loc[n] = p /\ drive[n] \in Item /\ drive[n].folder = FALSE
      /\ m \in Nodes /\ Append(loc[m], Last(q)) = q /\ Last(q) \in Name
      /\ p \in Path /\ q \in Path /\ p # q /\ Uses(call[c]) = {p, q}
      /\ At(loc, q) = {}
      /\ drive[n].content \in j.was /\ drive[n].content # NoItem
      /\ kept[q] \intersect ((j.was \ {NoItem}) \union j.others) = j.was \ {NoItem}
  <2>1. Conveys(loc, c, j.item, j.at, j.path, j.to)
    BY <1>1, <1>2, <1>4, ConveysIs
  <2> QED
    BY <1>2, <1>6, <2>1 DEF Conveys
<1>8. /\ new \in Item /\ new.name = Last(q) /\ new.parent = m /\ new.folder = FALSE
      /\ new.content = drive[n].content
  <2>1. m \in Node
    BY <1>5, <1>7, TreeIs
  <2> QED
    BY <1>3, <1>6, <1>7, <2>1 DEF Item
<1>9. PICK lo : lo = [loc EXCEPT ![NewId] = q]
  OBVIOUS
<1>10. Tree(lo)' /\ Added(loc, lo, q, new)
  <2>1. NewAt(loc, m, q, new)
    BY <1>4, <1>7, <1>8, FoldersAre DEF NewAt
  <2> QED
    BY <1>5, <1>9, <2>1, NewItemIs
<1>11. /\ kept \in [Path -> SUBSET Left]
       /\ kept'[q] = j.was \ {NoItem} /\ \A r \in Path : r # q => kept'[r] = kept[r]
  BY <1>4, <1>6, <1>7 DEF StorageInv, HistoryType, Leaves
<1>12. Only(c, loc, lo)
  BY <1>7, <1>10, <1>11 DEF Only, Nodes, Added
<1>13. ASSUME NEW r \in Path, r \in Uses(call[c])
       PROVE  FileOK(lo, r)'
  <2>1. CASE r = q
    BY <1>7, <1>8, <1>10, <1>11, <2>1 DEF FileOK, Added
  <2>2. CASE r # q
    <3>1. At(lo, r)' = At(loc, r) /\ \A i \in At(loc, r) : drive'[i] = drive[i]
      BY <1>10, <2>2 DEF At, Added
    <3> QED
      BY <1>1, <1>11, <2>2, <3>1 DEF FileOK, DriveOK
  <2> QED
    BY <2>1, <2>2
<1>14. DriveOK(lo)'
  BY <1>1, <1>2, <1>4, <1>10, <1>12, <1>13, DriveChanges
<1> QED
  BY <1>4, <1>14 DEF DriveHolds

\* The folders that a call makes, and those that are there.
LEMMA FolderIsAt ==
  ASSUME StorageInv, client = "GoogleDrive", folders = {}, NEW loc, Tree(loc)
  PROVE  /\ \A k : Wants(k) = Prefixes(Dest(k))
         /\ \A q \in Folders \ {<<>>} : HasFolder(q) => At(loc, q) # {}
<1>1. \A k : Wants(k) = Prefixes(Dest(k))
  BY DEF Wants, Dest
<1>2. ASSUME NEW q \in Folders \ {<<>>}, HasFolder(q)
      PROVE  At(loc, q) # {}
  BY <1>2, ReachedIs DEF HasFolder
<1> QED
  BY <1>1, <1>2

\* A call that begins without a race has all its files to itself.
Alone(c, k, maybe) ==
  /\ UNCHANGED <<client, drive, unlisted, stale>>
  /\ Meets(k) = {} /\ kept' = maybe
  /\ call'[c] = k
  /\ \A d \in Caller : d # c /\ Running(d) => call'[d] = Joining(k, d, call[d], maybe)
  /\ \A d \in Caller : d # c /\ ~Running(d) => ~Running(d)'
  /\ \A d \in Caller, q \in Wants(k) :
       Running(d) /\ q \in Wants(call[d]) => HasFolder(q)

LEMMA BeginsAlone ==
  ASSUME StorageInv, client = "GoogleDrive", raced' = {},
         NEW c \in Caller, NEW k, NEW maybe \in [Path -> SUBSET Left],
         ~Running(c), Begins(c, k, maybe), CallOK(k), k.others = {}
  PROVE  Alone(c, k, maybe)
<1>1. /\ UNCHANGED <<client, drive, unlisted, stale>> /\ raced = {} /\ Races(k) = {}
      /\ call'[c] = Joined(k)
      /\ \A d \in Caller : d # c /\ ~Running(d) => ~Running(d)'
  BY BegunIs DEF LooksFirst
<1>2. Meets(k) = {}
  <2>1. \A d \in Meets(k) : Uses(call[d]) \intersect Uses(k) = {}
    BY <1>1, RacesAre
  <2>2. \A d \in Meets(k) : Uses(call[d]) \intersect Uses(k) # {}
    BY RacesAre
  <2> QED
    BY <2>1, <2>2
<1>3. Mixed(k) = {}
  BY <1>2 DEF Mixed
<1>4. kept' = maybe
  <2>1. kept' \in [Path -> SUBSET Left] /\ \A p \in Path : kept'[p] = maybe[p]
    BY <1>3, BegunIs
  <2> QED
    BY <2>1
<1>5. call'[c] = k
  <2>1. call'[c] = [k EXCEPT !.others = {}]
    BY <1>1, <1>2 DEF Joined
  <2> QED
    BY <2>1 DEF CallOK, Call
<1>7. \A d \in Caller : d # c /\ Running(d) => call'[d] = Joining(k, d, call[d], maybe)
  BY <1>4, BegunIs
<1>8. \A d \in Caller, q \in Wants(k) :
        Running(d) /\ q \in Wants(call[d]) => HasFolder(q)
  BY <1>1, RacesAre
<1> QED
  BY <1>1, <1>2, <1>4, <1>5, <1>7, <1>8 DEF Alone

LEMMA BeginsHolds ==
  ASSUME StorageInv, client = "GoogleDrive", folders = {}, raced' = {}, DriveHolds,
         NEW loc, DriveOK(loc), NEW c \in Caller, NEW k, NEW maybe \in [Path -> SUBSET Left],
         ~Running(c), Begins(c, k, maybe), CallOK(k), k.others = {},
         k.at = Root, k.rest = k.path, k.step = FirstStep(k.op),
         \A p \in Path : kept[p] \subseteq maybe[p] /\ (maybe[p] # kept[p] => p \in Uses(k)),
         Owing(loc, k)'
  PROVE  DriveHolds'
<1>1. /\ kept' = maybe /\ Meets(k) = {}
      /\ UNCHANGED <<client, drive, unlisted, stale>>
      /\ \A d \in Caller : d # c /\ Running(d) => call'[d] = Joining(k, d, call[d], maybe)
      /\ \A d \in Caller : d # c /\ ~Running(d) => ~Running(d)'
  <2>1. Alone(c, k, maybe)
    BY BeginsAlone
  <2> QED
    BY <2>1 DEF Alone
<1>2. Tree(loc) /\ Tree(loc)' /\ Nodes' = Nodes /\ \A q : At(loc, q)' = At(loc, q)
  BY <1>1 DEF DriveOK, Tree, Live, Nodes, At
<1>3. \A p \in Path : FileOK(loc, p)'
  BY <1>1, <1>2 DEF DriveOK, FileOK
<1>4. call'[c] = k
  <2>1. Alone(c, k, maybe)
    BY BeginsAlone
  <2> QED
    BY <2>1 DEF Alone
<1>5. Walking(loc, k)'
  <2>1. PICK p \in Seq(Name) : p = k.path
    BY FoldersAre DEF CallOK, Carries, Call
  <2>2. loc[Root] \o p = p
    BY <1>2, AppendIs DEF Tree
  <2>3. Target(k) = p
    BY <2>1 DEF Target, FirstStep
  <2>4. k.step = "source" => k.rest # <<>> /\ k.op \in {"rename", "copy"}
    BY StorageAssumption DEF FirstStep, CallOK, Carries
  <2>5. k.op \in {"rename", "copy"} => k.step = "source"
    BY DEF FirstStep
  <2>6. k.step \in {"source", "walk"} /\ Root \in Nodes'
    BY DEF FirstStep, Nodes
  <2> QED
    BY <2>1, <2>2, <2>3, <2>4, <2>5, <2>6 DEF Walking
<1>6. ASSUME NEW d \in Caller, d # c, Running(d)', NEW j, j = call'[d]
      PROVE  Running(d) /\ Dest(j) = Dest(call[d]) /\ Walking(loc, j)' /\ Owing(loc, j)'
  <2>1. PICK i : i = call[d]
    OBVIOUS
  <2>2. Running(d) /\ j = Joining(k, d, i, maybe) /\ d \notin Meets(k)
    BY <1>1, <1>6, <2>1
  <2>3. CallOK(i) /\ i \in Call /\ Walking(loc, i) /\ Owing(loc, i)
    BY <2>1, <2>2, CallKnown DEF DriveOK, CallOK, Carries
  <2>4. /\ j.op = i.op /\ j.path = i.path /\ j.to = i.to /\ j.step = i.step
        /\ j.content = i.content /\ j.was = i.was /\ j.rest = i.rest /\ j.item = i.item
        /\ j.at = i.at /\ j.must = {p \in i.must : NoItem \notin maybe[p]}
        /\ j.others = i.others
    BY <2>2, <2>3 DEF Call, Joining
  <2>5. Dest(j) = Dest(i) /\ Target(j) = Target(i) /\ Ahead(loc, j) = Ahead(loc, i)
    BY <2>4 DEF Dest, Target, Ahead
  <2>6. Walking(loc, j)'
    BY <1>1, <1>2, <2>3, <2>4, <2>5 DEF Walking, Live
  <2>7. /\ i.path \in Path => kept'[i.path] = kept[i.path]
        /\ i.to \in Path => kept'[i.to] = kept[i.to]
    BY <1>1, <2>1, <2>2 DEF Meets, Uses
  <2>8. /\ i.op \in {"upload", "download", "delete"} => i.path \in Path
        /\ i.op \in {"rename", "copy"} => i.path \in Path /\ i.to \in Path
    BY <2>3 DEF CallOK, Carries
  <2>9. j.op = "list" => \A p \in j.must : Folder(p) = j.path /\ NoItem \notin kept'[p]
    BY <1>1, <2>3, <2>4 DEF Owing
  <2>10. Owing(loc, j)'
    BY <1>1, <1>2, <2>3, <2>4, <2>7, <2>8, <2>9 DEF Owing
  <2> QED
    BY <2>1, <2>2, <2>5, <2>6, <2>10
<1>7. ASSUME NEW d \in Caller, Running(d)'
      PROVE  Walking(loc, call[d])' /\ Owing(loc, call[d])'
  <2>1. PICK j : j = call'[d]
    OBVIOUS
  <2>2. Walking(loc, j)' /\ Owing(loc, j)'
    BY <1>4, <1>5, <1>6, <1>7, <2>1
  <2> QED
    BY <2>1, <2>2 DEF Walking, Owing
<1>8. Ordered(loc)'
  <2>1. ASSUME NEW d \in Caller, Running(d), NEW q \in Prefixes(Dest(k)),
               q \in Prefixes(Dest(call[d]))
        PROVE  At(loc, q) # {}
    <3>1. q \in Wants(k) /\ q \in Wants(call[d])
      BY <1>2, <2>1, FolderIsAt
    <3>4. Alone(c, k, maybe)
      BY BeginsAlone
    <3>2. HasFolder(q)
      BY <2>1, <3>1, <3>4 DEF Alone
    <3>3. q \in Folders \ {<<>>}
      BY <3>1, WantsAre
    <3> QED
      BY <1>2, <3>2, <3>3, FolderIsAt
  <2>2. ASSUME NEW a \in Caller, NEW b \in Caller, a # b, Running(a)', Running(b)',
               NEW x, x = Dest(call'[a]), NEW y, y = Dest(call'[b]),
               NEW q \in Prefixes(x) \intersect Prefixes(y)
        PROVE  At(loc, q)' # {}
    <3>1. a # c => Running(a) /\ x = Dest(call[a])
      BY <1>6, <2>2
    <3>2. b # c => Running(b) /\ y = Dest(call[b])
      BY <1>6, <2>2
    <3>3. At(loc, q) # {}
      <4>1. CASE a = c
        BY <1>4, <2>1, <2>2, <3>2, <4>1
      <4>2. CASE b = c
        BY <1>4, <2>1, <2>2, <3>1, <4>2
      <4>3. CASE a # c /\ b # c
        BY <2>2, <3>1, <3>2, <4>3 DEF DriveOK, Ordered
      <4> QED
        BY <4>1, <4>2, <4>3
    <3> QED
      BY <1>2, <3>3
  <2>3. ASSUME NEW a \in Caller, NEW b \in Caller, a # b, Running(a)', Running(b)',
               NEW q, (q \in Prefixes(Dest(call[a])) \intersect Prefixes(Dest(call[b])))'
        PROVE  At(loc, q)' # {}
    <3>1. PICK x, y : x = Dest(call'[a]) /\ y = Dest(call'[b])
      OBVIOUS
    <3>2. q \in Prefixes(x) \intersect Prefixes(y)
      BY <2>3, <3>1 DEF Prefixes, Dest
    <3> QED
      BY <2>2, <2>3, <3>1, <3>2
  <2> QED
    BY <2>3 DEF Ordered
<1>9. DriveOK(loc)'
  BY <1>2, <1>3, <1>7, <1>8 DEF DriveOK
<1> QED
  BY <1>1, <1>9 DEF DriveHolds

\* A call starts at the root.
LEMMA StartsAtRoot ==
  ASSUME NEW op \in Op, NEW q \in Path \union Folders
  PROVE  /\ First(op, q) \in Call
         /\ First(op, q).op = op /\ First(op, q).path = q /\ First(op, q).to = q
         /\ First(op, q).step = FirstStep(op) /\ First(op, q).at = Root /\ First(op, q).rest = q
         /\ First(op, q).others = {}
         /\ FirstStep(op) = "source" => client = "GoogleDrive"
         /\ FirstStep(op) \in {"walk", "source"}
BY FirstIs DEF First

LEMMA DriveFilesBegin ==
  ASSUME StorageInv, client = "GoogleDrive", folders = {}, raced' = {}, DriveHolds,
         NEW c \in Caller, ~Running(c), NEW p \in Path,
         \/ BeginsDownload(c, p) \/ BeginsDelete(c, p)
         \/ \E v \in Content : BeginsUpload(c, p, v)
  PROVE  DriveHolds'
<1>1. PICK loc : DriveOK(loc)
  BY DEF DriveHolds
<1>2. kept \in [Path -> SUBSET Left]
  BY DEF StorageInv, HistoryType
<1>6. \A op : Halfway(op, p) \subseteq Left
  BY HalfwayIs
<1>7. NoItem \in Left /\ Content \subseteq Left
  BY DEF Left
<1>3. CASE BeginsDownload(c, p)
  <2>1. PICK k, maybe : /\ k = First("download", p)
                        /\ maybe = [kept EXCEPT ![p] = @ \union Halfway("download", p)]
    OBVIOUS
  <2>2. Begins(c, k, maybe) /\ maybe \in [Path -> SUBSET Left]
    BY <1>2, <1>3, <1>6, <2>1 DEF BeginsDownload
  <2>3. /\ k \in Call /\ k.op = "download" /\ k.path = p /\ k.to = p
        /\ k.step = FirstStep(k.op) /\ k.at = Root /\ k.rest = k.path /\ k.step = "walk" /\ k.others = {}
    BY <2>1, StartsAtRoot DEF Op, FirstStep
  <2>4. CallOK(k) /\ p \in Uses(k)
    BY <2>3 DEF CallOK, Carries, Uses
  <2>5. /\ \A q \in Path : kept[q] \subseteq maybe[q] /\ (maybe[q] # kept[q] => q \in Uses(k))
        /\ kept' = maybe
    <3>1. \A q \in Path : kept[q] \subseteq maybe[q] /\ (q # p => maybe[q] = kept[q])
      BY <1>2, <2>1
    <3>2. Alone(c, k, maybe)
      BY <2>2, <2>3, <2>4, BeginsAlone
    <3>3. kept' = maybe
      BY <3>2 DEF Alone
    <3> QED
      BY <2>4, <3>1, <3>3
  <2>6. NoItem \in maybe[p] => Empty \in maybe[p]
    BY <1>2, <2>1, StorageAssumption DEF Halfway, Left
  <2>7. Owing(loc, k)'
    BY <2>3, <2>5, <2>6 DEF Owing
  <2> QED
    BY <1>1, <2>2, <2>3, <2>4, <2>5, <2>7, BeginsHolds
<1>4. CASE BeginsDelete(c, p)
  <2>1. PICK k, maybe :
          /\ k = First("delete", p)
          /\ maybe = [kept EXCEPT ![p] = @ \union {NoItem} \union Halfway("delete", p)]
    OBVIOUS
  <2>2. Begins(c, k, maybe) /\ maybe \in [Path -> SUBSET Left]
    BY <1>2, <1>4, <1>6, <1>7, <2>1 DEF BeginsDelete
  <2>3. /\ k \in Call /\ k.op = "delete" /\ k.path = p /\ k.to = p
        /\ k.step = FirstStep(k.op) /\ k.at = Root /\ k.rest = k.path /\ k.step = "walk" /\ k.others = {}
    BY <2>1, StartsAtRoot DEF Op, FirstStep
  <2>4. CallOK(k) /\ p \in Uses(k)
    BY <2>3 DEF CallOK, Carries, Uses
  <2>5. /\ \A q \in Path : kept[q] \subseteq maybe[q] /\ (maybe[q] # kept[q] => q \in Uses(k))
        /\ kept' = maybe
    <3>1. \A q \in Path : kept[q] \subseteq maybe[q] /\ (q # p => maybe[q] = kept[q])
      BY <1>2, <2>1
    <3>2. Alone(c, k, maybe)
      BY <2>2, <2>3, <2>4, BeginsAlone
    <3>3. kept' = maybe
      BY <3>2 DEF Alone
    <3> QED
      BY <2>4, <3>1, <3>3
  <2>6. {Empty, NoItem} \subseteq maybe[p]
    BY <1>2, <2>1 DEF Halfway, Left
  <2>7. Owing(loc, k)'
    BY <2>3, <2>5, <2>6 DEF Owing
  <2> QED
    BY <1>1, <2>2, <2>3, <2>4, <2>5, <2>7, BeginsHolds
<1>5. CASE \E v \in Content : BeginsUpload(c, p, v)
  <2>1. PICK v \in Content : BeginsUpload(c, p, v)
    BY <1>5
  <2>2. PICK j, maybe :
          /\ j = First("upload", p)
          /\ maybe = [kept EXCEPT ![p] = @ \union {v} \union Halfway("upload", p)]
    OBVIOUS
  <2>3. PICK k : k = [j EXCEPT !.content = v]
    OBVIOUS
  <2>4. Begins(c, k, maybe) /\ maybe \in [Path -> SUBSET Left]
    BY <1>2, <1>6, <1>7, <2>1, <2>2, <2>3 DEF BeginsUpload
  <2>5. /\ j \in Call /\ j.op = "upload" /\ j.path = p /\ j.to = p
        /\ j.step = FirstStep(j.op) /\ j.at = Root /\ j.rest = j.path /\ j.step = "walk" /\ j.others = {}
    BY <2>2, StartsAtRoot DEF Op, FirstStep
  <2>6. /\ k \in Call /\ k.op = "upload" /\ k.path = p /\ k.to = p /\ k.content = v
        /\ k.step = FirstStep(k.op) /\ k.at = Root /\ k.rest = k.path /\ k.step = "walk" /\ k.others = {}
    BY <2>3, <2>5 DEF Call
  <2>7. CallOK(k) /\ p \in Uses(k)
    BY <2>6 DEF CallOK, Carries, Uses
  <2>8. /\ \A q \in Path : kept[q] \subseteq maybe[q] /\ (maybe[q] # kept[q] => q \in Uses(k))
        /\ kept' = maybe
    <3>1. \A q \in Path : kept[q] \subseteq maybe[q] /\ (q # p => maybe[q] = kept[q])
      BY <1>2, <2>2
    <3>2. Alone(c, k, maybe)
      BY <2>4, <2>6, <2>7, BeginsAlone
    <3>3. kept' = maybe
      BY <3>2 DEF Alone
    <3> QED
      BY <2>7, <3>1, <3>3
  <2>9. v \in maybe[p] /\ (NoItem \in maybe[p] => Empty \in maybe[p])
    <3>1. v # NoItem /\ maybe[p] = kept[p] \union {v} \union Halfway("upload", p)
      BY <1>2, <2>2, StorageAssumption
    <3>2. NoItem \in kept[p] => Empty \in Halfway("upload", p)
      BY DEF Halfway, Left
    <3>3. NoItem \in Halfway("upload", p) => NoItem \in kept[p]
      BY StorageAssumption DEF Halfway
    <3> QED
      BY <3>1, <3>2, <3>3
  <2>10. Owing(loc, k)'
    BY <2>6, <2>8, <2>9 DEF Owing
  <2> QED
    BY <1>1, <2>4, <2>6, <2>7, <2>8, <2>10, BeginsHolds
<1> QED
  BY <1>3, <1>4, <1>5

LEMMA DriveTransfersBegin ==
  ASSUME StorageInv, client = "GoogleDrive", folders = {}, raced' = {}, DriveHolds,
         NEW c \in Caller, ~Running(c), NEW p \in Path, NEW q \in Path,
         BeginsRename(c, p, q) \/ BeginsCopy(c, p, q)
  PROVE  DriveHolds'
<1>1. PICK loc : DriveOK(loc)
  BY DEF DriveHolds
<1>2. kept \in [Path -> SUBSET Left]
  BY DEF StorageInv, HistoryType
<1>3. PICK op \in {"rename", "copy"} :
        IF op = "rename" THEN BeginsRename(c, p, q) ELSE BeginsCopy(c, p, q)
  OBVIOUS
<1>4. PICK j : j = First(op, p)
  OBVIOUS
<1>5. PICK k : k = [j EXCEPT !.to = q, !.was = kept[p]]
  OBVIOUS
<1>6. PICK maybe :
        maybe = IF op = "rename" THEN [kept EXCEPT ![p] = @ \union {NoItem}, ![q] = @ \union kept[p]]
                ELSE [kept EXCEPT ![q] = @ \union kept[p] \union Halfway("copy", q)]
  OBVIOUS
<1>7. Begins(c, k, maybe) /\ p # q /\ client \in Renames /\ kept[q] = {NoItem}
  <2>1. CASE op = "rename"
    BY <1>3, <1>4, <1>5, <1>6, <2>1 DEF BeginsRename
  <2>2. CASE op # "rename"
    BY <1>3, <1>4, <1>5, <1>6, <2>2 DEF BeginsCopy
  <2> QED
    BY <2>1, <2>2
<1>8. /\ j \in Call /\ j.op = op /\ j.path = p
      /\ j.step = FirstStep(j.op) /\ j.at = Root /\ j.rest = j.path /\ j.step = "source" /\ j.others = {}
  BY <1>4, StartsAtRoot DEF Op, FirstStep
<1>9. /\ k \in Call /\ k.op = op /\ k.path = p /\ k.to = q /\ k.was = kept[p]
      /\ k.step = FirstStep(k.op) /\ k.at = Root /\ k.rest = k.path /\ k.step = "source" /\ k.others = {}
  BY <1>2, <1>5, <1>8 DEF Call
<1>10. CallOK(k) /\ Uses(k) = {p, q}
  BY <1>3, <1>7, <1>9 DEF CallOK, Carries, Uses
<1>11. /\ maybe \in [Path -> SUBSET Left]
       /\ \A r \in Path : kept[r] \subseteq maybe[r] /\ (maybe[r] # kept[r] => r \in {p, q})
       /\ kept[p] \subseteq maybe[q]
       /\ op = "rename" => NoItem \in maybe[p]
  <2>3. NoItem \in Left /\ Halfway("copy", q) \subseteq Left
    BY HalfwayIs DEF Left
  <2>1. CASE op = "rename"
    BY <1>2, <1>6, <1>7, <2>1, <2>3
  <2>2. CASE op # "rename"
    BY <1>2, <1>6, <1>7, <2>2, <2>3
  <2> QED
    BY <2>1, <2>2
<1>12. /\ At(loc, q) = {}
       /\ \A i \in At(loc, p) : drive[i].content \in kept[p]
       /\ At(loc, p) = {} => NoItem \in kept[p]
  <2>1. FileOK(loc, p) /\ FileOK(loc, q) /\ Tree(loc)
    BY <1>1 DEF DriveOK
  <2>2. \A i \in At(loc, q) : drive[i].content # NoItem
    <3>1. \A i \in At(loc, q) : drive[i].content \in Content \union {Empty}
      BY <2>1, TreeIs DEF At, Item
    <3> QED
      BY <3>1, StorageAssumption
  <2> QED
    BY <1>7, <2>1, <2>2 DEF FileOK
<1>13. Owing(loc, k)'
  <2>3. Begins(c, k, maybe) /\ CallOK(k) /\ k.others = {} /\ maybe \in [Path -> SUBSET Left]
    BY <1>7, <1>9, <1>10, <1>11
  <2>4. Alone(c, k, maybe)
    BY <2>3, BeginsAlone
  <2>1. kept' = maybe /\ UNCHANGED drive
    BY <2>4 DEF Alone
  <2>2. \A r : At(loc, r)' = At(loc, r)
    BY <2>1 DEF At, Live
  <2> QED
    BY <1>3, <1>9, <1>11, <1>12, <2>1, <2>2 DEF Owing
<1> QED
  BY <1>1, <1>7, <1>9, <1>10, <1>11, <1>13, BeginsHolds

LEMMA DriveFoldersBegin ==
  ASSUME StorageInv, client = "GoogleDrive", folders = {}, raced' = {}, DriveHolds,
         NEW c \in Caller, ~Running(c), NEW q \in Folders,
         BeginsCreateFolder(c, q) \/ BeginsList(c, q)
  PROVE  DriveHolds'
<1>1. PICK loc : DriveOK(loc)
  BY DEF DriveHolds
<1>2. kept \in [Path -> SUBSET Left] /\ q \notin Path
  BY FoldersAre DEF StorageInv, HistoryType
<1>3. PICK op \in {"create_folder", "list"} :
        IF op = "list" THEN BeginsList(c, q) ELSE BeginsCreateFolder(c, q)
  OBVIOUS
<1>4. PICK j : j = First(op, q)
  OBVIOUS
<1>5. PICK files : files = {p \in Path : Folder(p) = q /\ NoItem \notin kept[p]}
  OBVIOUS
<1>6. PICK k : k = IF op = "list" THEN [j EXCEPT !.must = files] ELSE j
  OBVIOUS
<1>7. Begins(c, k, kept)
  <2>1. CASE op = "list"
    BY <1>3, <1>4, <1>5, <1>6, <2>1 DEF BeginsList
  <2>2. CASE op # "list"
    BY <1>3, <1>4, <1>6, <2>2 DEF BeginsCreateFolder
  <2> QED
    BY <2>1, <2>2
<1>8. /\ j \in Call /\ j.op = op /\ j.path = q /\ j.to = q
      /\ j.step = FirstStep(j.op) /\ j.at = Root /\ j.rest = j.path /\ j.step = "walk" /\ j.others = {}
  BY <1>4, StartsAtRoot DEF Op, FirstStep
<1>9. /\ k \in Call /\ k.op = op /\ k.path = q /\ k.to = q /\ (op = "list" => k.must = files)
      /\ k.step = FirstStep(k.op) /\ k.at = Root /\ k.rest = k.path /\ k.step = "walk" /\ k.others = {}
  BY <1>5, <1>6, <1>8 DEF Call
<1>10. CallOK(k)
  BY <1>3, <1>9 DEF CallOK, Carries
<1>11. Owing(loc, k)'
  <2>1. kept' = kept
    BY <1>2, <1>7, <1>9, <1>10, BeginsAlone DEF Alone
  <2> QED
    BY <1>3, <1>5, <1>9, <2>1 DEF Owing
<1> QED
  BY <1>1, <1>2, <1>7, <1>9, <1>10, <1>11, BeginsHolds

-----------------------------------------------------------------------------
(* All steps of the client of Google Drive. *)

LEMMA ObjectStoreIsOther ==
  ASSUME NEW c \in Caller, GoesOnObjectStore(c)
  PROVE  client # "GoogleDrive"
<1>1. CASE \/ UploadsToS3(c) \/ DownloadsFromS3(c) \/ DeletesFromS3(c)
           \/ CopiesOnS3(c) \/ RenamesOnS3(c) \/ ListsS3(c)
  BY <1>1 DEF UploadsToS3, DownloadsFromS3, DeletesFromS3, CopiesOnS3, RenamesOnS3, ListsS3, Asks
<1>2. CASE \/ UploadsToGcs(c) \/ DownloadsFromGcs(c) \/ DeletesFromGcs(c) \/ ListsGcs(c)
           \/ UploadsToAzure(c) \/ DownloadsFromAzure(c) \/ DeletesFromAzure(c) \/ ListsAzure(c)
  BY <1>2 DEF UploadsToGcs, DownloadsFromGcs, DeletesFromGcs, ListsGcs,
     UploadsToAzure, DownloadsFromAzure, DeletesFromAzure, ListsAzure, Asks
<1>3. CASE \/ AuthorizesB2(c) \/ GetsBucketId(c) \/ RefusedByB2(c)
           \/ GetsUploadUrl(c) \/ UploadsToB2(c) \/ DownloadsFromB2(c)
           \/ FindsVersion(c) \/ DeletesFromB2(c) \/ ListsB2(c)
  BY <1>3 DEF AuthorizesB2, GetsBucketId, RefusedByB2, GetsUploadUrl, UploadsToB2,
     DownloadsFromB2, FindsVersion, DeletesFromB2, ListsB2, AtB2, ReadyB2, Asks
<1>4. CASE \/ UploadsToIpfs(c) \/ ResolvesCid(c) \/ DownloadsFromIpfs(c) \/ DeletesFromIpfs(c)
           \/ ListsIpfs(c)
  BY <1>4 DEF UploadsToIpfs, ResolvesCid, DownloadsFromIpfs, DeletesFromIpfs, ListsIpfs, Asks
<1> QED
  BY <1>1, <1>2, <1>3, <1>4 DEF GoesOnObjectStore

LEMMA FileTreeIsOther ==
  ASSUME NEW c \in Caller, GoesOnFileTree(c)
  PROVE  client # "GoogleDrive"
<1>1. CASE \/ EnsuresParentsOnWebDav(c) \/ UploadsToWebDav(c) \/ DownloadsFromWebDav(c)
           \/ DeletesFromWebDav(c) \/ ListsWebDav(c) \/ CreatesFolderOnWebDav(c)
           \/ EnsuresParentsOnNextcloud(c) \/ UploadsToNextcloud(c) \/ DownloadsFromNextcloud(c)
           \/ DeletesFromNextcloud(c) \/ ListsNextcloud(c) \/ CreatesFolderOnNextcloud(c)
           \/ MakesDirsOnSftp(c) \/ UploadsToSftp(c) \/ DownloadsFromSftp(c)
           \/ DeletesFromSftp(c) \/ ListsSftp(c)
  BY <1>1 DEF EnsuresParentsOnWebDav, UploadsToWebDav, DownloadsFromWebDav, DeletesFromWebDav,
     ListsWebDav, CreatesFolderOnWebDav, EnsuresParentsOnNextcloud, UploadsToNextcloud,
     DownloadsFromNextcloud, DeletesFromNextcloud, ListsNextcloud, CreatesFolderOnNextcloud,
     MakesDirsOnSftp, UploadsToSftp, DownloadsFromSftp, DeletesFromSftp, ListsSftp, Asks
<1>2. CASE \/ UploadsLocally(c) \/ CopiesRateLimited(c) \/ StartsLocalSession(c)
           \/ FinishesLocalSession(c) \/ DownloadsLocally(c) \/ DeletesLocally(c)
           \/ CreatesFolderLocally(c) \/ CopiesLocally(c) \/ RenamesLocally(c) \/ ListsLocally(c)
           \/ UploadsToPCloud(c) \/ DownloadsFromPCloud(c) \/ DeletesFromPCloud(c)
           \/ ListsPCloud(c)
  BY <1>2 DEF UploadsLocally, CopiesRateLimited, StartsLocalSession, FinishesLocalSession,
     DownloadsLocally, DeletesLocally, CreatesFolderLocally, CopiesLocally, RenamesLocally,
     ListsLocally, UploadsToPCloud, DownloadsFromPCloud, DeletesFromPCloud, ListsPCloud, Asks
<1>3. CASE \/ UploadsToDropbox(c) \/ OpensDropboxSession(c) \/ FinishesDropboxSession(c)
           \/ DownloadsFromDropbox(c) \/ DeletesFromDropbox(c) \/ RenamesOnDropbox(c)
           \/ CopiesOnDropbox(c) \/ CreatesFolderOnDropbox(c) \/ ListsDropbox(c)
           \/ UploadsToOneDrive(c) \/ OpensOneDriveSession(c) \/ FinishesOneDriveSession(c)
           \/ DownloadsFromOneDrive(c) \/ DeletesFromOneDrive(c) \/ RenamesOnOneDrive(c)
           \/ CopiesOnOneDrive(c) \/ CreatesFolderOnOneDrive(c) \/ ListsOneDrive(c)
  BY <1>3 DEF UploadsToDropbox, OpensDropboxSession, FinishesDropboxSession,
     DownloadsFromDropbox, DeletesFromDropbox, RenamesOnDropbox, CopiesOnDropbox,
     CreatesFolderOnDropbox, ListsDropbox, UploadsToOneDrive, OpensOneDriveSession,
     FinishesOneDriveSession, DownloadsFromOneDrive, DeletesFromOneDrive, RenamesOnOneDrive,
     CopiesOnOneDrive, CreatesFolderOnOneDrive, ListsOneDrive, Asks
<1>4. CASE \/ MissesOnBox(c) \/ MakesFolderOnBox(c) \/ UploadsToBox(c) \/ DownloadsFromBox(c)
           \/ DeletesFromBox(c) \/ CreatesFolderOnBox(c) \/ ListsBox(c)
           \/ ResolvesOnMega(c) \/ MakesFolderOnMega(c) \/ LooksOnMega(c) \/ ReplacesOnMega(c)
           \/ UploadsToMega(c) \/ DownloadsFromMega(c) \/ DeletesFromMega(c) \/ ListsMega(c)
  BY <1>4 DEF MissesOnBox, MakesFolderOnBox, UploadsToBox, DownloadsFromBox, DeletesFromBox,
     CreatesFolderOnBox, ListsBox, ResolvesOnMega, MakesFolderOnMega, LooksOnMega,
     ReplacesOnMega, UploadsToMega, DownloadsFromMega, DeletesFromMega, ListsMega, AtBox,
     AtMega, Asks
<1> QED
  BY <1>1, <1>2, <1>3, <1>4 DEF GoesOnFileTree

\* What the other services have stays as it is.
LEMMA DriveOnly ==
  ASSUME NEW c \in Caller, GoesOnGoogleDrive(c) \/ Retries(c) \/ Refused(c)
  PROVE  UNCHANGED <<objects, folders>>
<1> USE DEF service
<1>1. ASSUME NEW k, Learns(c, k)
      PROVE  UNCHANGED <<objects, folders>>
  BY <1>1 DEF Learns
<1>2. ASSUME NEW new, Completes(c, new)
      PROVE  UNCHANGED <<objects, folders>>
  BY <1>2 DEF Completes
<1>3. CASE \/ Finds(c) \/ FindsNothing(c) \/ MisreadsError(c) \/ Creates(c) \/ FindsSource(c)
           \/ MissesSource(c)
  BY <1>1, <1>3 DEF Finds, FindsNothing, MisreadsError, Creates, Changes, FindsSource,
     MissesSource, Ends
<1>4. CASE \/ MissesItem(c) \/ Uploads(c) \/ OpensSession(c) \/ SendsChunks(c)
           \/ Downloads(c) \/ Deletes(c) \/ Moves(c) \/ Copies(c)
  BY <1>1, <1>2, <1>4 DEF MissesItem, Ends, Uploads, OpensSession, SendsChunks, Downloads, Delivers, Deletes, Moves,
     Copies, Changes
<1>5. CASE CreatesFolder(c) \/ ReadsPage(c) \/ ReadsLastPage(c) \/ MisreadsPage(c)
  BY <1>1, <1>5 DEF CreatesFolder, Ends, ReadsPage, ReadsLastPage, Lists, MisreadsPage,
     ListsMistaken
<1>6. CASE Retries(c) \/ Refused(c)
  BY <1>6 DEF Retries, Refused
<1> QED
  BY <1>3, <1>4, <1>5, <1>6 DEF GoesOnGoogleDrive

LEMMA InitHasDriveInv == Init => DriveInv
<1> SUFFICES ASSUME Init, client = "GoogleDrive"
             PROVE  DriveInv
  BY DEF DriveInv
<1>1. /\ folders = {} /\ \A p \in Path : objects[p] = <<>> /\ kept[p] = {NoItem}
      /\ client \notin FileTrees
      /\ Live = {} /\ \A c \in Caller : ~Running(c)
      /\ ~stale /\ unlisted = {}
  BY DEF Init, FileTrees, Live, Running
<1>2. PICK loc : loc = [n \in Node |-> <<>>]
  OBVIOUS
<1>3. Tree(loc)
  <2>1. <<>> \in Seq(Name) /\ Root \in Node
    BY DEF Node
  <2> QED
    BY <1>1, <1>2, <2>1 DEF Tree
<1>4. DriveOK(loc)
  BY <1>1, <1>3 DEF DriveOK, FileOK, At, Ordered
<1> QED
  BY <1>1, <1>4 DEF DriveInv, DriveHolds

\* A call that begins asks for nothing yet.
LEMMA CallBegins ==
  ASSUME NEW c \in Caller, BeginsCall(c)
  PROVE  UNCHANGED <<client, drive, folders, objects, mistaken>> /\ raced \subseteq raced'
<1>1. ASSUME NEW k, NEW maybe, Begins(c, k, maybe)
      PROVE  UNCHANGED <<client, drive, folders, objects, mistaken>> /\ raced \subseteq raced'
  <2>1. UNCHANGED <<client, drive, folders, objects, mistaken>>
    BY <1>1 DEF Begins, service
  <2>2. raced' = raced \union
          (IF client \notin LooksFirst THEN {}
           ELSE Races(k) \union (IF Carries(k) /\ ~Clean(k.path) THEN {k.to} ELSE {}))
    BY <1>1 DEF Begins
  <2> QED
    BY <2>1, <2>2
<1>2. CASE \E p \in Path : BeginsDownload(c, p) \/ BeginsDelete(c, p)
  BY <1>1, <1>2 DEF BeginsDownload, BeginsDelete
<1>3. CASE \E p \in Path, v \in Content : BeginsUpload(c, p, v)
  BY <1>1, <1>3 DEF BeginsUpload
<1>4. CASE \E p, q \in Path : BeginsRename(c, p, q) \/ BeginsCopy(c, p, q)
  BY <1>1, <1>4 DEF BeginsRename, BeginsCopy
<1>5. CASE \E q \in Folders : BeginsCreateFolder(c, q) \/ BeginsList(c, q)
  BY <1>1, <1>5 DEF BeginsCreateFolder, BeginsList
<1> QED
  BY <1>2, <1>3, <1>4, <1>5 DEF BeginsCall

LEMMA NextKeepsDriveInv == StorageInv /\ DriveInv /\ [Next]_vars => DriveInv'
<1> SUFFICES ASSUME StorageInv, DriveInv, [Next]_vars, client' = "GoogleDrive"
             PROVE  DriveInv'
  BY DEF DriveInv
<1>1. StorageInv'
  BY NextKeepsInv
<1>2. ASSUME NEW c \in Caller, BeginsCall(c)
      PROVE  DriveInv'
  <2>1. UNCHANGED <<client, folders, objects, mistaken>> /\ raced \subseteq raced'
    BY <1>2, CallBegins
  <2>2. ASSUME ~mistaken, raced' = {}
        PROVE  DriveHolds'
    <3>1. /\ client = "GoogleDrive" /\ folders = {} /\ DriveHolds
          /\ ~Running(c)
      BY <1>2, <2>1, <2>2 DEF DriveInv, BeginsCall
    <3>2. CASE \E p \in Path : BeginsDownload(c, p) \/ BeginsDelete(c, p)
      BY <2>2, <3>1, <3>2, DriveFilesBegin
    <3>3. CASE \E p \in Path, v \in Content : BeginsUpload(c, p, v)
      BY <2>2, <3>1, <3>3, DriveFilesBegin
    <3>4. CASE \E p, q \in Path : BeginsRename(c, p, q) \/ BeginsCopy(c, p, q)
      BY <2>2, <3>1, <3>4, DriveTransfersBegin
    <3>5. CASE \E q \in Folders : BeginsCreateFolder(c, q) \/ BeginsList(c, q)
      BY <2>2, <3>1, <3>5, DriveFoldersBegin
    <3> QED
      BY <1>2, <3>2, <3>3, <3>4, <3>5 DEF BeginsCall
  <2> QED
    BY <2>1, <2>2 DEF DriveInv
<1>3. ASSUME NEW c \in Caller, Goes(c)
      PROVE  DriveInv'
  <2>1. Follows(c)
    BY <1>3, GoesFollows
  <2>2. client = "GoogleDrive" /\ Running(c) /\ (mistaken => mistaken') /\ raced' = raced
    BY <2>1 DEF Follows
  <2>3. GoesOnGoogleDrive(c) \/ Retries(c) \/ Refused(c)
    BY <1>3, <2>2, ObjectStoreIsOther, FileTreeIsOther DEF Goes
  <2>4. ASSUME ~mistaken', raced' = {}
        PROVE  DriveHolds'
    <3>1. DriveHolds /\ raced = {}
      BY <2>2, <2>4 DEF DriveInv
    <3>2. ~MisreadsError(c) /\ ~MisreadsPage(c)
      BY <2>4 DEF MisreadsError, MisreadsPage, ListsMistaken
    <3>3. CASE Finds(c) \/ FindsNothing(c)
      BY <1>1, <2>2, <3>1, <3>3, FindsHolds
    <3>4. CASE FindsSource(c) \/ MissesSource(c)
      BY <1>1, <2>2, <3>1, <3>4, SourceHolds
    <3>5. CASE \/ OpensSession(c) \/ Downloads(c) \/ CreatesFolder(c)
               \/ ReadsPage(c) \/ ReadsLastPage(c)
      BY <1>1, <2>2, <3>1, <3>5, ReadsHold
    <3>6. CASE Creates(c)
      BY <1>1, <2>2, <3>1, <3>6, CreatesHolds
    <3>7. CASE Uploads(c) \/ SendsChunks(c)
      BY <1>1, <2>2, <3>1, <3>7, UploadsHolds
    <3>8. CASE Deletes(c)
      BY <1>1, <2>2, <3>1, <3>8, DeletesHolds
    <3>9. CASE Moves(c)
      BY <1>1, <2>2, <3>1, <3>9, MovesHolds
    <3>10. CASE Copies(c)
      BY <1>1, <2>2, <2>4, <3>1, <3>10, CopiesHolds
    <3>11. CASE Retries(c) \/ Refused(c) \/ (MissesItem(c) /\ Ends(c))
      BY <1>1, <2>2, <3>1, <3>11, EndsHolds
    <3>12. MissesItem(c) => Ends(c)
      BY DEF MissesItem
    <3> QED
      BY <2>3, <3>2, <3>3, <3>4, <3>5, <3>6, <3>7, <3>8, <3>9, <3>10, <3>11, <3>12
      DEF GoesOnGoogleDrive
  <2> QED
    BY <2>2, <2>3, <2>4, DriveOnly DEF DriveInv
<1>4. CASE Crash \/ ExpiresB2 \/ UNCHANGED vars
  <2>1. /\ UNCHANGED <<client, drive, objects, folders, kept, raced, mistaken, unlisted, stale>>
        /\ (\A c \in Caller : call'[c] = NoCall) \/ call' = call
    BY <1>4 DEF Crash, ExpiresB2, vars, service, history
  <2>2. ASSUME NEW loc, DriveOK(loc)
        PROVE  DriveOK(loc)'
    <3>1. \A c \in Caller : Running(c)' => Running(c) /\ call'[c] = call[c]
      BY <2>1 DEF Running
    <3>2. Tree(loc)' /\ \A p \in Path : FileOK(loc, p)'
      BY <2>1, <2>2 DEF DriveOK, Tree, FileOK, At, Live, Nodes
    <3>3. ASSUME NEW c \in Caller, Running(c)'
          PROVE  Walking(loc, call[c])' /\ Owing(loc, call[c])'
      <4>1. PICK j : j = call'[c]
        OBVIOUS
      <4>2. Walking(loc, j) /\ Owing(loc, j)
        BY <2>2, <3>1, <3>3, <4>1 DEF DriveOK
      <4>3. Walking(loc, j)'
        BY <2>1, <4>2 DEF Walking, Nodes, Live, At
      <4>4. Owing(loc, j)'
        BY <2>1, <4>2 DEF Owing, Live, At
      <4> QED
        BY <4>1, <4>3, <4>4 DEF Walking, Owing
    <3>4. Ordered(loc)'
      <4>1. ASSUME NEW a \in Caller, NEW b \in Caller, a # b, Running(a)', Running(b)',
                   NEW q, (q \in Prefixes(Dest(call[a])) \intersect Prefixes(Dest(call[b])))'
            PROVE  At(loc, q)' # {}
        <5>1. PICK x, y : x = Dest(call'[a]) /\ y = Dest(call'[b])
          OBVIOUS
        <5>2. q \in Prefixes(x) \intersect Prefixes(y)
          BY <4>1, <5>1 DEF Prefixes, Dest
        <5>3. At(loc, q) # {}
          BY <2>2, <3>1, <4>1, <5>1, <5>2 DEF DriveOK, Ordered
        <5> QED
          BY <2>1, <5>3 DEF At, Live
      <4> QED
        BY <4>1 DEF Ordered
    <3> QED
      BY <3>2, <3>3, <3>4 DEF DriveOK
  <2> QED
    BY <2>1, <2>2 DEF DriveInv, DriveHolds
<1> QED
  BY <1>2, <1>3, <1>4 DEF Next

LEMMA SpecHasDriveInv == Spec => []DriveInv
<1>1. Init => DriveInv
  BY InitHasDriveInv
<1>2. StorageInv /\ DriveInv /\ [Next]_vars => DriveInv'
  BY NextKeepsDriveInv
<1> QED
  BY <1>1, <1>2, SpecHasInv, PTL DEF Spec

-----------------------------------------------------------------------------
(* The properties. *)

\* Only the client of Google Drive has items.
NoItems == client # "GoogleDrive" => Live = {}

LEMMA NoItemsAre == Spec => []NoItems
<1>1. Init => NoItems
  BY DEF Init, NoItems, Live
<1>2. StorageInv /\ NoItems /\ [Next]_vars => NoItems'
  <2> SUFFICES ASSUME StorageInv, NoItems, [Next]_vars
               PROVE  NoItems'
    OBVIOUS
  <2>1. ASSUME UNCHANGED client, client # "GoogleDrive" => UNCHANGED drive
        PROVE  NoItems'
    BY <2>1 DEF NoItems, Live
  <2>2. ASSUME NEW c \in Caller, BeginsCall(c)
        PROVE  NoItems'
    BY <2>1, <2>2, CallBegins
  <2>3. ASSUME NEW c \in Caller, Goes(c)
        PROVE  NoItems'
    BY <2>1, <2>3, GoesFollows DEF Follows
  <2>4. CASE ExpiresB2 \/ Crash \/ UNCHANGED vars
    BY <2>1, <2>4 DEF ExpiresB2, Crash, vars, service
  <2> QED
    BY <2>2, <2>3, <2>4 DEF Next
<1> QED
  BY <1>1, <1>2, SpecHasInv, PTL DEF Spec

\* The names of a path lead nowhere where there are no items.
LEMMA NothingReached ==
  ASSUME Live = {}, NEW p \in Path, NEW folder
  PROVE  Reached(p, folder) = {}
<1> DEFINE After(f) == [n \in 0..Len(p) |->
             IF n = 0 THEN {Root}
             ELSE UNION {Matches(m, p[n], folder \/ n < Len(p)) : m \in f[n - 1]}]
           rootOnly == [n \in 0..Len(p) |-> IF n = 0 THEN {Root} ELSE {}]
           nodes == CHOOSE f : f = After(f)
<1>1. \A m, name, x : Matches(m, name, x) = {}
  BY DEF Matches, Children
<1>2. rootOnly = After(rootOnly)
  BY <1>1
<1> HIDE DEF rootOnly
<1>3. nodes = After(nodes)
  BY <1>2
<1>4. Len(p) \in 0..Len(p) /\ Len(p) # 0
  <2>1. Len(p) > 0 /\ p \in Seq(Name)
    BY FoldersAre
  <2> QED
    BY <2>1
<1>5. After(nodes)[Len(p)] = {}
  <2> HIDE DEF nodes
  <2> QED
    BY <1>1, <1>4
<1>6. Reached(p, folder) = nodes[Len(p)]
  BY DEF Reached
<1> QED
  BY <1>3, <1>5, <1>6

\* Every variable holds what it is declared to hold, whatever the provider, the
\* paths, the callers and the bounds are.
THEOREM StorageTypeCorrect == Spec => []TypeOK
<1>1. StorageInv => TypeOK
  BY InvHasType
<1> QED
  BY <1>1, SpecHasInv, PTL

\* What there is of a file that has one version.
LEMMA OnlyContent ==
  ASSUME StorageInv, NEW p \in Path, Len(objects[p]) <= 1
  PROVE  Versions(p) = IF There(p) THEN {Newest(p)} ELSE {}
<1>1. PICK s \in Seq(Content \union {Empty}) : s = objects[p]
  BY DEF StorageInv, ServiceType
<1>2. Len(s) \in Nat /\ DOMAIN s = 1..Len(s) /\ (s # <<>> => Len(s) # 0)
      /\ (s = <<>> => Len(s) = 0)
  OBVIOUS
<1>3. CASE s = <<>>
  <2>1. DOMAIN s = {}
    BY <1>3
  <2> QED
    BY <1>1, <1>3, <2>1 DEF Versions, There
<1>4. CASE s # <<>>
  <2>1. PICK n \in Nat : n = Len(s)
    BY <1>2
  <2>2. n <= 1 /\ n # 0
    BY <1>1, <1>2, <1>4, <2>1
  <2>3. n = 1 /\ 1..n = {1}
    BY <2>2
  <2>4. Len(s) = 1 /\ DOMAIN s = {1}
    BY <1>2, <2>1, <2>3
  <2> QED
    BY <1>1, <1>4, <2>4 DEF Versions, There, Newest
<1> QED
  BY <1>3, <1>4

\* Calls race only where the client looks first.
LEMMA OthersNeverRace ==
  ASSUME StorageInv, client \notin LooksFirst \/ raced = {}
  PROVE  raced = {}
BY DEF StorageInv, CallsInv

\* What there is at a path of the drive.
LEMMA DriveFilesAre ==
  ASSUME StorageInv, DriveInv, client = "GoogleDrive", ~mistaken, raced = {}
  PROVE  \E loc : /\ DriveOK(loc)
                  /\ \A p \in Path : /\ ItemsAt(p) = At(loc, p) /\ FileOK(loc, p)
                                     /\ ContentsAt(p) = {drive[i].content : i \in At(loc, p)}
<1>1. PICK loc : DriveOK(loc)
  BY DEF DriveInv, DriveHolds
<1>2. \A p \in Path : ItemsAt(p) = At(loc, p)
  BY <1>1, ReachedIs DEF DriveOK, ItemsAt
<1> QED
  BY <1>1, <1>2 DEF ContentsAt, DriveOK

\* No client but that of B2, which keeps versions, and that of IPFS, which pins,
\* ever has two files at a path, whatever calls run at the same time: what it uploads
\* again after an answer was lost replaces what is there.  Google Drive and MEGA allow
\* two files of one name, and their clients look before they create
\* (google_drive.rs:221, mega_provider.rs:235): for these two the theorem says nothing
\* of a run from where a call has begun that had a file, or a folder to make, in
\* common with a running one.
THEOREM OneFilePerPathHolds ==
  Spec => [](client \notin LooksFirst \/ raced = {} => OneFilePerPath)
<1>1. StorageInv /\ HoldsInv /\ NoItems /\ DriveInv =>
        (client \notin LooksFirst \/ raced = {} => OneFilePerPath)
  <2> SUFFICES ASSUME StorageInv, HoldsInv, NoItems, DriveInv, ~mistaken, raced = {},
                      NEW p \in Path
               PROVE  /\ Cardinality(ItemsAt(p)) <= 1
                      /\ client \notin {"B2", "Ipfs"} => Len(objects[p]) <= 1
    BY OthersNeverRace DEF OneFilePerPath
  <2>1. CASE client # "GoogleDrive"
    <3>1. Cardinality(ItemsAt(p)) = 0
      BY <2>1, NothingReached, FS_EmptySet DEF NoItems, ItemsAt
    <3>2. client \notin {"B2", "Ipfs"} => Len(objects[p]) <= 1
      BY <2>1 DEF HoldsInv, ByPath, PathOK
    <3> QED
      BY <3>1, <3>2
  <2>2. CASE client = "GoogleDrive"
    <3>1. PICK loc : DriveOK(loc) /\ ItemsAt(p) = At(loc, p)
      BY <2>2, DriveFilesAre
    <3>2. \A i, k \in ItemsAt(p) : i = k
      BY <3>1 DEF DriveOK, Tree, At
    <3>3. ItemsAt(p) = {} \/ \E i : ItemsAt(p) = {i}
      BY <3>2
    <3>4. Cardinality(ItemsAt(p)) <= 1
      <4>1. CASE ItemsAt(p) = {}
        BY <4>1, FS_EmptySet
      <4>2. ASSUME NEW i, ItemsAt(p) = {i}
            PROVE  Cardinality(ItemsAt(p)) <= 1
        <5>1. Cardinality({i}) = 1
          BY FS_Singleton
        <5> QED
          BY <4>2, <5>1
      <4> QED
        BY <3>3, <4>1, <4>2
    <3>5. Len(objects[p]) <= 1
      <4>1. objects[p] = <<>> /\ Len(<<>>) = 0
        BY <2>2 DEF DriveInv
      <4> QED
        BY <4>1
    <3> QED
      BY <3>4, <3>5
  <2> QED
    BY <2>1, <2>2
<1> QED
  BY <1>1, SpecHasInv, SpecHasDriveInv, NoItemsAre, PTL

\* What the service holds at a path is what the calls may have left there, also when
\* calls for the same file go on in between, requests are retried after they had
\* their effect, and the program is killed between two requests; of the clients of
\* Google Drive and MEGA the theorem says this until two calls race.
THEOREM KeptIsThereHolds ==
  Spec => [](client \notin LooksFirst \/ raced = {} => KeptIsThere)
<1>1. StorageInv /\ HoldsInv /\ DriveInv =>
        (client \notin LooksFirst \/ raced = {} => KeptIsThere)
  <2> SUFFICES ASSUME StorageInv, HoldsInv, DriveInv, ~mistaken, raced = {}, client # "Ipfs",
                      NEW p \in Path
               PROVE  (IF ContentsAt(p) = {} THEN {NoItem} ELSE ContentsAt(p)) \subseteq kept[p]
    BY OthersNeverRace DEF KeptIsThere
  <2>1. CASE client # "GoogleDrive"
    <3>1. Now(p) \in kept[p] /\ (client = "Mega" => Len(objects[p]) <= 1)
      BY <2>1 DEF HoldsInv, ByPath, PathOK
    <3>2. There(p) => Now(p) # NoItem
      BY NowIs DEF StorageInv
    <3>3. client = "Mega" => Versions(p) = IF There(p) THEN {Newest(p)} ELSE {}
      BY <3>1, OnlyContent
    <3> QED
      BY <2>1, <3>1, <3>2, <3>3 DEF Now, ContentsAt
  <2>2. CASE client = "GoogleDrive"
    <3>1. PICK loc : /\ FileOK(loc, p)
                     /\ ContentsAt(p) = {drive[i].content : i \in At(loc, p)}
      BY <2>2, DriveFilesAre
    <3> QED
      BY <3>1 DEF FileOK
  <2> QED
    BY <2>1, <2>2
<1> QED
  BY <1>1, SpecHasInv, SpecHasDriveInv, PTL

\* A download delivers the newest content that the calls may have left at its path,
\* also while calls for it run; with Google Drive and MEGA until two calls race.
THEOREM DownloadsDeliverWhatWasLeft ==
  Spec => [](client \notin LooksFirst \/ raced = {} => DownloadsWhatWasLeft)
<1>1. StorageInv /\ HoldsInv /\ DriveInv =>
        (client \notin LooksFirst \/ raced = {} => DownloadsWhatWasLeft)
  BY OthersNeverRace DEF HoldsInv, ByPath, DriveInv, DriveHolds, DownloadsWhatWasLeft
<1> QED
  BY <1>1, SpecHasInv, SpecHasDriveInv, PTL

\* A list that is read to its end has every file that was in the folder all the
\* while: the engine takes a missing one for deleted (engine/scanner.rs).  With
\* Google Drive and MEGA this is said until two calls race.
THEOREM ListsAreComplete ==
  Spec => [](client \notin LooksFirst \/ raced = {} => ListsEveryFile)
<1>1. StorageInv /\ HoldsInv /\ DriveInv =>
        (client \notin LooksFirst \/ raced = {} => ListsEveryFile)
  BY OthersNeverRace DEF HoldsInv, ByPath, ListOK, DriveInv, DriveHolds, ListsEveryFile
<1> QED
  BY <1>1, SpecHasInv, SpecHasDriveInv, PTL

\* While a file is renamed, its content is at its old path or at its new one,
\* wherever the call is cut off: S3 has no rename, and its client deletes the
\* source only after the copy was acknowledged (s3.rs:129).  Another call for one of
\* the two files is left out, and with Google Drive whatever comes after a race.
THEOREM RenamesKeepContent ==
  Spec => [](client \notin LooksFirst \/ raced = {} => RenameKeepsContent)
<1>1. StorageInv /\ HoldsInv /\ DriveInv =>
        (client \notin LooksFirst \/ raced = {} => RenameKeepsContent)
  <2> SUFFICES ASSUME StorageInv, HoldsInv, DriveInv, ~mistaken, raced = {},
                      NEW c \in Caller, Running(c), call[c].op = "rename",
                      call[c].was \subseteq Content, call[c].others = {}
               PROVE  call[c].was \intersect
                        (ContentsAt(call[c].path) \union ContentsAt(call[c].to)) # {}
    BY OthersNeverRace DEF RenameKeepsContent
  <2>1. CallOK(call[c]) /\ client \in Renames
    BY CallKnown DEF CallOK, Carries
  <2>2. CASE client # "GoogleDrive"
    <3>1. Now(call[c].path) \in call[c].was \/ Now(call[c].to) \in call[c].was
      BY <2>1, <2>2 DEF HoldsInv, ByPath, Renames, Standing, Carries
    <3>2. \A q : Now(q) \in Content => ContentsAt(q) = {Now(q)}
      BY <2>1, <2>2, StorageAssumption DEF Now, ContentsAt, Renames
    <3> QED
      BY <3>1, <3>2
  <2>3. CASE client = "GoogleDrive"
    <3>1. PICK loc : /\ DriveOK(loc)
                     /\ \A p \in Path : ContentsAt(p) = {drive[i].content : i \in At(loc, p)}
      BY <2>3, DriveFilesAre
    <3>2. PICK j : j = call[c]
      OBVIOUS
    <3>3. /\ Owing(loc, j) /\ j.op = "rename" /\ NoItem \notin j.was
          /\ j.path \in Path /\ j.to \in Path
      BY <2>1, <3>1, <3>2, StorageAssumption DEF DriveOK, CallOK, Carries
    <3>4. PICK i \in At(loc, j.path) \union At(loc, j.to) : drive[i].content \in j.was
      BY <3>3 DEF Owing
    <3>5. drive[i].content \in ContentsAt(j.path) \union ContentsAt(j.to)
      BY <3>1, <3>3, <3>4
    <3> QED
      BY <3>2, <3>4, <3>5
  <2> QED
    BY <2>2, <2>3
<1> QED
  BY <1>1, SpecHasInv, SpecHasDriveInv, PTL

=============================================================================
