-------------------------- MODULE StateStoreProofs --------------------------
(***************************************************************************)
(* Theorems about StateStore, for any number of runners and catalogs:      *)
(*   - the type invariant;                                                 *)
(*   - the three files implement one catalog, which is atomic for every    *)
(*     load that can read it, unless something else damages it, and no     *)
(*     step of the store destroys the last good copy.                      *)
(* The second rests on StoreInv: until the first damage, the catalog file, *)
(* once it exists, is the catalog that was saved last; and a runner that   *)
(* was sent to the backup because there was no catalog file finds nothing  *)
(* there that was not in place during its load.                            *)
(*   - a load survives one damage of the catalog file, if operations come  *)
(*     one after the other and end without an error.                       *)
(* This rests on DamageInv: while the catalog file holds garbage, nothing  *)
(* has replaced the backup, which holds one of the last two catalogs.      *)
(***************************************************************************)
EXTENDS StateStore, TLAPS

Saving == {"write", "backup", "copy", "rename"}
Loading == {"exists", "read_main", "read_bak", "default"}

\* A runner in save() or load().
SaveInv ==
  \A r \in Runner :
    /\ value[r] # None <=> pc[r] \in Saving
    /\ window[r] # {} <=> pc[r] \in Loading
    /\ pc[r] \in {"backup", "copy", "rename"} => tmp[r] = value[r]
    /\ pc[r] = "copy" => src[r] # None

\* The catalog file and what is copied from it.
FileInv ==
  /\ main \in State => main = latest
  /\ main = Absent => latest = Default /\ bak = Absent /\ Copying = {}
  /\ main # Garbage
  /\ \A q \in Copying : src[q] \in State

\* A runner in load().
LoadInv ==
  \A r \in Runner :
    /\ pc[r] \in Loading => latest \in window[r]
    /\ pc[r] = "read_main" => main \in State
    /\ pc[r] = "default" => r \in unread
    /\ pc[r] = "read_bak" /\ r \notin unread =>
         /\ Default \in window[r]
         /\ bak \in State => bak \in window[r]
         /\ \A q \in Copying : src[q] \in window[r]

-----------------------------------------------------------------------------
(* Type correctness. *)

\* A save carries its catalog from its beginning to the rename.
LEMMA SaveStep ==
  ASSUME TypeOK, SaveInv, [Next]_vars
  PROVE  TypeOK' /\ SaveInv'
<1> USE StoreAssumption DEF Bytes
<1>1. ASSUME NEW r \in Runner, Saves(r)
      PROVE  TypeOK' /\ SaveInv'
  <2>1. CASE \E s \in State : SaveBegins(r, s)
    BY <2>1 DEF SaveBegins, Goto, TypeOK, PCs, SaveInv, Saving, Loading, Alone
  <2>2. CASE TempWritten(r)
    <3>1. value[r] \in State
      BY <2>2 DEF TempWritten, TypeOK, SaveInv, Saving
    <3> QED
      BY <2>2, <3>1 DEF TempWritten, Goto, TypeOK, PCs, SaveInv, Saving, Loading, Alone
  <2>3. CASE NoBackup(r)
    BY <2>3 DEF NoBackup, Goto, TypeOK, PCs, SaveInv, Saving, Loading, Alone
  <2>4. CASE BackupOpens(r)
    BY <2>4 DEF BackupOpens, Goto, TypeOK, PCs, SaveInv, Saving, Loading, Alone
  <2>5. CASE BackupCloses(r)
    <3>1. src[r] \in Bytes
      BY <2>5 DEF BackupCloses, TypeOK, SaveInv
    <3> QED
      BY <2>5, <3>1 DEF BackupCloses, Goto, TypeOK, PCs, SaveInv, Saving, Loading, Alone
  <2>6. CASE BackupFails(r)
    BY <2>6 DEF BackupFails, Goto, TypeOK, PCs, SaveInv, Saving, Loading, Alone
  <2>7. CASE Renamed(r)
    <3>1. value[r] \in State /\ tmp[r] = value[r]
      BY <2>7 DEF Renamed, TypeOK, SaveInv, Saving
    <3>2. window' \in [Runner -> SUBSET State]
      BY <2>7, <3>1 DEF Renamed, TypeOK
    <3> QED
      BY <2>7, <3>1, <3>2 DEF Renamed, Goto, TypeOK, PCs, SaveInv, Saving, Loading, Alone
  <2>8. CASE SaveFails(r)
    BY <2>8 DEF SaveFails, Goto, TypeOK, PCs, SaveInv, Saving, Loading, Alone
  <2> QED
    BY <1>1, <2>1, <2>2, <2>3, <2>4, <2>5, <2>6, <2>7, <2>8 DEF Saves
<1>2. ASSUME NEW r \in Runner, Loads(r)
      PROVE  TypeOK' /\ SaveInv'
  <2>1. CASE LoadBegins(r)
    BY <2>1 DEF LoadBegins, Goto, TypeOK, PCs, SaveInv, Saving, Loading, Alone
  <2>2. CASE ChecksExists(r) \/ MainRejected(r)
    BY <2>2 DEF ChecksExists, MainRejected, Goto, TypeOK, PCs, SaveInv, Saving, Loading, Alone
  <2>3. CASE ReadsMain(r)
    BY <2>3 DEF ReadsMain, Returns, Goto, TypeOK, PCs, SaveInv, Saving, Loading, Alone
  <2>4. CASE ReadsBackup(r) \/ ReturnsDefault(r)
    BY <2>4 DEF ReadsBackup, ReturnsDefault, Returns, Goto, TypeOK, PCs, SaveInv, Saving,
                Loading, Alone
  <2>5. CASE ReadFails(r)
    <3>1. pc[r] \in Loading /\ UNCHANGED <<tmp, value, src, window>>
      BY <2>5 DEF ReadFails, Loading
    <3>2. PICK l \in {"read_bak", "default"} : pc' = [pc EXCEPT ![r] = l]
      BY <2>5 DEF ReadFails, Goto
    <3>3. TypeOK'
      BY <2>5, <3>2 DEF ReadFails, TypeOK, PCs
    <3>4. SaveInv'
      BY <3>1, <3>2 DEF TypeOK, SaveInv, Saving, Loading
    <3> QED
      BY <3>3, <3>4
  <2> QED
    BY <1>2, <2>1, <2>2, <2>3, <2>4, <2>5 DEF Loads
<1>3. CASE Crash
  BY <1>3 DEF Crash, TypeOK, PCs, SaveInv, Saving, Loading
<1>4. CASE Corrupts
  BY <1>4 DEF Corrupts, TypeOK, SaveInv
<1>5. CASE UNCHANGED vars
  BY <1>5 DEF vars, TypeOK, SaveInv
<1> QED
  BY <1>1, <1>2, <1>3, <1>4, <1>5 DEF Next

LEMMA SaveInvariant == Spec => [](TypeOK /\ SaveInv)
<1>1. Init => TypeOK /\ SaveInv
  BY StoreAssumption DEF Init, TypeOK, PCs, Bytes, SaveInv, Saving, Loading
<1> QED
  BY <1>1, SaveStep, PTL DEF Spec

(* Every reachable state is well typed, damaged files included: a temporary
   file is renamed only when it holds the catalog being saved. *)
THEOREM StoreTypeCorrect == Spec => []TypeOK
BY SaveInvariant, PTL

-----------------------------------------------------------------------------
(* Until something else damages the catalog file. *)

Undamaged == corruptions = 0

StoreInv == Undamaged => FileInv /\ LoadInv

\* Damage is never forgotten.
LEMMA DamageStays ==
  ASSUME TypeOK, [Next]_vars, Undamaged'
  PROVE  Undamaged
BY DEF Undamaged, TypeOK, Next, Saves, Loads, SaveBegins, TempWritten, NoBackup,
       BackupOpens, BackupCloses, BackupFails, Renamed, SaveFails, LoadBegins,
       ChecksExists, ReadsMain, MainRejected, ReadsBackup, ReadFails, ReturnsDefault, Returns, Crash,
       Corrupts, vars

\* The files and the loads under way, after a step.
LEMMA FileStep ==
  ASSUME Undamaged', TypeOK, SaveInv, FileInv, LoadInv, [Next]_vars
  PROVE  FileInv' /\ LoadInv'
<1> USE StoreAssumption DEF Bytes
<1>1. ASSUME NEW r \in Runner, Saves(r)
      PROVE  FileInv' /\ LoadInv'
  <2>1. CASE (\E s \in State : SaveBegins(r, s)) \/ TempWritten(r) \/ SaveFails(r)
    BY <2>1 DEF SaveBegins, TempWritten, SaveFails, Goto, TypeOK, PCs, FileInv,
                LoadInv, Copying, Loading
  <2>2. CASE NoBackup(r)
    BY <2>2 DEF NoBackup, Goto, TypeOK, FileInv, LoadInv, Copying, Loading
  <2>3. CASE BackupOpens(r)
    <3>1. main \in State /\ main = latest
      BY <2>3 DEF BackupOpens, TypeOK, FileInv
    <3>2. Copying' \subseteq Copying \union {r}
      BY <2>3 DEF BackupOpens, Goto, Copying, TypeOK
    <3>3. /\ src'[r] = main
          /\ \A q \in Runner : q # r => src'[q] = src[q]
      BY <2>3 DEF BackupOpens, TypeOK
    <3>4. FileInv'
      BY <2>3, <3>1, <3>2, <3>3 DEF BackupOpens, FileInv, Copying
    <3>5. LoadInv'
      <4> SUFFICES ASSUME NEW q \in Runner
                   PROVE  /\ pc'[q] \in Loading => latest \in window[q]
                          /\ pc'[q] = "read_main" => main \in State
                          /\ pc'[q] = "default" => q \in unread
                          /\ pc'[q] = "read_bak" /\ q \notin unread =>
                               /\ Default \in window[q]
                               /\ \A x \in Copying' : src'[x] \in window[q]
        BY <2>3 DEF BackupOpens, LoadInv
      <4>1. q # r => pc'[q] = pc[q]
        BY <2>3 DEF BackupOpens, Goto, TypeOK
      <4>2. pc'[r] = "copy" /\ pc[r] = "backup"
        BY <2>3 DEF BackupOpens, Goto, TypeOK
      <4> QED
        BY <3>1, <3>2, <3>3, <4>1, <4>2 DEF LoadInv, Loading, Copying
    <3> QED
      BY <3>4, <3>5
  <2>4. CASE BackupCloses(r)
    <3>1. Copying' \subseteq Copying /\ r \in Copying
      BY <2>4 DEF BackupCloses, Goto, Copying, TypeOK
    <3>2. \A q \in Copying' : src'[q] = src[q]
      BY <2>4 DEF BackupCloses, Goto, Copying, TypeOK
    <3>3. bak' \in {src[r], Garbage} /\ UNCHANGED <<main, latest, window, unread>>
      BY <2>4 DEF BackupCloses
    <3>4. \A q \in Runner : /\ q # r => pc'[q] = pc[q]
                            /\ pc'[r] = "rename" /\ pc[r] = "copy"
      BY <2>4 DEF BackupCloses, Goto, TypeOK
    <3>5. FileInv'
      BY <3>1, <3>2, <3>3 DEF FileInv
    <3>6. LoadInv'
      BY <3>1, <3>2, <3>3, <3>4 DEF LoadInv, Loading
    <3> QED
      BY <3>5, <3>6
  <2>5. CASE BackupFails(r)
    BY <2>5 DEF BackupFails, Goto, TypeOK, FileInv, LoadInv, Copying, Loading
  <2>6. CASE Renamed(r)
    <3>1. value[r] \in State /\ tmp[r] = value[r]
      BY <2>6 DEF Renamed, TypeOK, SaveInv, Saving
    <3>2. Copying' = Copying
      BY <2>6 DEF Renamed, Goto, Copying, TypeOK
    <3>3. FileInv'
      BY <2>6, <3>1, <3>2 DEF Renamed, FileInv, TypeOK
    <3>4. LoadInv'
      BY <2>6, <3>1, <3>2 DEF Renamed, Goto, LoadInv, Loading, TypeOK
    <3> QED
      BY <3>3, <3>4
  <2> QED
    BY <1>1, <2>1, <2>2, <2>3, <2>4, <2>5, <2>6 DEF Saves
<1>2. ASSUME NEW r \in Runner, Loads(r)
      PROVE  FileInv' /\ LoadInv'
  <2>1. Copying' = Copying /\ UNCHANGED <<main, bak, src, latest>>
    BY <1>2 DEF Loads, LoadBegins, ChecksExists, ReadsMain, MainRejected,
                ReadsBackup, ReadFails, ReturnsDefault, Returns, Goto, Copying, TypeOK
  <2>2. FileInv'
    BY <2>1 DEF FileInv
  <2>3. CASE LoadBegins(r)
    <3>1. /\ pc'[r] = "exists" /\ window'[r] = {latest} /\ unread' = unread
          /\ \A q \in Runner \ {r} : pc'[q] = pc[q] /\ window'[q] = window[q]
      BY <2>3 DEF LoadBegins, Goto, TypeOK
    <3> QED
      BY <2>1, <2>2, <3>1 DEF LoadInv, Loading
  <2>4. CASE ChecksExists(r)
    <3>1. CASE main = Absent
      BY <2>1, <2>2, <2>4, <3>1
         DEF ChecksExists, Goto, LoadInv, Loading, FileInv, TypeOK
    <3>2. CASE main # Absent
      BY <2>1, <2>2, <2>4, <3>2
         DEF ChecksExists, Goto, LoadInv, Loading, FileInv, TypeOK
    <3> QED
      BY <3>1, <3>2
  <2>5. CASE ReadsMain(r) \/ ReadsBackup(r) \/ ReturnsDefault(r)
    <3>1. /\ pc'[r] = "idle" /\ window'[r] = {} /\ unread' = unread \ {r}
          /\ \A q \in Runner \ {r} : pc'[q] = pc[q] /\ window'[q] = window[q]
      BY <2>5 DEF ReadsMain, ReadsBackup, ReturnsDefault, Returns, Goto, TypeOK
    <3> QED
      BY <2>1, <2>2, <3>1 DEF LoadInv, Loading
  <2>6. CASE MainRejected(r)
    BY <2>6 DEF MainRejected, LoadInv
  <2>7. CASE ReadFails(r)
    <3>1. /\ pc'[r] \in {"read_bak", "default"} /\ pc[r] \in Loading /\ unread' = unread \union {r}
          /\ window' = window
          /\ \A q \in Runner \ {r} : pc'[q] = pc[q]
      BY <2>7 DEF ReadFails, Goto, TypeOK, Loading
    <3> QED
      BY <2>1, <2>2, <3>1 DEF LoadInv, Loading
  <2> QED
    BY <1>2, <2>2, <2>3, <2>4, <2>5, <2>6, <2>7 DEF Loads
<1>3. CASE Crash
  <2>1. Copying' = {}
    BY <1>3 DEF Crash, Copying
  <2> QED
    BY <1>3, <2>1 DEF Crash, FileInv, LoadInv, Loading
<1>4. CASE Corrupts
  BY <1>4 DEF Corrupts, Undamaged, TypeOK
<1>5. CASE UNCHANGED vars
  BY <1>5 DEF vars, FileInv, LoadInv, Copying
<1> QED
  BY <1>1, <1>2, <1>3, <1>4, <1>5 DEF Next

LEMMA StoreInvariant == Spec => [](TypeOK /\ SaveInv /\ StoreInv)
<1>1. Init => StoreInv
  BY StoreAssumption DEF Init, StoreInv, FileInv, LoadInv, Copying, Loading, Bytes
<1>2. TypeOK /\ SaveInv /\ StoreInv /\ [Next]_vars => StoreInv'
  <2> SUFFICES ASSUME TypeOK, SaveInv, StoreInv, [Next]_vars, Undamaged'
               PROVE  FileInv' /\ LoadInv'
    BY DEF StoreInv
  <2>1. Undamaged
    BY DamageStays
  <2> QED
    BY <2>1, FileStep DEF StoreInv
<1> QED
  BY <1>1, <1>2, SaveInvariant, PTL DEF Spec

\* What a load that ends may return.
LEMMA LoadEnds ==
  ASSUME TypeOK, SaveInv, StoreInv, NEW r \in Runner,
         ReadsMain(r) \/ ReadsBackup(r) \/ ReturnsDefault(r)
  PROVE  Abstract!EndLoad(r)
<1> USE StoreAssumption DEF Bytes
<1>1. window[r] # {} /\ pc[r] \in Loading
  BY DEF ReadsMain, ReadsBackup, ReturnsDefault, SaveInv, Loading
<1>2. PICK s \in State : Returns(r, s) /\ (Undamaged => s \in window[r] \/ r \in unread)
  <2>1. CASE ReadsMain(r)
    BY <1>1, <2>1 DEF ReadsMain, StoreInv, FileInv, LoadInv
  <2>2. CASE ReadsBackup(r)
    BY <2>2 DEF ReadsBackup, StoreInv, LoadInv
  <2>3. CASE ReturnsDefault(r)
    BY <2>3 DEF ReturnsDefault, StoreInv, LoadInv
  <2> QED
    BY <2>1, <2>2, <2>3
<1>3. Undamaged \/ corruptions > 0
  BY DEF Undamaged, TypeOK
<1> QED
  BY <1>1, <1>2, <1>3 DEF Returns, Abstract!EndLoad

\* Every step of the three files is a step of the one catalog, or none.
LEMMA StepRefines ==
  ASSUME TypeOK, SaveInv, StoreInv, [Next]_vars
  PROVE  [Abstract!ANext]_(Abstract!avars)
<1> USE StoreAssumption DEF Bytes
<1>1. ASSUME NEW r \in Runner, Saves(r)
      PROVE  [Abstract!ANext]_(Abstract!avars)
  <2>1. ASSUME NEW s \in State, SaveBegins(r, s)
        PROVE  Abstract!BeginSave(r, s)
    BY <2>1 DEF SaveBegins, Abstract!BeginSave, SaveInv, Saving, Loading
  <2>2. CASE Renamed(r)
    <3>1. value[r] # None
      BY <2>2 DEF Renamed, SaveInv, Saving
    <3>2. Abstract!Commit(r)
      BY <2>2, <3>1 DEF Renamed, Abstract!Commit
    <3> QED
      BY <3>2 DEF Abstract!ANext
  <2>3. CASE SaveFails(r)
    <3>1. value[r] # None
      BY <2>3 DEF SaveFails, SaveInv, Saving
    <3>2. Abstract!Fail(r)
      BY <2>3, <3>1 DEF SaveFails, Abstract!Fail
    <3> QED
      BY <3>2 DEF Abstract!ANext
  <2>4. CASE \/ TempWritten(r) \/ NoBackup(r) \/ BackupOpens(r)
             \/ BackupCloses(r) \/ BackupFails(r)
    BY <2>4 DEF TempWritten, NoBackup, BackupOpens, BackupCloses, BackupFails,
                Abstract!avars
  <2> QED
    BY <1>1, <2>1, <2>2, <2>3, <2>4 DEF Saves, Abstract!ANext
<1>2. ASSUME NEW r \in Runner, Loads(r)
      PROVE  [Abstract!ANext]_(Abstract!avars)
  <2>1. CASE LoadBegins(r)
    <3>1. value[r] = None /\ window[r] = {}
      BY <2>1 DEF LoadBegins, SaveInv, Saving, Loading
    <3>2. Abstract!BeginLoad(r)
      BY <2>1, <3>1 DEF LoadBegins, Abstract!BeginLoad
    <3> QED
      BY <3>2 DEF Abstract!ANext
  <2>2. CASE ReadsMain(r) \/ ReadsBackup(r) \/ ReturnsDefault(r)
    BY <2>2, LoadEnds DEF Abstract!ANext
  <2>3. CASE ChecksExists(r) \/ MainRejected(r)
    BY <2>3 DEF ChecksExists, MainRejected, Abstract!avars
  <2>4. CASE ReadFails(r)
    <3>1. window[r] # {}
      BY <2>4 DEF ReadFails, SaveInv, Loading
    <3>2. Abstract!FailRead(r)
      BY <2>4, <3>1 DEF ReadFails, Abstract!FailRead
    <3> QED
      BY <3>2 DEF Abstract!ANext
  <2> QED
    BY <1>2, <2>1, <2>2, <2>3, <2>4 DEF Loads
<1>3. CASE Crash
  BY <1>3 DEF Crash, Abstract!Killed, Abstract!ANext
<1>4. CASE Corrupts
  <2>1. Abstract!Damage
    BY <1>4 DEF Corrupts, TypeOK, Abstract!Damage
  <2> QED
    BY <2>1 DEF Abstract!ANext
<1>5. CASE UNCHANGED vars
  BY <1>5 DEF vars, Abstract!avars
<1> QED
  BY <1>1, <1>2, <1>3, <1>4, <1>5 DEF Next

(* For any number of runners, with crashes and failing saves at any point, a load
   that meets no read error returns a catalog that was in place at some moment of
   the load, as long as nothing else damages the catalog file; one that does meet
   a read error may return any catalog (state_io.rs:85-159). *)
THEOREM StoreIsAtomic == Spec => SavesAtomically
<1>1. Init => Abstract!AInit
  BY DEF Init, Abstract!AInit
<1>2. TypeOK /\ SaveInv /\ StoreInv /\ [Next]_vars
        => [Abstract!ANext]_(Abstract!avars)
  BY StepRefines
<1> QED
  BY <1>1, <1>2, StoreInvariant, PTL DEF Spec, SavesAtomically, Abstract!ASpec

(* As long as nothing else damages the catalog file, a kill after any step leaves
   a good copy: the file itself is never anything but a whole catalog. *)
THEOREM GoodCopyIsKept == Spec => LastGoodCopyIsKept
<1>1. /\ TypeOK /\ SaveInv /\ StoreInv
      /\ (TypeOK /\ SaveInv /\ StoreInv)' /\ [Next]_vars
      => [corruptions' = 0 /\ (main \in State \/ bak \in State) =>
            main' \in State \/ bak' \in State]_vars
  <2> SUFFICES ASSUME TypeOK, SaveInv, StoreInv, TypeOK', StoreInv', [Next]_vars,
                      Undamaged', main \in State \/ bak \in State
               PROVE  main' \in State
    BY DEF Undamaged
  <2>1. Undamaged
    BY DamageStays
  <2>2. main \in State
    BY <2>1, StoreAssumption DEF StoreInv, FileInv, TypeOK, Bytes
  <2>3. main' # Absent
    <3>1. CASE \E r \in Runner : Renamed(r)
      <4>1. PICK r \in Runner : Renamed(r)
        BY <3>1
      <4>2. tmp[r] = value[r] /\ value[r] \in State
        BY <4>1 DEF Renamed, SaveInv, Saving, TypeOK
      <4> QED
        BY <4>1, <4>2, StoreAssumption DEF Renamed, Bytes
    <3>2. CASE Corrupts
      BY <3>2 DEF Corrupts, Undamaged, TypeOK
    <3>3. CASE UNCHANGED main
      BY <2>2, <3>3, StoreAssumption DEF Bytes
    <3> QED
      BY <3>1, <3>2, <3>3
         DEF Next, Saves, Loads, SaveBegins, TempWritten, NoBackup, BackupOpens,
             BackupCloses, BackupFails, SaveFails, LoadBegins, ChecksExists,
             ReadsMain, MainRejected, ReadsBackup, ReadFails, ReturnsDefault, Returns, Crash, vars
  <2> QED
    BY <2>3 DEF StoreInv, FileInv, TypeOK, Bytes
<1> QED
  BY <1>1, StoreInvariant, PTL DEF Spec, LastGoodCopyIsKept

-----------------------------------------------------------------------------
(* Damage to the catalog file, as long as operations come one after the other. *)

Calm == calm /\ corruptions <= 1

\* The backup is the catalog that was saved before the last one.
Kept == bak = before \/ (bak = Absent /\ before = Default)

\* One operation at a time: the catalog file is the last catalog that was saved
\* unless it is the damaged file, and then the backup is still a good one.
CalmInv ==
  /\ \A q, r \in Runner : pc[q] # "idle" /\ pc[r] # "idle" => q = r
  /\ \A r \in Runner : ~shared[r]
  /\ main \in {latest, Garbage, Absent}
  /\ main = Garbage => ~Undamaged
  /\ main = Absent => Undamaged /\ latest = Default /\ before = Default /\ bak = Absent
  /\ (\A r \in Runner : pc[r] \notin {"copy", "rename"}) /\ (Undamaged \/ main = Garbage) => Kept
  /\ \A r \in Runner :
       /\ pc[r] = "copy" /\ Undamaged => src[r] = latest
       /\ pc[r] = "rename" /\ Undamaged => bak = latest \/ (bak = Absent /\ latest = Default)
       /\ pc[r] = "copy" => main # Absent
       /\ pc[r] = "read_bak" => main \in {Garbage, Absent}
       /\ pc[r] # "default"

DamageInv == Calm => CalmInv

\* Two operations that overlap end the calm, and so does one that does not end.
LEMMA CalmStays ==
  ASSUME TypeOK, [Next]_vars, Calm'
  PROVE  Calm
<1>1. corruptions' \in {corruptions, corruptions + 1} /\ corruptions \in Nat
  BY DEF TypeOK, Next, Saves, Loads, SaveBegins, TempWritten, NoBackup,
         BackupOpens, BackupCloses, BackupFails, Renamed, SaveFails, LoadBegins,
         ChecksExists, ReadsMain, MainRejected, ReadsBackup, ReadFails, ReturnsDefault, Returns, Crash,
         Corrupts, vars
<1>2. calm' => calm
  <2>1. ASSUME NEW r \in Runner, Saves(r)
        PROVE  calm' => calm
    BY <2>1 DEF Saves, SaveBegins, TempWritten, NoBackup, BackupOpens,
                BackupCloses, BackupFails, Renamed, SaveFails
  <2>2. ASSUME NEW r \in Runner, Loads(r)
        PROVE  calm' => calm
    BY <2>2 DEF Loads, LoadBegins, ChecksExists, ReadsMain, MainRejected,
                ReadsBackup, ReadFails, ReturnsDefault, Returns
  <2> QED
    BY <2>1, <2>2 DEF Next, Crash, Corrupts, vars
<1> QED
  BY <1>1, <1>2 DEF Calm

LEMMA CalmStep ==
  ASSUME Calm', Calm, TypeOK, SaveInv, CalmInv, [Next]_vars
  PROVE  CalmInv'
<1> USE StoreAssumption DEF Bytes, Undamaged
<1>1. ASSUME NEW r \in Runner, Saves(r)
      PROVE  CalmInv'
  <2>1. CASE \E s \in State : SaveBegins(r, s)
    BY <2>1 DEF SaveBegins, Goto, TypeOK, CalmInv, Kept, Calm, Alone
  <2>2. CASE TempWritten(r) \/ NoBackup(r)
    BY <2>2 DEF TempWritten, NoBackup, Goto, TypeOK, CalmInv, Kept
  <2>3. CASE BackupOpens(r)
    <3>1. Copying = {}
      BY <2>3 DEF BackupOpens, CalmInv, Copying
    <3> QED
      BY <2>3, <3>1 DEF BackupOpens, Goto, TypeOK, CalmInv, Kept
  <2>4. CASE BackupCloses(r)
    BY <2>4 DEF BackupCloses, Goto, TypeOK, CalmInv, Kept
  <2>5. CASE BackupFails(r) \/ SaveFails(r)
    BY <2>5 DEF BackupFails, SaveFails, Calm
  <2>6. CASE Renamed(r)
    <3>1. tmp[r] = value[r] /\ value[r] \in State
      BY <2>6 DEF Renamed, SaveInv, Saving, TypeOK
    <3> QED
      BY <2>6, <3>1 DEF Renamed, Goto, TypeOK, CalmInv, Kept
  <2> QED
    BY <1>1, <2>1, <2>2, <2>3, <2>4, <2>5, <2>6 DEF Saves
<1>2. ASSUME NEW r \in Runner, Loads(r)
      PROVE  CalmInv'
  <2>1. CASE LoadBegins(r)
    BY <2>1 DEF LoadBegins, Goto, TypeOK, CalmInv, Kept, Calm, Alone
  <2>2. CASE ChecksExists(r) \/ MainRejected(r)
    BY <2>2 DEF ChecksExists, MainRejected, Goto, TypeOK, CalmInv, Kept
  <2>3. CASE ReadsMain(r) \/ ReadsBackup(r)
    BY <2>3 DEF ReadsMain, ReadsBackup, Returns, Goto, TypeOK, CalmInv, Kept
  <2>4. CASE ReadFails(r) \/ ReturnsDefault(r)
    BY <2>4 DEF ReadFails, ReturnsDefault, CalmInv, Calm
  <2> QED
    BY <1>2, <2>1, <2>2, <2>3, <2>4 DEF Loads
<1>3. CASE Crash
  BY <1>3 DEF Crash, Calm
<1>4. CASE Corrupts
  BY <1>4 DEF Corrupts, TypeOK, CalmInv, Kept, Calm
<1>5. CASE UNCHANGED vars
  BY <1>5 DEF vars, CalmInv, Kept
<1> QED
  BY <1>1, <1>2, <1>3, <1>4, <1>5 DEF Next

LEMMA CalmInvariant == Spec => [](TypeOK /\ SaveInv /\ DamageInv)
<1>1. Init => DamageInv
  BY StoreAssumption DEF Init, DamageInv, CalmInv, Kept, Undamaged, Bytes
<1>2. TypeOK /\ SaveInv /\ DamageInv /\ [Next]_vars => DamageInv'
  BY CalmStays, CalmStep DEF DamageInv
<1> QED
  BY <1>1, <1>2, SaveInvariant, PTL DEF Spec

(* A load returns one of the last two catalogs that were saved although the
   catalog file was damaged once, as long as operations come one after the other
   and end (state_io.rs:23, :100-131). *)
THEOREM DamageIsSurvived == Spec => LoadSurvivesDamage
<1>1. TypeOK /\ SaveInv /\ DamageInv /\ [Next]_vars
      => [\A r \in Runner :
            calm /\ corruptions <= 1 /\ answer[r] # answer'[r] /\ answer'[r] # None =>
              answer'[r] \in {latest, before}]_vars
  <2> SUFFICES ASSUME TypeOK, SaveInv, DamageInv, Next, NEW r \in Runner, Calm,
                      answer[r] # answer'[r], answer'[r] # None
               PROVE  answer'[r] \in {latest, before}
    BY DEF Calm, vars
  <2> USE StoreAssumption DEF Bytes
  <2>1. CalmInv
    BY DEF DamageInv
  <2>2. ReadsMain(r) \/ ReadsBackup(r)
    <3>1. PICK q \in Runner : ReadsMain(q) \/ ReadsBackup(q) \/ LoadBegins(q)
      BY <2>1 DEF Next, Saves, Loads, SaveBegins, TempWritten, NoBackup, BackupOpens,
             BackupCloses, BackupFails, Renamed, SaveFails, ChecksExists,
             MainRejected, ReadFails, ReturnsDefault, Crash, Corrupts, CalmInv
    <3>2. q = r
      BY <3>1 DEF ReadsMain, ReadsBackup, Returns, LoadBegins, TypeOK
    <3>3. ~LoadBegins(r)
      BY DEF LoadBegins, TypeOK
    <3> QED
      BY <3>1, <3>2, <3>3
  <2>3. CASE ReadsMain(r)
    BY <2>1, <2>3 DEF ReadsMain, Returns, CalmInv, TypeOK
  <2>4. CASE ReadsBackup(r)
    <3>1. answer'[r] = IF bak \in State THEN bak ELSE Default
      BY <2>4 DEF ReadsBackup, Returns, TypeOK
    <3>2. main \in {Garbage, Absent} /\ \A q \in Runner : pc[q] \notin {"copy", "rename"}
      BY <2>1, <2>4 DEF ReadsBackup, CalmInv
    <3>3. Kept
      BY <2>1, <3>2 DEF CalmInv, Undamaged
    <3> QED
      BY <3>1, <3>3 DEF Kept, TypeOK
  <2> QED
    BY <2>2, <2>3, <2>4
<1> QED
  BY <1>1, CalmInvariant, PTL DEF Spec, LoadSurvivesDamage

=============================================================================
