--------------------------- MODULE AtomicCatalog ---------------------------
(***************************************************************************)
(* What the sync engine expects of its state store: one catalog that a     *)
(* save replaces as a whole or not at all, and that a load returns as it   *)
(* was at some moment between the beginning and the end of the load, if it *)
(* could read the catalog.                                                 *)
(***************************************************************************)
CONSTANTS
  Runner,    \* the concurrent users of one catalog
  State,     \* the catalogs
  Default,   \* the catalog before the first save
  None       \* no save or no answer; not a catalog

VARIABLES
  saved,     \* the catalog
  pending,   \* pending[r]: what r is saving
  window,    \* window[r]: the catalogs since r began to load
  answer,    \* answer[r]: what r's last load returned
  damaged,   \* something else has written to the catalog
  unread     \* who has failed to read it in its load

avars == <<saved, pending, window, answer, damaged, unread>>

AInit ==
  /\ saved = Default
  /\ pending = [r \in Runner |-> None]
  /\ window = [r \in Runner |-> {}]
  /\ answer = [r \in Runner |-> None]
  /\ damaged = FALSE
  /\ unread = {}

BeginSave(r, s) ==
  /\ pending[r] = None /\ window[r] = {}
  /\ pending' = [pending EXCEPT ![r] = s]
  /\ UNCHANGED <<saved, window, answer, damaged, unread>>

Commit(r) ==
  /\ pending[r] # None
  /\ saved' = pending[r]
  /\ window' = [q \in Runner |-> IF window[q] = {} THEN {}
                                 ELSE window[q] \union {pending[r]}]
  /\ pending' = [pending EXCEPT ![r] = None]
  /\ UNCHANGED <<answer, damaged, unread>>

Fail(r) ==
  /\ pending[r] # None
  /\ pending' = [pending EXCEPT ![r] = None]
  /\ UNCHANGED <<saved, window, answer, damaged, unread>>

BeginLoad(r) ==
  /\ pending[r] = None /\ window[r] = {}
  /\ window' = [window EXCEPT ![r] = {saved}]
  /\ answer' = [answer EXCEPT ![r] = None]
  /\ UNCHANGED <<saved, pending, damaged, unread>>

\* r may not learn what the catalog is.
FailRead(r) ==
  /\ window[r] # {}
  /\ unread' = unread \union {r}
  /\ UNCHANGED <<saved, pending, window, answer, damaged>>

\* A catalog that is damaged, or could not be read, may be answered with any other.
EndLoad(r) ==
  /\ window[r] # {}
  /\ \E s \in State :
       /\ s \in window[r] \/ damaged \/ r \in unread
       /\ answer' = [answer EXCEPT ![r] = s]
  /\ window' = [window EXCEPT ![r] = {}]
  /\ unread' = unread \ {r}
  /\ UNCHANGED <<saved, pending, damaged>>

\* The process is killed: whatever was under way is over.
Killed ==
  /\ pending' = [r \in Runner |-> None]
  /\ window' = [r \in Runner |-> {}]
  /\ unread' = {}
  /\ UNCHANGED <<saved, answer, damaged>>

Damage ==
  /\ damaged' = TRUE
  /\ UNCHANGED <<saved, pending, window, answer, unread>>

ANext ==
  \/ \E r \in Runner :
       \/ \E s \in State : BeginSave(r, s)
       \/ Commit(r) \/ Fail(r) \/ BeginLoad(r) \/ FailRead(r) \/ EndLoad(r)
  \/ Killed
  \/ Damage

ASpec == AInit /\ [][ANext]_avars

=============================================================================
