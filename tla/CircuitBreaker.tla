--------------------------- MODULE CircuitBreaker ---------------------------
(***************************************************************************)
(* CircuitBreakerBackend (layers/circuit_breaker.rs): every call of the    *)
(* wrapped backend asks before_call for admission, runs without the lock,  *)
(* and reports its result to after_call.  Any number of calls overlap, so  *)
(* a result may arrive long after the breaker has changed its state.       *)
(*                                                                         *)
(* The clock is the time since the breaker last opened, counted up to      *)
(* RecoveryTimeout; consecutive_failures is counted up to                  *)
(* FailureThreshold.  Both are only ever compared with those limits.       *)
(***************************************************************************)
EXTENDS Integers

CONSTANTS
  Caller,             \* the concurrent users of the backend
  FailureThreshold,   \* failure_threshold
  RecoveryTimeout,    \* recovery_timeout, in ticks
  ProbeThreshold      \* probe_success_threshold

ASSUME BreakerAssumption ==
  /\ FailureThreshold \in Nat \ {0}
  /\ RecoveryTimeout \in Nat
  /\ ProbeThreshold \in Nat \ {0}

VARIABLES
  state,        \* State
  elapsed,      \* opened_at.elapsed(), up to RecoveryTimeout
  failures,     \* consecutive_failures, up to FailureThreshold
  successes,    \* consecutive_successes
  healthy,      \* the backend's calls do not fail with transient errors
  calls         \* calls[c]: "none", or the call of c that runs: "clean" if the
                \* backend has been healthy all along, else "doubtful"

vars == <<state, elapsed, failures, successes, healthy, calls>>

TypeOK ==
  /\ state \in {"Closed", "Open", "HalfOpen"}
  /\ elapsed \in 0..RecoveryTimeout
  /\ failures \in 0..FailureThreshold
  /\ successes \in 0..ProbeThreshold
  /\ healthy \in BOOLEAN
  /\ calls \in [Caller -> {"none", "clean", "doubtful"}]

Init ==
  /\ state = "Closed"
  /\ elapsed = 0
  /\ failures = 0
  /\ successes = 0
  /\ healthy = TRUE
  /\ calls = [c \in Caller |-> "none"]

-----------------------------------------------------------------------------
(* before_call *)

Enters(c) ==
  /\ calls[c] = "none"
  /\ calls' = [calls EXCEPT ![c] = IF healthy THEN "clean" ELSE "doubtful"]
  /\ UNCHANGED <<elapsed, failures, healthy>>

\* Slip: only a closed breaker lets calls through.
AdmitsWhenClosed(c) ==
  /\ state = "Closed"
  /\ Enters(c)
  /\ UNCHANGED <<state, successes>>

Admits(c) ==
  /\ state \in {"Closed", "HalfOpen"}
  /\ Enters(c)
  /\ UNCHANGED <<state, successes>>

\* Slip: the failures are forgotten when the breaker turns HalfOpen.
ForgivesAndProbes(c) ==
  /\ state = "Open"
  /\ elapsed >= RecoveryTimeout
  /\ calls[c] = "none"
  /\ calls' = [calls EXCEPT ![c] = IF healthy THEN "clean" ELSE "doubtful"]
  /\ state' = "HalfOpen"
  /\ failures' = 0
  /\ successes' = 0
  /\ UNCHANGED <<elapsed, healthy>>

\* The first call after the timeout turns the breaker HalfOpen.  The failures
\* are not reset.
AdmitsFirstProbe(c) ==
  /\ state = "Open"
  /\ elapsed >= RecoveryTimeout
  /\ Enters(c)
  /\ state' = "HalfOpen"
  /\ successes' = 0

-----------------------------------------------------------------------------
(* after_call *)

Leaves(c) ==
  /\ calls[c] # "none"
  /\ calls' = [calls EXCEPT ![c] = "none"]
  /\ UNCHANGED healthy

SucceedsHalfOpen ==
  /\ state = "HalfOpen"
  /\ successes' = successes + 1
  /\ IF successes + 1 >= ProbeThreshold
       THEN state' = "Closed" /\ failures' = 0
       ELSE UNCHANGED <<state, failures>>
  /\ UNCHANGED elapsed

SucceedsClosed ==
  /\ state = "Closed"
  /\ failures' = 0
  /\ UNCHANGED <<state, elapsed, successes>>

SucceedsOpen ==
  /\ state = "Open"
  /\ UNCHANGED <<state, elapsed, failures, successes>>

Succeeds(c) ==
  /\ Leaves(c)
  /\ SucceedsHalfOpen \/ SucceedsClosed \/ SucceedsOpen

\* Whatever the state is: the threshold decides.
FailsTransiently(c) ==
  /\ calls[c] = "doubtful"
  /\ Leaves(c)
  /\ failures' = IF failures < FailureThreshold THEN failures + 1 ELSE failures
  /\ IF failures + 1 >= FailureThreshold
       THEN state' = "Open" /\ elapsed' = 0
       ELSE UNCHANGED <<state, elapsed>>
  /\ UNCHANGED successes

\* Not found, authentication, ...: the breaker does not look at it.
FailsPermanently(c) ==
  /\ Leaves(c)
  /\ UNCHANGED <<state, elapsed, failures, successes>>

-----------------------------------------------------------------------------
Tick ==
  /\ state = "Open"
  /\ elapsed < RecoveryTimeout
  /\ elapsed' = elapsed + 1
  /\ UNCHANGED <<state, failures, successes, healthy, calls>>

HealthChanges ==
  /\ healthy' = ~healthy
  /\ calls' = [c \in Caller |-> IF calls[c] = "none" THEN "none" ELSE "doubtful"]
  /\ UNCHANGED <<state, elapsed, failures, successes>>

Begins(c) == Admits(c) \/ AdmitsFirstProbe(c)
Ends(c) == Succeeds(c) \/ FailsTransiently(c) \/ FailsPermanently(c)

Next ==
  \/ \E c \in Caller : Begins(c) \/ Ends(c)
  \/ Tick
  \/ HealthChanges

Spec == Init /\ [][Next]_vars

-----------------------------------------------------------------------------
(* Properties. *)

(* While the breaker is not closed, one transient failure of any call, be it a
   probe or one that was let through before the breaker opened, opens it for
   another full timeout: entering HalfOpen must not have cleared the count of
   failures (circuit_breaker.rs:99, :140). *)
FailureKeepsItOpen ==
  [][\A c \in Caller : FailsTransiently(c) /\ state # "Closed" =>
       state' = "Open" /\ elapsed' = 0]_vars

(* When the transient errors end for good, the breaker closes for good, whatever
   it has seen before and whichever late results are still to come: HalfOpen has
   no timeout, permanent errors do not count, and only successes lead out of it
   (circuit_breaker.rs:97, :125). *)
RecoversAfterOutage == <>[]healthy => <>[](state = "Closed")

=============================================================================
