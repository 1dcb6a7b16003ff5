-------------------------- MODULE ClientStackProofs --------------------------
(***************************************************************************)
(* Theorems about CircuitBreaker and ClientStack, for any number of        *)
(* callers and any limits.  Of the breaker: the type invariant, and that a *)
(* transient failure opens a breaker that is not closed.  That needs       *)
(* Tripped: the count of failures that opened the breaker stays at the     *)
(* threshold until it closes.  Of the stack: each of its steps is a step   *)
(* of CircuitBreaker or leaves it alone, so that what is proved of the     *)
(* breaker holds in the stack; and the type invariant, with its claim that *)
(* the breaker counts a call as running exactly while it is past           *)
(* before_call.                                                            *)
(***************************************************************************)
EXTENDS ClientStack, TLAPS

Tripped == state # "Closed" => failures = FailureThreshold

\* A HalfOpen breaker has not seen its last probe yet.
Probing == state = "HalfOpen" => successes < ProbeThreshold

BreakerInv == TypeOK /\ Tripped /\ Probing

LEMMA BreakerInvariant == Spec => []BreakerInv
<1> USE BreakerAssumption
<1>1. Init => BreakerInv
  <2> SUFFICES ASSUME Init
               PROVE  BreakerInv
    OBVIOUS
  <2>1. 0 \in 0..RecoveryTimeout /\ 0 \in 0..FailureThreshold /\ 0 \in 0..ProbeThreshold
    OBVIOUS
  <2> QED
    BY <2>1 DEF Init, BreakerInv, TypeOK, Tripped, Probing
<1>2. BreakerInv /\ [Next]_vars => BreakerInv'
  <2> SUFFICES ASSUME BreakerInv, [Next]_vars
               PROVE  BreakerInv'
    OBVIOUS
  <2> USE DEF BreakerInv, TypeOK, Tripped, Probing
  <2>1. ASSUME NEW c \in Caller, Admits(c) \/ AdmitsFirstProbe(c)
        PROVE  BreakerInv'
    BY <2>1 DEF Admits, AdmitsFirstProbe, Enters
  <2>2. ASSUME NEW c \in Caller, Succeeds(c)
        PROVE  BreakerInv'
    <3>1. CASE SucceedsHalfOpen
      BY <2>2, <3>1 DEF Succeeds, Leaves, SucceedsHalfOpen
    <3>2. CASE SucceedsClosed \/ SucceedsOpen
      BY <2>2, <3>2 DEF Succeeds, Leaves, SucceedsClosed, SucceedsOpen
    <3> QED
      BY <2>2, <3>1, <3>2 DEF Succeeds
  <2>3. ASSUME NEW c \in Caller, FailsTransiently(c)
        PROVE  BreakerInv'
    BY <2>3 DEF FailsTransiently, Leaves
  <2>4. ASSUME NEW c \in Caller, FailsPermanently(c)
        PROVE  BreakerInv'
    BY <2>4 DEF FailsPermanently, Leaves
  <2>5. CASE Tick
    BY <2>5 DEF Tick
  <2>6. CASE HealthChanges
    BY <2>6 DEF HealthChanges
  <2>7. CASE UNCHANGED vars
    BY <2>7 DEF vars
  <2> QED
    BY <2>1, <2>2, <2>3, <2>4, <2>5, <2>6, <2>7 DEF Next, Begins, Ends
<1> QED
  BY <1>1, <1>2, PTL DEF Spec

(* Every reachable state is well typed: no count passes its threshold. *)
THEOREM BreakerTypeCorrect == Spec => []TypeOK
BY BreakerInvariant, PTL DEF BreakerInv

(* A transient failure opens a breaker that is not closed for another full
   timeout, whichever call it comes from (circuit_breaker.rs:139-150). *)
THEOREM FailureReopens == Spec => FailureKeepsItOpen
<1>1. BreakerInv =>
        [\A c \in Caller : FailsTransiently(c) /\ state # "Closed" =>
           state' = "Open" /\ elapsed' = 0]_vars
  BY BreakerAssumption DEF BreakerInv, TypeOK, Tripped, FailsTransiently
<1> QED
  BY <1>1, BreakerInvariant, PTL DEF FailureKeepsItOpen

-----------------------------------------------------------------------------
(* The stack. *)

(* A stack is built around a fresh breaker, and each of its steps is a step of
   CircuitBreakerBackend or does not touch it (client.rs:236). *)
THEOREM StackRunsTheBreaker == StackSpec => Spec
<1>1. StackInit => Init
  BY DEF StackInit
<1>2. [StackNext]_stackVars => [Next]_vars
  <2> SUFFICES ASSUME [StackNext]_stackVars
               PROVE  [Next]_vars
    OBVIOUS
  <2>1. ASSUME NEW c \in Caller, Steps(c)
        PROVE  [Next]_vars
    <3>1. CASE Calls(c) \/ Resumes(c) \/ Refused(c)
      BY <3>1 DEF Calls, Resumes, Refused
    <3>2. CASE UsesCachedToken(c) \/ Refreshes(c) \/ RefreshGrants(c) \/ RefreshDenied(c)
      BY <3>2 DEF UsesCachedToken, Refreshes, RefreshGrants, RefreshDenied
    <3>3. CASE Served(c) \/ Diverted(c)
      BY <3>3 DEF Served, Diverted
    <3>4. CASE Tries(c)
      BY <3>4 DEF Tries, Next
    <3>5. CASE Misses(c) \/ DivertedMisses(c) \/ Breaks(c) \/ Finishes(c)
      BY <3>5 DEF Misses, DivertedMisses, Breaks, Finishes, Ends, Next
    <3> QED
      BY <2>1, <3>1, <3>2, <3>3, <3>4, <3>5 DEF Steps
  <2>2. CASE Tick \/ HealthChanges
    BY <2>2 DEF Next
  <2>3. CASE Expires \/ Revokes \/ Authorises \/ UNCHANGED stackVars
    BY <2>3 DEF Expires, Revokes, Authorises, stackVars
  <2> QED
    BY <2>1, <2>2, <2>3 DEF StackNext
<1> QED
  BY <1>1, <1>2, PTL DEF StackSpec, Spec

-----------------------------------------------------------------------------
CallType == [phase : Waiting \union Inside \union Ended, attempts : 1..MaxAttempts]

\* StackTypeOK without TypeOK, which the breaker brings along.
CallsOK ==
  /\ call \in [Caller -> CallType]
  /\ token \in {"none", "good", "revoked"}
  /\ authorised \in BOOLEAN
  /\ simulated \in BOOLEAN
  /\ \A c \in Caller : calls[c] # "none" <=> call[c].phase \in Inside

LEMMA MovesTyped ==
  ASSUME CallsOK, NEW c \in Caller, NEW from,
         NEW to \in Waiting \union Inside \union Ended, Moves(c, from, to)
  PROVE  /\ call' \in [Caller -> CallType]
         /\ call[c].phase = from
         /\ call'[c].phase = to
         /\ \A d \in Caller \ {c} : call'[d] = call[d]
BY DEF CallsOK, CallType, Moves

LEMMA RetriesTyped ==
  ASSUME CallsOK, NEW c \in Caller, RetriesOrFails(c)
  PROVE  /\ call' \in [Caller -> CallType]
         /\ call'[c].phase \in {"Ready", "Failed"}
         /\ \A d \in Caller \ {c} : call'[d] = call[d]
<1>1. call[c] \in CallType
  BY DEF CallsOK
<1>2. CASE call[c].attempts < MaxAttempts
  <2>1. call[c].attempts + 1 \in 1..MaxAttempts
    BY <1>1, <1>2, RetryAssumption DEF CallType
  <2> QED
    BY <1>1, <1>2, <2>1 DEF RetriesOrFails, CallsOK, CallType, Waiting
<1>3. CASE ~(call[c].attempts < MaxAttempts)
  BY <1>1, <1>3 DEF RetriesOrFails, CallsOK, CallType, Ended
<1> QED
  BY <1>2, <1>3

LEMMA CallsOKStep ==
  ASSUME TypeOK, CallsOK, [StackNext]_stackVars
  PROVE  CallsOK'
<1> USE DEF Waiting, Inside, Ended
<1>1. ASSUME NEW c \in Caller, Steps(c)
      PROVE  CallsOK'
  <2>1. CASE Calls(c)
    <3>1. PICK phase \in Waiting : call' = [call EXCEPT ![c] = [phase |-> phase, attempts |-> 1]]
      BY <2>1 DEF Calls
    <3>2. [phase |-> phase, attempts |-> 1] \in CallType
      BY <3>1, RetryAssumption DEF CallType
    <3> QED
      BY <2>1, <3>1, <3>2 DEF Calls, CallsOK, vars
  <2>2. CASE Resumes(c)
    BY <2>2, MovesTyped DEF Resumes, CallsOK, vars
  <2>3. CASE Tries(c)
    <3>1. calls[c] = "none" /\ calls' = [calls EXCEPT ![c] = IF healthy THEN "clean" ELSE "doubtful"]
      BY <2>3 DEF Tries, Begins, Admits, AdmitsFirstProbe, Enters
    <3> QED
      BY <2>3, <3>1, MovesTyped DEF Tries, CallsOK, TypeOK
  <2>4. CASE Refused(c)
    BY <2>4, RetriesTyped DEF Refused, CallsOK, vars
  <2>5. CASE UsesCachedToken(c)
    BY <2>5, MovesTyped DEF UsesCachedToken, CallsOK, vars
  <2>6. CASE Refreshes(c) \/ RefreshGrants(c) \/ RefreshDenied(c)
    BY <2>6, MovesTyped DEF Refreshes, RefreshGrants, RefreshDenied, CallsOK, vars
  <2>7. CASE Served(c) \/ Diverted(c)
    BY <2>7, MovesTyped DEF Served, Diverted, CallsOK, vars
  <2>8. CASE Misses(c) \/ DivertedMisses(c) \/ Finishes(c)
    <3>1. Leaves(c)
      BY <2>8 DEF Misses, DivertedMisses, Finishes, FailsPermanently, Succeeds
    <3>2. CASE Misses(c)
      BY <3>1, <3>2, MovesTyped DEF Misses, Leaves, CallsOK, TypeOK
    <3>3. CASE DivertedMisses(c)
      BY <3>1, <3>3, MovesTyped DEF DivertedMisses, Leaves, CallsOK, TypeOK
    <3>4. CASE Finishes(c)
      BY <3>1, <3>4, MovesTyped DEF Finishes, Leaves, CallsOK, TypeOK
    <3> QED
      BY <2>8, <3>2, <3>3, <3>4
  <2>9. CASE Breaks(c)
    <3>1. Leaves(c)
      BY <2>9 DEF Breaks, FailsTransiently
    <3> QED
      BY <2>9, <3>1, RetriesTyped DEF Breaks, Leaves, CallsOK, TypeOK
  <2> QED
    BY <1>1, <2>1, <2>2, <2>3, <2>4, <2>5, <2>6, <2>7, <2>8, <2>9 DEF Steps
<1>2. CASE Tick /\ UNCHANGED <<call, token, authorised, simulated>>
  BY <1>2 DEF Tick, CallsOK
<1>3. CASE HealthChanges /\ UNCHANGED <<call, token, authorised, simulated>>
  BY <1>3 DEF HealthChanges, CallsOK
<1>4. CASE Expires \/ Authorises \/ UNCHANGED stackVars
  BY <1>4 DEF Expires, Authorises, stackVars, vars, CallsOK
<1>5. CASE Revokes
  <2>1. \A c \in Caller : call'[c] \in CallType /\ (call'[c].phase \in Inside <=> call[c].phase \in Inside)
    BY <1>5 DEF Revokes, CallsOK, CallType
  <2> QED
    BY <1>5, <2>1 DEF Revokes, CallsOK, vars
<1> QED
  BY <1>1, <1>2, <1>3, <1>4, <1>5 DEF StackNext

(* Every reachable state is well typed: no call makes more than MaxAttempts
   attempts, and the breaker takes a call for running exactly while it is
   between before_call and after_call (circuit_breaker.rs:156). *)
THEOREM StackTypeCorrect == StackSpec => []StackTypeOK
<1>1. StackInit => CallsOK
  <2>1. [phase |-> "Done", attempts |-> 1] \in CallType
    BY RetryAssumption DEF CallType, Ended
  <2> SUFFICES ASSUME StackInit
               PROVE  CallsOK
    OBVIOUS
  <2>2. call \in [Caller -> CallType]
    BY <2>1 DEF StackInit
  <2>3. authorised \in BOOLEAN /\ simulated \in BOOLEAN
    BY Zenon DEF StackInit
  <2>4. \A c \in Caller : calls[c] = "none" /\ call[c].phase = "Done"
    BY DEF StackInit, Init
  <2> QED
    BY <2>2, <2>3, <2>4 DEF StackInit, CallsOK, Inside
<1>2. TypeOK /\ CallsOK /\ [StackNext]_stackVars => CallsOK'
  BY CallsOKStep
<1>3. TypeOK /\ CallsOK => StackTypeOK
  BY DEF StackTypeOK, CallsOK, CallType
<1> QED
  BY <1>1, <1>2, <1>3, StackRunsTheBreaker, BreakerTypeCorrect, PTL DEF StackSpec

(* In the stack too a transient failure opens a breaker that is not closed for
   another full timeout, whichever call it comes from. *)
THEOREM StackFailureReopens == StackSpec => FailureKeepsItOpen
BY StackRunsTheBreaker, FailureReopens

=============================================================================
