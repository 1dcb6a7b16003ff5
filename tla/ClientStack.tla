---------------------------- MODULE ClientStack ----------------------------
(***************************************************************************)
(* A call of CloudSyncClient on its way through the layers that            *)
(* CloudSyncBuilder::build puts around a provider (client.rs:236-285) and  *)
(* those BackendRegistry::build_wrapped has put there before               *)
(* (providers/mod.rs:566), from the outside in:                            *)
(*                                                                         *)
(*   RateLimitBackend         waits before an upload                       *)
(*   RetryBackend             tries up to MaxAttempts times                *)
(*   CircuitBreakerBackend    CircuitBreaker, whose actions are used here  *)
(*   RateLimitingBackend      waits after any successful transfer          *)
(*   SimulatedFallback        turns an authentication error into a call of *)
(*                            the local simulation                         *)
(*   the provider             asks OAuthTokenManager for an access token   *)
(*                            and sends its request                        *)
(*                                                                         *)
(* The calls of several callers overlap and share the breaker, the token   *)
(* and the fallback's reason.  What is left in a token bucket is not       *)
(* tracked: a transfer finds enough or has to wait.  The builder is given   *)
(* no limit for downloads, which would make them wait after the call.      *)
(***************************************************************************)
EXTENDS CircuitBreaker

CONSTANT MaxAttempts    \* RetryConfig::max_attempts

ASSUME RetryAssumption == MaxAttempts \in Nat \ {0}

VARIABLES
  call,         \* call[c]: the last call of c
  token,        \* the cached access token: "none" (or expired), "good", "revoked"
  authorised,   \* the provider accepts the refresh token
  simulated     \* fallback_reason is set: what is_simulated answers

stackVars == <<vars, call, token, authorised, simulated>>

\* Where a call is.  Done: answered, with Ok or with an error that is not worth
\* a retry; Failed: given up after a transient error.
Waiting == {"Paused", "Ready"}
Inside == {"Fetching", "Refreshing", "Asking", "Rejected", "Slowed"}
Ended == {"Done", "Failed"}

StackTypeOK ==
  /\ TypeOK
  /\ call \in [Caller -> [phase : Waiting \union Inside \union Ended,
                          attempts : 1..MaxAttempts]]
  /\ token \in {"none", "good", "revoked"}
  /\ authorised \in BOOLEAN
  /\ simulated \in BOOLEAN
  /\ \A c \in Caller : calls[c] # "none" <=> call[c].phase \in Inside

StackInit ==
  /\ Init
  /\ call = [c \in Caller |-> [phase |-> "Done", attempts |-> 1]]
  /\ token = "none"
  /\ authorised = TRUE
  /\ simulated = FALSE

\* The call of c goes from one phase to another.
Moves(c, from, to) ==
  /\ call[c].phase = from
  /\ call' = [call EXCEPT ![c].phase = to]

-----------------------------------------------------------------------------
(* RateLimitBackend: an upload is charged before the call, and waits unless *)
(* the bucket holds enough.                                                 *)

Calls(c) ==
  /\ call[c].phase \in Ended
  /\ \E phase \in Waiting : call' = [call EXCEPT ![c] = [phase |-> phase, attempts |-> 1]]
  /\ UNCHANGED <<vars, token, authorised, simulated>>

\* The wait is computed once; the bytes are not charged after it.
Resumes(c) ==
  /\ Moves(c, "Paused", "Ready")
  /\ UNCHANGED <<vars, token, authorised, simulated>>

-----------------------------------------------------------------------------
(* RetryBackend *)

\* Slip: the attempts are not counted.
RetriesForever(c) ==
  call' = [call EXCEPT ![c].phase = "Ready"]

\* Slip: one attempt too many.
RetriesOnceMore(c) ==
  IF call[c].attempts <= MaxAttempts
    THEN call' = [call EXCEPT ![c].phase = "Ready", ![c].attempts = @ + 1]
    ELSE call' = [call EXCEPT ![c].phase = "Failed"]

\* After a transient error: the call is made again, after a pause, or given up.
RetriesOrFails(c) ==
  IF call[c].attempts < MaxAttempts
    THEN call' = [call EXCEPT ![c].phase = "Ready", ![c].attempts = @ + 1]
    ELSE call' = [call EXCEPT ![c].phase = "Failed"]

Tries(c) ==
  /\ Moves(c, "Ready", "Fetching")
  /\ Begins(c)
  /\ UNCHANGED <<token, authorised, simulated>>

\* Slip: every refused call puts the probe off.
RefusedPostpones(c) ==
  /\ call[c].phase = "Ready"
  /\ state = "Open"
  /\ elapsed < RecoveryTimeout
  /\ elapsed' = 0
  /\ RetriesOrFails(c)
  /\ UNCHANGED <<state, failures, successes, healthy, calls, token, authorised,
                 simulated>>

\* An open breaker refuses with ConnectionFailed, which counts as transient:
\* the refusal uses up an attempt like any other failure.
Refused(c) ==
  /\ call[c].phase = "Ready"
  /\ state = "Open"
  /\ elapsed < RecoveryTimeout
  /\ RetriesOrFails(c)
  /\ UNCHANGED <<vars, token, authorised, simulated>>

-----------------------------------------------------------------------------
(* OAuthTokenManager::get_access_token.  The refresh runs under the write   *)
(* lock of the cache; who has waited for the lock looks at the cache again. *)

UsesCachedToken(c) ==
  /\ token # "none"
  /\ Moves(c, "Fetching", IF token = "good" THEN "Asking" ELSE "Rejected")
  /\ UNCHANGED <<vars, token, authorised, simulated>>

Refreshes(c) ==
  /\ token = "none"
  /\ \A d \in Caller : call[d].phase # "Refreshing"
  /\ Moves(c, "Fetching", "Refreshing")
  /\ UNCHANGED <<vars, token, authorised, simulated>>

RefreshGrants(c) ==
  /\ authorised
  /\ Moves(c, "Refreshing", "Asking")
  /\ token' = "good"
  /\ UNCHANGED <<vars, authorised, simulated>>

\* Every error status of the token endpoint counts as an authentication error,
\* that of an overloaded server too.
RefreshDenied(c) ==
  /\ ~authorised \/ calls[c] = "doubtful"
  /\ Moves(c, "Refreshing", "Rejected")
  /\ UNCHANGED <<vars, token, authorised, simulated>>

\* The cached token expires, ahead of its time at the provider.
Expires ==
  /\ token # "none"
  /\ token' = "none"
  /\ UNCHANGED <<vars, call, authorised, simulated>>

-----------------------------------------------------------------------------
(* The request, and SimulatedFallback around it. *)

\* Slip: the reason of the fallback is never cleared.
ServedQuietly(c) ==
  /\ Moves(c, "Asking", "Slowed")
  /\ UNCHANGED <<vars, token, authorised, simulated>>

Served(c) ==
  /\ Moves(c, "Asking", "Slowed")
  /\ simulated' = FALSE
  /\ UNCHANGED <<vars, token, authorised>>

\* Not found, conflict, ...: the caller gets the error at once.
Misses(c) ==
  /\ Moves(c, "Asking", "Done")
  /\ FailsPermanently(c)
  /\ UNCHANGED <<token, authorised, simulated>>

\* No answer, from the token endpoint or to the request itself.
Breaks(c) ==
  /\ call[c].phase \in {"Refreshing", "Asking"}
  /\ FailsTransiently(c)
  /\ RetriesOrFails(c)
  /\ UNCHANGED <<token, authorised, simulated>>

\* The simulation does the call; the breaker and the caller see its result.
Diverted(c) ==
  /\ Moves(c, "Rejected", "Slowed")
  /\ simulated' = TRUE
  /\ UNCHANGED <<vars, token, authorised>>

\* The simulation does not have the file.
DivertedMisses(c) ==
  /\ Moves(c, "Rejected", "Done")
  /\ FailsPermanently(c)
  /\ simulated' = TRUE
  /\ UNCHANGED <<token, authorised>>

\* RateLimitingBackend has waited, if it had to.
Finishes(c) ==
  /\ Moves(c, "Slowed", "Done")
  /\ Succeeds(c)
  /\ UNCHANGED <<token, authorised, simulated>>

-----------------------------------------------------------------------------
(* The user withdraws the authorisation at the provider: tokens in use are   *)
(* no longer accepted.  He may give it back; that does not revive a token.   *)

Revokes ==
  /\ authorised
  /\ authorised' = FALSE
  /\ token' = IF token = "none" THEN "none" ELSE "revoked"
  /\ call' = [c \in Caller |->
                IF call[c].phase = "Asking"
                  THEN [call[c] EXCEPT !.phase = "Rejected"] ELSE call[c]]
  /\ UNCHANGED <<vars, simulated>>

Authorises ==
  /\ ~authorised
  /\ authorised' = TRUE
  /\ UNCHANGED <<vars, call, token, simulated>>

Steps(c) ==
  \/ Calls(c) \/ Resumes(c) \/ Tries(c) \/ Refused(c)
  \/ UsesCachedToken(c) \/ Refreshes(c) \/ RefreshGrants(c) \/ RefreshDenied(c)
  \/ Served(c) \/ Misses(c) \/ Breaks(c)
  \/ Diverted(c) \/ DivertedMisses(c) \/ Finishes(c)

StackNext ==
  \/ \E c \in Caller : Steps(c)
  \/ (Tick \/ HealthChanges) /\ UNCHANGED <<call, token, authorised, simulated>>
  \/ Expires \/ Revokes \/ Authorises

StackSpec == StackInit /\ [][StackNext]_stackVars

\* The runtime runs every task, the lock of the token cache serves who waits for
\* it in turn (a tokio RwLock does), time passes, and neither a healthy
\* provider nor the simulation answers every request with a permanent error.
FairSpec ==
  /\ StackSpec
  /\ WF_stackVars(Tick /\ UNCHANGED <<call, token, authorised, simulated>>)
  /\ WF_stackVars(Expires)
  /\ \A c \in Caller :
       /\ WF_stackVars(Steps(c))
       /\ SF_stackVars(UsesCachedToken(c) \/ Refreshes(c))
       /\ SF_stackVars((healthy /\ Served(c)) \/ Diverted(c))

-----------------------------------------------------------------------------
(* Properties. *)

(* Every call of the client comes to an end, with the backend down for good,
   the breaker open and other callers waiting for the token: the attempts are
   counted whoever refuses the call (retry.rs:70), and the lock of the token
   cache is free again after a refresh that failed (utils.rs:160). *)
CallsEnd == \A c \in Caller : []<>(call[c].phase \in Ended)

(* When the transient errors end for good, no caller gives up a call any more,
   late results, an open breaker and callers that never stop calling
   notwithstanding: being refused must not postpone the probe
   (circuit_breaker.rs:94). *)
CallersRecover ==
  <>[]healthy => <>[](\A c \in Caller : call[c].phase # "Failed")

(* The status shown to the user settles: simulated if the authorisation stays
   withdrawn, and no longer simulated once it stays given, although a rejected
   token stays cached until it expires (fallback.rs:66, :75; utils.rs:150). *)
SimulationFollowsAuthorisation ==
  /\ <>[](healthy /\ authorised) => <>[]~simulated
  /\ <>[](healthy /\ ~authorised) => <>[]simulated

=============================================================================
