--------------------------- MODULE InferenceRouter ---------------------------
(***************************************************************************)
(* InferenceRouter.infer and the circuit breaker of its primary provider,  *)
(* called by the worker threads of the inference queue.  The breaker locks *)
(* each of its operations, but a provider call takes minutes between them: *)
(* its result may come when the circuit has long changed.  A fallback is   *)
(* configured and the breaker enabled; providers return their errors.      *)
(* Parts that every specification has are named for the router, so that    *)
(* one module can extend it and InferenceQueue.                            *)
(***************************************************************************)
EXTENDS Integers, FiniteSets

CONSTANTS
    Threads,        \* callers of infer
    Threshold,      \* failure_threshold
    FallbackSlots,  \* fallback_max_concurrent_requests
    RetryableOnly   \* fallback_retryable_only

ASSUME RouterAssumption ==
    Threshold \in Nat \ {0} /\ FallbackSlots \in Nat \ {0} /\ RetryableOnly \in BOOLEAN

VARIABLES
    at,        \* where each thread is in infer
    failures,  \* _failures, counted up to Threshold
    opened,    \* _opened_at: "no", "hot" within recovery_seconds, or "cool"
    probing,   \* _half_open_probe
    muddled    \* a call from before the probe ended beside other calls in flight

breaker == <<failures, opened, probing>>
routerVars == <<at, failures, opened, probing, muddled>>

RouterTypes ==
    /\ at \in [Threads -> {"idle", "primary", "probe", "waiting", "fallback"}]
    /\ failures \in 0..Threshold
    /\ opened \in {"no", "hot", "cool"}
    /\ probing \in BOOLEAN /\ muddled \in BOOLEAN

RouterInit ==
    /\ at = [t \in Threads |-> "idle"]
    /\ failures = 0 /\ opened = "no" /\ probing = FALSE
    /\ muddled = FALSE

Proceed(t, to) == at' = [at EXCEPT ![t] = to]

-----------------------------------------------------------------------------
(* before_request                                                          *)

Call(t) ==
    /\ at[t] = "idle" /\ opened = "no"
    /\ Proceed(t, "primary")
    /\ UNCHANGED <<breaker, muddled>>

Probe(t) ==
    /\ at[t] = "idle" /\ opened = "cool" /\ ~probing
    /\ Proceed(t, "probe")
    /\ probing' = TRUE
    /\ UNCHANGED <<failures, opened, muddled>>

Skip(t) ==
    /\ at[t] = "idle" /\ (opened = "hot" \/ probing)
    /\ Proceed(t, "waiting")
    /\ UNCHANGED <<breaker, muddled>>

\* force_fallback: the request has waited too long in the queue.
Forced(t) ==
    /\ at[t] = "idle"
    /\ Proceed(t, "waiting")
    /\ UNCHANGED <<breaker, muddled>>

RecoveryElapses ==
    /\ opened = "hot"
    /\ opened' = "cool"
    /\ UNCHANGED <<at, failures, probing, muddled>>

-----------------------------------------------------------------------------
(* record_result                                                           *)

Calling(t) == at[t] \in {"primary", "probe"}

Muddle(t) ==
    muddled' = /\ \E s \in Threads \ {t} : Calling(s)
               /\ muddled \/ (opened # "no" /\ at[t] = "primary")

\* A success, or a failure that is not the provider's (401, 400), closes the circuit.
\* CloseKeepsProbe is a slip no run uses.
CloseKeepsProbe(t) ==
    /\ failures' = 0 /\ opened' = "no"
    /\ UNCHANGED probing

Close(t) == failures' = 0 /\ opened' = "no" /\ probing' = FALSE

Succeed(t) ==
    /\ Calling(t)
    /\ Close(t) /\ Muddle(t)
    /\ Proceed(t, "idle")

FailForGood(t) ==
    /\ Calling(t)
    /\ Close(t) /\ Muddle(t)
    /\ Proceed(t, IF RetryableOnly THEN "idle" ELSE "waiting")

\* A timeout, a transport error, 429 or 5xx.  CountOnly is a slip no run uses.
CountOnly(t) ==
    /\ Calling(t)
    /\ failures' = IF failures < Threshold THEN failures + 1 ELSE failures
    /\ opened' = IF failures' = Threshold THEN "hot" ELSE opened
    /\ Muddle(t)
    /\ Proceed(t, "waiting")
    /\ UNCHANGED probing

FailRetryable(t) ==
    /\ Calling(t)
    /\ failures' = IF failures < Threshold THEN failures + 1 ELSE failures
    /\ IF probing \/ failures' = Threshold
       THEN opened' = "hot" /\ probing' = FALSE
       ELSE UNCHANGED <<opened, probing>>
    /\ Muddle(t)
    /\ Proceed(t, "waiting")

-----------------------------------------------------------------------------
(* _generate_fallback                                                      *)

FallbackStart(t) ==
    /\ at[t] = "waiting"
    /\ Cardinality({s \in Threads : at[s] = "fallback"}) < FallbackSlots
    /\ Proceed(t, "fallback")
    /\ UNCHANGED <<breaker, muddled>>

FallbackEnd(t) ==
    /\ at[t] = "fallback"
    /\ Proceed(t, "idle")
    /\ UNCHANGED <<breaker, muddled>>

-----------------------------------------------------------------------------

Arrive(t) == Call(t) \/ Probe(t) \/ Skip(t)
Record(t) == Succeed(t) \/ FailForGood(t) \/ FailRetryable(t)

RouterNext ==
    \/ \E t \in Threads :
        Arrive(t) \/ Forced(t) \/ Record(t) \/ FallbackStart(t) \/ FallbackEnd(t)
    \/ RecoveryElapses

RouterSpec == RouterInit /\ [][RouterNext]_routerVars

\* Requests keep coming and not all of them late; every provider call has a timeout.
RouterFairness ==
    /\ WF_routerVars(RecoveryElapses)
    /\ \A t \in Threads :
        /\ SF_routerVars(Arrive(t)) /\ SF_routerVars(FallbackStart(t))
        /\ WF_routerVars(Record(t)) /\ WF_routerVars(FallbackEnd(t))

RouterFairSpec == RouterSpec /\ RouterFairness

-----------------------------------------------------------------------------

CircuitConsistent ==
    /\ opened = "no" <=> failures < Threshold
    /\ probing => opened = "cool"

ProbeIsLive == probing => \E t \in Threads : at[t] = "probe"

ProbesAreAlone ==
    ~muddled => \A s, t \in Threads : at[s] = "probe" /\ at[t] = "probe" => s = t

\* After every order of results the fields of the breaker agree (the circuit is open
\* exactly when Threshold failures in a row were recorded, a probe is marked only when
\* the recovery time is over); a marked probe has a call behind it that will clear the
\* mark, or the primary would be out of use for ever; and there is one probe at a time,
\* as long as no older call reports into the open circuit.
BreakerConsistent == CircuitConsistent /\ ProbeIsLive /\ ProbesAreAlone

\* An open circuit is closed or probed again, though results of calls still in flight
\* may start its recovery time anew.
OpenIsRetried == opened # "no" ~> opened = "no" \/ \E t \in Threads : at[t] = "probe"
=============================================================================
