-------------------------- MODULE CircuitBreaker --------------------------
(***************************************************************************)
(* omkit/resilience.py: one CircuitBreaker shared by the tasks of an event *)
(* loop, each inside a function decorated with resilient(): up to three    *)
(* attempts, each guarded by CircuitBreaker.call.                          *)
(*                                                                         *)
(* A task gives up control only while it awaits the guarded call or backs  *)
(* off, so the code between two awaits is one action.  The code compares   *)
(* its failure count with fail_max and the time since _opened_at with      *)
(* reset_timeout, both with >=: the model counts them up to these limits.  *)
(***************************************************************************)
EXTENDS Naturals

CONSTANTS
    Callers,        \* tasks
    FailMax,        \* fail_max
    ResetTimeout,   \* reset_timeout, in ticks of the clock
    MaxAttempts     \* stop_after_attempt

ASSUME BreakerAssumption ==
    /\ FailMax \in Nat \ {0}
    /\ ResetTimeout \in Nat
    /\ MaxAttempts \in Nat \ {0}

VARIABLES
    state,      \* _state
    failures,   \* _failures, counted up to FailMax
    age,        \* time since _opened_at, counted up to ResetTimeout
    observed,   \* _open_observed
    stage,      \* stage[c]: "idle", "ready" to attempt, or "inflight"
    attempt,    \* attempt[c]: number of the current attempt
    up          \* environment: guarded calls do not raise

breaker     == <<state, failures, age, observed>>
breakerVars == <<breaker, stage, attempt, up>>

BreakerInit ==
    /\ state = "closed"
    /\ failures = 0
    /\ age = ResetTimeout
    /\ observed = FALSE
    /\ stage = [c \in Callers |-> "idle"]
    /\ attempt = [c \in Callers |-> 1]
    /\ up \in BOOLEAN

-----------------------------------------------------------------------------
(* The property `state`: reading it may move the breaker to half open.     *)

TurnsHalfOpen == state = "open" /\ observed /\ age = ResetTimeout

SeenState == IF TurnsHalfOpen THEN "half_open" ELSE state

ReadStateUnnoticed ==
    /\ state' = SeenState
    /\ UNCHANGED <<failures, age, observed>>

ReadState ==
    /\ state' = SeenState
    /\ observed' = (observed \/ SeenState = "open")
    /\ UNCHANGED <<failures, age>>

RecordSuccessKeepsCount ==
    /\ state' = "closed"
    /\ observed' = FALSE
    /\ UNCHANGED <<failures, age>>

(* record_success closes the circuit, whatever its state. *)
RecordSuccess ==
    /\ failures' = 0
    /\ state' = "closed"
    /\ observed' = FALSE
    /\ UNCHANGED age

RecordFailure ==
    /\ failures' = IF failures < FailMax THEN failures + 1 ELSE FailMax
    /\ IF failures' >= FailMax
       THEN state' = "open" /\ age' = 0 /\ observed' = FALSE
       ELSE UNCHANGED <<state, age, observed>>

-----------------------------------------------------------------------------
Leave(c) ==
    /\ stage' = [stage EXCEPT ![c] = "idle"]
    /\ attempt' = [attempt EXCEPT ![c] = 1]

(* A task enters the decorated function. *)
Start(c) ==
    /\ stage[c] = "idle"
    /\ stage' = [stage EXCEPT ![c] = "ready"]
    /\ UNCHANGED <<breaker, attempt, up>>

AdmitsAll == TRUE

Admits == SeenState # "open"

(* call() up to its await: CircuitOpen is not transient, so it ends the    *)
(* decorated function at once.                                             *)
Attempt(c) ==
    /\ stage[c] = "ready"
    /\ ReadState
    /\ IF Admits
       THEN stage' = [stage EXCEPT ![c] = "inflight"] /\ UNCHANGED attempt
       ELSE Leave(c)
    /\ UNCHANGED up

Succeed(c) ==
    /\ stage[c] = "inflight"
    /\ RecordSuccess
    /\ Leave(c)
    /\ UNCHANGED up

Retries(c, transient) == transient /\ attempt[c] < MaxAttempts

(* The guarded call raises; a transient error is retried after a backoff   *)
(* unless this was the last attempt.                                       *)
Fail(c, transient) ==
    /\ stage[c] = "inflight"
    /\ ~up
    /\ RecordFailure
    /\ IF Retries(c, transient)
       THEN /\ stage' = [stage EXCEPT ![c] = "ready"]
            /\ attempt' = [attempt EXCEPT ![c] = @ + 1]
       ELSE Leave(c)
    /\ UNCHANGED up

(* CancelledError is no Exception: call() records neither outcome. *)
Cancel(c) ==
    /\ stage[c] # "idle"
    /\ Leave(c)
    /\ UNCHANGED <<breaker, up>>

(* Other code reads the property, a health report for example. *)
Inspect ==
    /\ ReadState
    /\ UNCHANGED <<stage, attempt, up>>

TimePasses ==
    /\ age < ResetTimeout
    /\ age' = age + 1
    /\ UNCHANGED <<state, failures, observed, stage, attempt, up>>

Environment ==
    /\ up' = ~up
    /\ UNCHANGED <<breaker, stage, attempt>>

Caller(c) ==
    \/ Start(c)
    \/ Attempt(c)
    \/ Succeed(c)
    \/ \E transient \in BOOLEAN : Fail(c, transient)
    \/ Cancel(c)

BreakerNext == Inspect \/ TimePasses \/ Environment \/ \E c \in Callers : Caller(c)

BreakerSpec == BreakerInit /\ [][BreakerNext]_breakerVars

(* Time passes, tasks keep calling, and a call is not cancelled for ever.  *)
BreakerFairness ==
    /\ WF_breakerVars(TimePasses)
    /\ \A c \in Callers : /\ WF_breakerVars(Start(c))
                          /\ SF_breakerVars(Attempt(c))
                          /\ SF_breakerVars(Succeed(c))

FairBreakerSpec == BreakerSpec /\ BreakerFairness

-----------------------------------------------------------------------------
BreakerTypeOK ==
    /\ state \in {"closed", "open", "half_open"}
    /\ failures \in 0 .. FailMax
    /\ age \in 0 .. ResetTimeout
    /\ observed \in BOOLEAN
    /\ stage \in [Callers -> {"idle", "ready", "inflight"}]
    /\ attempt \in [Callers -> 1 .. MaxAttempts]
    /\ up \in BOOLEAN

(* The circuit is closed exactly while fewer than fail_max failures were   *)
(* recorded since the last success, however the outcomes of overlapping    *)
(* calls interleave: so one failed probe reopens it.                       *)
CountMatchesState == state = "closed" <=> failures < FailMax

(* A half-open circuit has been open for the whole reset_timeout since the *)
(* last recorded failure, and has rejected or reported "open" since then.  *)
HalfOpenAfterTimeout == state = "half_open" => age = ResetTimeout /\ observed

(* No call is admitted during the reset_timeout that follows a failure     *)
(* which opened the circuit, unless a success closed it meanwhile.         *)
CoolDownAdmitsNobody ==
    [][\A c \in Callers :
         stage[c] # "inflight" /\ stage'[c] = "inflight" =>
             failures < FailMax \/ age = ResetTimeout]_breakerVars

(* Once the guarded calls stop failing, the circuit closes for good. *)
RecoversForGood == <>[]up => <>[](state = "closed")
=============================================================================
