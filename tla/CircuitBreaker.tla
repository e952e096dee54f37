---------------------------- MODULE CircuitBreaker ----------------------------
(***************************************************************************)
(* The circuit breaker of the sidecar's PlatformClient                     *)
(* (services/circuit_breaker.py), shared by every coroutine of a process   *)
(* that reads the platform through one client: _get asks check(), awaits   *)
(* the reply and records its outcome.  Between the two any other coroutine *)
(* may move the breaker.                                                   *)
(*                                                                         *)
(* The breaker's clock is the time left until recovery (wait); its counter *)
(* stops at FailureThreshold, all that it is ever compared with.           *)
(***************************************************************************)
EXTENDS Naturals, FiniteSets

CONSTANTS
    Call,               \* the coroutines that read the platform
    FailureThreshold,
    Recovery            \* recovery_timeout_s

ASSUME BreakerAssumption ==
    /\ FailureThreshold \in Nat \ {0}
    /\ Recovery \in Nat

VARIABLES
    state,     \* _state
    failures,  \* _consecutive_failures, up to FailureThreshold
    wait,      \* time until _last_failure_time + recovery_timeout_s
    platform,  \* how the platform answers; "mixed": some reads get a 4xx
    streak,    \* history: failed replies in a row, up to FailureThreshold
    call       \* what each coroutine waits for

breaker == <<state, failures, wait>>
breakerVars == <<breaker, platform, streak, call>>

BreakerTypeOK ==
    /\ state \in {"CLOSED", "OPEN", "HALF_OPEN"}
    /\ failures \in 0..FailureThreshold
    /\ wait \in 0..Recovery
    /\ platform \in {"up", "mixed", "down"}
    /\ streak \in 0..FailureThreshold
    /\ call \in [Call -> {"idle", "read", "probe", "sweep"}]

BreakerInit ==
    /\ state = "CLOSED" /\ failures = 0 /\ wait = 0
    /\ platform = "up"
    /\ streak = 0
    /\ call = [c \in Call |-> "idle"]

OneMore(n) == IF n < FailureThreshold THEN n + 1 ELSE n

-----------------------------------------------------------------------------
(* The breaker *)

\* check(): does not raise, and sends the caller out as k.
Check_Stuck(k) ==
    \/ state = "CLOSED" /\ k = "read" /\ UNCHANGED breaker
    \/ state = "HALF_OPEN" /\ k = "probe" /\ UNCHANGED breaker
Check(k) ==
    \/ state = "CLOSED" /\ k = "read" /\ UNCHANGED breaker
    \/ /\ state = "OPEN" /\ wait = 0 /\ k = "probe"
       /\ state' = "HALF_OPEN"
       /\ UNCHANGED <<failures, wait>>
    \/ state = "HALF_OPEN" /\ k = "probe" /\ UNCHANGED breaker

RecordSuccess_ProbeOnly ==
    /\ state' = "CLOSED"
    /\ failures' = IF state = "HALF_OPEN" THEN 0 ELSE failures
    /\ UNCHANGED wait
RecordSuccess ==
    /\ state' = "CLOSED"
    /\ failures' = 0
    /\ UNCHANGED wait

RecordFailure ==
    /\ failures' = OneMore(failures)
    /\ wait' = Recovery
    /\ state' = IF failures' >= FailureThreshold \/ state = "HALF_OPEN" THEN "OPEN" ELSE state

-----------------------------------------------------------------------------
(* The client *)

Send(c, k) == call[c] = "idle" /\ call' = [call EXCEPT ![c] = k]
Return(c) == call' = [call EXCEPT ![c] = "idle"]

\* _get up to the await; when check() raises, nothing happens.
Get(c) ==
    /\ \E k \in {"read", "probe"} : Check(k) /\ Send(c, k)
    /\ UNCHANGED <<platform, streak>>

\* _get after the await: a timeout, a connection error or any status >= 400
\* is a failure.
GetSucceeds(c) ==
    /\ call[c] \in {"read", "probe"} /\ platform # "down"
    /\ RecordSuccess
    /\ Return(c)
    /\ streak' = 0
    /\ UNCHANGED platform

GetFails(c) ==
    /\ call[c] \in {"read", "probe"} /\ platform # "up"
    /\ RecordFailure
    /\ Return(c)
    /\ streak' = OneMore(streak)
    /\ UNCHANGED platform

\* list_active_tenants and list_advisors do not ask check() and do not record
\* failures.
SweepStart(c) == Send(c, "sweep") /\ UNCHANGED <<breaker, platform, streak>>

SweepSucceeds(c) ==
    /\ call[c] = "sweep" /\ platform # "down"
    /\ RecordSuccess
    /\ Return(c)
    /\ streak' = 0
    /\ UNCHANGED platform

SweepFails(c) ==
    /\ call[c] = "sweep" /\ platform # "up"
    /\ Return(c)
    /\ UNCHANGED <<breaker, platform, streak>>

\* The coroutine is cancelled at its await: CancelledError is no HTTPError.
Cancel(c) ==
    /\ call[c] # "idle"
    /\ Return(c)
    /\ UNCHANGED <<breaker, platform, streak>>

PlatformChanges ==
    /\ platform' \in {"up", "mixed", "down"} \ {platform}
    /\ UNCHANGED <<breaker, streak, call>>

Tick ==
    /\ wait > 0 /\ wait' = wait - 1
    /\ UNCHANGED <<state, failures, platform, streak, call>>

BreakerNext ==
    \/ \E c \in Call :
        \/ Get(c) \/ GetSucceeds(c) \/ GetFails(c)
        \/ SweepStart(c) \/ SweepSucceeds(c) \/ SweepFails(c)
        \/ Cancel(c)
    \/ PlatformChanges \/ Tick

BreakerSpec == BreakerInit /\ [][BreakerNext]_breakerVars

\* Time passes, every coroutine reads again and again, and httpx answers or
\* times out: a read that is made for ever is not cancelled every time.
BreakerFairness ==
    /\ WF_breakerVars(Tick)
    /\ \A c \in Call :
        /\ SF_breakerVars(Get(c)) /\ SF_breakerVars(GetSucceeds(c) \/ GetFails(c))
        /\ WF_breakerVars(SweepSucceeds(c) \/ SweepFails(c))

-----------------------------------------------------------------------------
(* Properties *)

\* Reads are held back exactly when the last FailureThreshold replies, whoever
\* got them and whenever they were sent, were all failures.
OpenIffStreak == state = "CLOSED" <=> streak < FailureThreshold

\* Why it holds: the counter follows the replies, and a probe is sent with the
\* counter still full, so that one failed probe reopens the circuit.
BreakerInv ==
    /\ BreakerTypeOK
    /\ OpenIffStreak
    /\ failures = streak

\* The breaker cannot hold back reads for ever: once every read is answered
\* without an error, the circuit closes and stays closed, whatever was in flight
\* or cancelled before.
Recovers == <>[](platform = "up") => <>[](state = "CLOSED")
=============================================================================
