------------------------------- MODULE AgentRun -------------------------------
(***************************************************************************)
(* An agent's run inside a request: IntelligentRunner.run and .run_stream  *)
(* and the two older wrappers (agents/runner.py, agents/fallback.py), what *)
(* they add to the request's cost accumulator, and the middleware that     *)
(* writes the accumulator to Redis when the response is there              *)
(* (middleware/cost_tracking.py, observability/cost_tracking.py).  A       *)
(* stream's response is there before its body has been sent.               *)
(***************************************************************************)
EXTENDS Integers, FiniteSetsExt

CONSTANTS
    Request,
    MaxUsage,     \* bound: model calls a request accounts for
    MaxRetries    \* MAX_RETRIES of run_agent_safe

VARIABLES
    mode,      \* which wrapper the request uses
    pc,        \* where its run is
    tries,     \* attempts made
    hooks,     \* hooks fired
    usage,     \* model usages in the accumulator
    runs,      \* agent runs in it
    flush,     \* where the flush is
    at,        \* model usages it has written
    health,    \* failures in a row of the two model providers
    models, daily, agents    \* counters in Redis: by model, by day and month, by agent

run == <<mode, pc, tries, hooks, health>>
vars == <<run, usage, runs, flush, at, models, daily, agents>>

Mode == {"run", "stream", "safe", "fallback"}
Provider == {"llm_primary", "llm_fallback"}
Ended(r) == pc[r] \in {"done", "failed"}

TypeOK ==
    /\ mode \in [Request -> Mode \cup {"-"}]
    /\ pc \in [Request -> {"none", "call", "again", "other", "done", "failed"}]
    /\ tries \in [Request -> 0..MaxRetries + 2]
    /\ hooks \in [Request -> SUBSET {"PRE_AGENT_RUN", "POST_AGENT_RUN", "ON_ERROR"}]
    /\ usage \in [Request -> 0..MaxUsage] /\ at \in [Request -> 0..MaxUsage]
    /\ runs \in [Request -> 0..1]
    /\ flush \in [Request -> {"none", "model", "cost", "agent", "over"}]
    /\ health \in [Provider -> 0..3]
    /\ models \in Nat /\ daily \in Nat /\ agents \in Nat

Init ==
    /\ mode = [r \in Request |-> "-"] /\ pc = [r \in Request |-> "none"]
    /\ tries = [r \in Request |-> 0] /\ hooks = [r \in Request |-> {}]
    /\ usage = [r \in Request |-> 0] /\ runs = [r \in Request |-> 0]
    /\ flush = [r \in Request |-> "none"] /\ at = [r \in Request |-> 0]
    /\ health = [p \in Provider |-> 0]
    /\ models = 0 /\ daily = 0 /\ agents = 0

Goto(r, from, to) == pc[r] = from /\ pc' = [pc EXCEPT ![r] = to]
Fire(r, h) == hooks' = [hooks EXCEPT ![r] = @ \cup h]
Redis == <<models, daily, agents>>
Billing == <<usage, flush, at, Redis>>

\* _check_token_budget, then the PRE hook: a limit of zero or less ends the run
\* before any hook.
Begin(r) ==
    \E m \in Mode, spent \in BOOLEAN :
        /\ mode' = [mode EXCEPT ![r] = m]
        /\ IF spent /\ m \in {"run", "stream"}
           THEN Goto(r, "none", "failed") /\ UNCHANGED <<hooks, tries>>
           ELSE /\ Goto(r, "none", "call")
                /\ Fire(r, IF m \in {"run", "stream"} THEN {"PRE_AGENT_RUN"} ELSE {})
                /\ tries' = [tries EXCEPT ![r] = 1]
        /\ UNCHANGED <<health, runs, Billing>>

\* record_agent_run and the POST hook, for the runner
Succeed(r) ==
    /\ \E step \in {"call", "again", "other"} : Goto(r, step, "done")
    /\ IF mode[r] \in {"run", "stream"}
       THEN runs' = [runs EXCEPT ![r] = 1] /\ Fire(r, {"POST_AGENT_RUN"})
       ELSE UNCHANGED <<runs, hooks>>
    /\ health' = IF mode[r] # "fallback" THEN health
                 ELSE [health EXCEPT ![IF pc[r] = "call" THEN "llm_primary" ELSE "llm_fallback"] = 0]
    /\ UNCHANGED <<mode, tries, Billing>>

\* The runner: a prompt that is too long is compacted and sent again, once; the
\* ON_ERROR hook hears of a first failure, not of a stream's or of the second.
TooLong(r) ==
    /\ mode[r] = "run" /\ Goto(r, "call", "again")
    /\ tries' = [tries EXCEPT ![r] = 2]
    /\ UNCHANGED <<mode, hooks, health, runs, Billing>>
RunFails(r) ==
    /\ mode[r] \in {"run", "stream"}
    /\ \E step \in {"call", "again"} : Goto(r, step, "failed")
    /\ Fire(r, IF mode[r] = "run" /\ pc[r] = "call" THEN {"ON_ERROR"} ELSE {})
    /\ UNCHANGED <<mode, tries, health, runs, Billing>>

\* run_agent_safe: an invalid output is tried again, then the fallback agent is; any
\* other exception leaves at once.
SafeFails(r) ==
    /\ mode[r] = "safe"
    /\ \E invalid, fallback \in BOOLEAN :
        \/ /\ invalid /\ tries[r] <= MaxRetries /\ Goto(r, "call", "call")
           /\ tries' = [tries EXCEPT ![r] = @ + 1]
        \/ /\ invalid /\ tries[r] > MaxRetries /\ fallback /\ Goto(r, "call", "other")
           /\ tries' = [tries EXCEPT ![r] = @ + 1]
        \/ /\ ~invalid \/ (tries[r] > MaxRetries /\ ~fallback)
           /\ Goto(r, "call", "failed") /\ UNCHANGED tries
        \/ Goto(r, "other", "failed") /\ UNCHANGED tries
    /\ UNCHANGED <<mode, hooks, health, runs, Billing>>

\* run_with_llm_fallback: any failure of the primary leads to the fallback.
ProviderFails(r) ==
    LET p == IF pc[r] = "call" THEN "llm_primary" ELSE "llm_fallback" IN
    /\ mode[r] = "fallback"
    /\ \/ Goto(r, "call", "other") \/ Goto(r, "call", "failed") \/ Goto(r, "other", "failed")
    /\ health' = [health EXCEPT ![p] = IF @ < 3 THEN @ + 1 ELSE @]
    /\ UNCHANGED <<mode, tries, hooks, runs, Billing>>

\* RequestCostAccumulator.record_model_usage, while the run's models answer
RecordModelUsage(r) ==
    /\ pc[r] \in {"call", "again", "other"} /\ usage[r] < MaxUsage
    /\ usage' = [usage EXCEPT ![r] = @ + 1]
    /\ UNCHANGED <<run, runs, flush, at, Redis>>

\* CostTrackingMiddleware.dispatch and flush: the response of a stream is there
\* once its run has begun; an exception passes the flush by.
FlushStart(r) ==
    /\ flush[r] = "none"
    /\ pc[r] = "done" \/ (mode[r] = "stream" /\ pc[r] # "none")
    /\ flush' = [flush EXCEPT ![r] = "model"]
    /\ UNCHANGED <<run, usage, runs, at, Redis>>

\* record_model_usage: the model's hash in one pipeline, ...
FlushModel(r) ==
    /\ flush[r] = "model" /\ at[r] < usage[r]
    /\ models' = models + 1
    /\ flush' = [flush EXCEPT ![r] = "cost"]
    /\ UNCHANGED <<run, usage, runs, at, daily, agents>>
\* a failed pipeline is sent again
FlushCost_Again(r) ==
    /\ flush[r] = "cost"
    /\ daily' = daily + 1
    /\ \/ at' = [at EXCEPT ![r] = @ + 1] /\ flush' = [flush EXCEPT ![r] = "model"]
       \/ UNCHANGED <<at, flush>>
    /\ UNCHANGED <<run, usage, runs, models, agents>>
\* ... then record_cost: the day and the month in another.
FlushCost(r) ==
    /\ flush[r] = "cost"
    /\ daily' = daily + 1
    /\ at' = [at EXCEPT ![r] = @ + 1]
    /\ flush' = [flush EXCEPT ![r] = "model"]
    /\ UNCHANGED <<run, usage, runs, models, agents>>

\* record_agent_usage
FlushAgent(r) ==
    /\ flush[r] = "model" /\ at[r] >= usage[r]
    /\ agents' = agents + runs[r]
    /\ flush' = [flush EXCEPT ![r] = "over"]
    /\ UNCHANGED <<run, usage, runs, at, models, daily>>
\* A pipeline fails: it is logged, and _flushed stays set.
FlushFails(r) ==
    /\ flush[r] \in {"model", "cost"}
    /\ flush' = [flush EXCEPT ![r] = "over"]
    /\ UNCHANGED <<run, usage, runs, at, Redis>>

Next ==
    \E r \in Request :
        \/ Begin(r) \/ Succeed(r) \/ TooLong(r) \/ RunFails(r) \/ SafeFails(r) \/ ProviderFails(r)
        \/ RecordModelUsage(r)
        \/ FlushStart(r) \/ FlushModel(r) \/ FlushCost(r) \/ FlushAgent(r) \/ FlushFails(r)

Spec == Init /\ [][Next]_vars

------------------------------------------------------------------------------
(* Properties *)

\* Whatever fails, and however requests overlap, the tenant's day never shows more
\* than its models, and they never more than was used.
NeverOverbilled ==
    /\ daily <= models
    /\ models <= MapThenSumSet(LAMBDA r : usage[r], Request)
    /\ agents <= MapThenSumSet(LAMBDA r : runs[r], Request)

\* A run that has ended has told a hook how.
EndIsHooked ==
    \A r \in Request : Ended(r) /\ "PRE_AGENT_RUN" \in hooks[r] =>
        hooks[r] \cap {"POST_AGENT_RUN", "ON_ERROR"} # {}
==============================================================================
