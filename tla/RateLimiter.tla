----------------------------- MODULE RateLimiter -----------------------------
(***************************************************************************)
(* The sliding windows of http/middleware/rate-limit.ts.  A window is a    *)
(* sorted set in Redis under the key of a firm, of a user or of the        *)
(* address a login comes from; a request is checked against its keys one   *)
(* after the other, other requests in between.  The commands of one check  *)
(* are one pipeline and are executed together, in the second they were     *)
(* sent in.                                                                *)
(***************************************************************************)
EXTENDS Integers, Sequences, FiniteSets

CONSTANTS
    Limit,          \* of each key: RATE_LIMIT_TENANT_RPM, _USER_RPM, _LOGIN_RPM
    KeysOf,         \* what requests are checked against: <<firm, user>>, <<address>>
    Window,         \* seconds a request counts
    MaxRequests, MaxSeconds    \* bounds of the model

VARIABLES
    second,         \* Math.floor(Date.now() / 1000)
    log,            \* the sorted set of each key: requests, scored by their checks
    lapses,         \* when Redis expires it
    checks          \* the requests: their keys, the times of their checks, their fate

vars == <<second, log, lapses, checks>>

Key == DOMAIN Limit

Init ==
    /\ second = 0
    /\ log = [k \in Key |-> {}] /\ lapses = [k \in Key |-> 0]
    /\ checks = <<>>

\* When k was checked for request i.
Checked(i, k) == \E n \in DOMAIN checks[i].at : checks[i].keys[n] = k
Score(i, k) == checks[i].at[CHOOSE n \in DOMAIN checks[i].at : checks[i].keys[n] = k]

\* A service account has no keys to be checked.
Arrive(keys) ==
    /\ Len(checks) < MaxRequests
    /\ checks' = Append(checks, [keys |-> keys, at |-> <<>>,
                                 is |-> IF keys = <<>> THEN "passed" ELSE "checking"])
    /\ UNCHANGED <<second, log, lapses>>

Kept_OneMore(k) == {i \in log[k] : Score(i, k) >= second - Window}
\* zremrangebyscore
Kept(k) == {i \in log[k] : Score(i, k) > second - Window}

NextKey(i) == checks[i].keys[Len(checks[i].at) + 1]

\* checkLimit: the request is in the set before the set is counted.
Counted(i) == Kept(NextKey(i)) \cup {i}
Execute(i, fate) ==
    LET k == NextKey(i) IN
    /\ log' = [log EXCEPT ![k] = Counted(i)]
    /\ lapses' = [lapses EXCEPT ![k] = second + Window]
    /\ checks' = [checks EXCEPT ![i].at = Append(@, second), ![i].is = fate]
    /\ UNCHANGED second

Check(i) ==
    /\ checks[i].is = "checking"
    /\ Execute(i, IF Cardinality(Counted(i)) > Limit[NextKey(i)] THEN "refused"
                  ELSE IF Len(checks[i].at) + 1 < Len(checks[i].keys) THEN "checking"
                  ELSE "passed")

\* Redis does not answer, with or without having executed the pipeline: the
\* request goes through.
FailOpen(i) ==
    /\ checks[i].is = "checking"
    /\ \/ Execute(i, "open")
       \/ checks' = [checks EXCEPT ![i].is = "open"] /\ UNCHANGED <<second, log, lapses>>

Pass ==
    /\ second < MaxSeconds /\ second' = second + 1
    /\ log' = [k \in Key |-> IF lapses[k] <= second' THEN {} ELSE log[k]]
    /\ UNCHANGED <<lapses, checks>>

Next ==
    \/ \E keys \in KeysOf : Arrive(keys)
    \/ \E i \in DOMAIN checks : Check(i) \/ FailOpen(i)
    \/ Pass

------------------------------------------------------------------------------
(* Properties *)

Within(k, t) == {i \in DOMAIN checks : Checked(i, k) /\ Score(i, k) \in t - Window + 1..t}

\* While Redis answers, no window of any key lets more requests through than its
\* limit, and only what comes on top of a full window of requests is refused.
LimitExact ==
    /\ \A k \in Key, t \in 0..second :
          Cardinality({i \in Within(k, t) : checks[i].is = "passed"}) <= Limit[k]
    /\ \A i \in DOMAIN checks : checks[i].is = "refused" =>
          LET k == checks[i].keys[Len(checks[i].at)]
          IN Cardinality(Within(k, Score(i, k))) > Limit[k]

------------------------------------------------------------------------------
(* The inductive invariant.                                                 *)

TypeOK ==
    /\ second \in Nat
    /\ checks \in Seq([keys : KeysOf, at : Seq(Nat),
                      is : {"checking", "passed", "refused", "open"}])
    /\ log \in [Key -> SUBSET DOMAIN checks]
    /\ lapses \in [Key -> Nat]

\* Those a window has let through so far, whatever their other keys will say.
Admitted(k, t) == {i \in Within(k, t) : checks[i].is \in {"checking", "passed"}}

\* The sorted set holds everything the window of now is about, and lasts as long.
IInv ==
    /\ TypeOK
    /\ \A i \in DOMAIN checks :
        LET c == checks[i] IN
        /\ Len(c.at) <= Len(c.keys)
        /\ c.is = "checking" => Len(c.at) < Len(c.keys)
        /\ c.is = "refused" => Len(c.at) > 0
        /\ \A n \in DOMAIN c.at : c.at[n] <= second
    /\ \A k \in Key :
        /\ \A i \in log[k] : Checked(i, k)
        /\ \A i \in Within(k, second) : i \in log[k] /\ Score(i, k) + Window <= lapses[k]
        /\ \A t \in 0..second : Cardinality(Admitted(k, t)) <= Limit[k]
    /\ LimitExact
==============================================================================
