----------------------------- MODULE PlatformReads -----------------------------
(***************************************************************************)
(* The typed reads of the platform client (services/platform_client.py)    *)
(* through a cache of one request (services/request_cache.py), which the   *)
(* client is built with in the tests and can be in the app: what each      *)
(* method puts into the key of a read, what it sends to the platform, and  *)
(* the coroutines that read at the same time.  The answer to a read is     *)
(* told by what was sent; whether the breaker, the network or the platform *)
(* refused it is left to CircuitBreaker.                                   *)
(***************************************************************************)
EXTENDS Integers, SequencesExt

CONSTANTS
    Task,           \* coroutines of one request: parallel tools, prefetch
    Asks,           \* possible sets of reads [method, args, scope] that they make
    MaxEntries      \* of the cache

VARIABLES
    asks,           \* one of Asks
    store,          \* the cache, oldest entry first: [key, answer]
    asked,          \* the last read of each task
    got             \* its answer, or None, Waiting or Error

vars == <<asks, store, asked, got>>

None == [path |-> "none"]
Waiting == [path |-> "waiting"]
Error == [path |-> "error"]

------------------------------------------------------------------------------
(* Of every method, the arguments that it names in the key, in the path and in the query *)

Row(inKey, inPath, inQuery) == [key |-> inKey, path |-> inPath, query |-> inQuery]

ResourceReads ==
    [m \in {"household_summary", "account_summary", "client_profile", "transfer_case",
            "order_projection", "execution_projection", "report_snapshot", "document_metadata"} |->
        Row({"id"}, {"id"}, {})]
ListReads ==
    [m \in {"advisor_clients", "client_timeline", "firm_accounts", "search_documents_text"} |->
        CASE m = "client_timeline" -> Row({"id", "days"}, {"id"}, {"days"})
          [] m = "firm_accounts" -> Row({"filters"}, {}, {"filters"})
          [] m = "search_documents_text" -> Row({"q", "filters"}, {}, {"q", "filters"})
          [] OTHER -> Row({"id"}, {"id"}, {})]
ClientReads ==
    [m \in {"document_content", "client_holdings", "client_realized_gains", "client_accounts"} |->
        CASE m = "client_holdings" -> Row({"id", "include_cost_basis"}, {"id"}, {"include_cost_basis"})
          [] m = "client_realized_gains" -> Row({"id", "tax_year"}, {"id"}, {"tax_year"})
          [] m = "client_accounts" -> Row({"id", "account_ids"}, {"id"}, {"account_ids"})
          [] OTHER -> Row({"id"}, {"id"}, {})]
AdvisorReads ==
    [m \in {"advisor_calendar", "advisor_tasks", "advisor_priority_emails", "account_alerts",
            "email_thread", "advisor_team", "benchmark_data"} |->
        IF m = "benchmark_data" THEN Row({}, {}, {}) ELSE Row({"id"}, {"id"}, {})]
CrmReads == [m \in {"crm_activity_feed"} |-> Row({"id"}, {"id"}, {})]
MeetingReads == [m \in {"meeting_metadata"} |-> Row({"id"}, {"id"}, {})]

Method == UNION {DOMAIN ResourceReads, DOMAIN ListReads, DOMAIN ClientReads,
                 DOMAIN AdvisorReads, DOMAIN CrmReads, DOMAIN MeetingReads}
RowOf(m) ==
    CASE m \in DOMAIN ResourceReads -> ResourceReads[m] [] m \in DOMAIN ListReads -> ListReads[m]
      [] m \in DOMAIN ClientReads -> ClientReads[m] [] m \in DOMAIN AdvisorReads -> AdvisorReads[m]
      [] m \in DOMAIN CrmReads -> CrmReads[m] [] m \in DOMAIN MeetingReads -> MeetingReads[m]

\* Only what the path has
Key_PathOnly(r) == <<r.method, Restrict(r.args, RowOf(r.method).path), r.scope>>
\* _cache_key, with the fingerprint of the scope, a hash of all its fields
Key(r) == <<r.method, Restrict(r.args, RowOf(r.method).key), r.scope>>

\* The query: filters are parameters of their own, and one named q replaces the q that
\* is searched for; no list of accounts and an empty one are both left out.
Params(r) ==
    CASE r.method = "firm_accounts" -> r.args["filters"]
      [] r.method = "search_documents_text" -> r.args["filters"] @@ [q |-> r.args["q"]]
      [] r.method = "client_accounts" /\ r.args["account_ids"] \in {"null", "empty"} -> <<>>
      [] OTHER -> Restrict(r.args, RowOf(r.method).query)
\* _scope_headers: three of the scope's fields, then all of it
Headers(scope) == <<scope.tenant, scope.actor, scope.request, scope>>
\* A method has a path of its own, told apart by what is put into it.
Sent(r) ==
    [path |-> <<r.method, Restrict(r.args, RowOf(r.method).path)>>, query |-> Params(r),
     headers |-> Headers(r.scope)]

------------------------------------------------------------------------------
(* RequestScopedCache *)

Hit(key) == {e \in Range(store) : e.key = key}
\* At the limit the oldest entry goes, also when the key is there already.
Put(key, answer) ==
    LET left == IF Len(store) >= MaxEntries THEN Tail(store) ELSE store
        same == {i \in DOMAIN left : left[i].key = key}
    IN Append(IF same = {} THEN left ELSE RemoveAt(left, CHOOSE i \in same : TRUE),
              [key |-> key, answer |-> answer])

------------------------------------------------------------------------------
(* _get *)

Init ==
    /\ asks \in Asks /\ store = <<>>
    /\ asked \in [Task -> asks] /\ got = [t \in Task |-> None]

Ask(t) ==
    /\ got[t] # Waiting
    /\ \E r \in asks :
        /\ asked' = [asked EXCEPT ![t] = r]
        /\ got' \in {[got EXCEPT ![t] = x] :
                        x \in IF Hit(Key(r)) = {} THEN {Waiting} ELSE {e.answer : e \in Hit(Key(r))}}
    /\ UNCHANGED <<asks, store>>

Reply(t) ==
    /\ got[t] = Waiting
    /\ got' = [got EXCEPT ![t] = Sent(asked[t])]
    /\ store' = Put(Key(asked[t]), Sent(asked[t]))
    /\ UNCHANGED <<asks, asked>>

Fail(t) ==
    /\ got[t] = Waiting
    /\ got' = [got EXCEPT ![t] = Error]
    /\ UNCHANGED <<asks, store, asked>>

Next == \E t \in Task : Ask(t) \/ Reply(t) \/ Fail(t)
Spec == Init /\ [][Next]_vars

------------------------------------------------------------------------------
(* Properties *)

\* However reads overlap and entries are evicted: a read is answered with what the
\* platform says to that read and in that scope, and the cache keeps its limit.
OwnAnswers ==
    /\ \A t \in Task : got[t] \in {None, Waiting, Error, Sent(asked[t])}
    /\ Len(store) <= MaxEntries
==============================================================================
