------------------------------- MODULE MCSidecar -------------------------------
(***************************************************************************)
(* Small instances, for TLC, of the components of the sidecar.  They share *)
(* no state: the variable part says which of them a behaviour is about,    *)
(* and the others stay in an initial state.                                *)
(***************************************************************************)
EXTENDS Sidecar, TLC

CONSTANTS
    Parts,                              \* the components to check
    account, amount, yield,             \* identifiers
    read1, read2, read3, write1, write2                       \* tool calls

VARIABLE part

Calls == <<read1, write1, read2, write2, read3>>
ThreeReads == {read1, read2, read3}
TwoOneNone == <<2, 1, 0>>
TwoSecurities == [t \in {"a", "b"} |->
              IF t = "a" THEN [factor |-> 16, reliability |-> 10, match |-> 1, sector |-> "tech"]
              ELSE [factor |-> 8, reliability |-> 4, match |-> -1, sector |-> "tech"]]
\* The user mentions every identifier, briefly or not, or the agent does, in the
\* arguments of a call, in its result and, of a long one, beyond the limit; a retry.
SomeTurns ==
    LET Places(user, call, return, beyond) ==
            [user |-> user, call |-> call, return |-> return, beyond |-> beyond, text |-> {}]
        told == Places({account, amount, yield}, {}, {}, {})
        read == Places({}, {yield}, {amount}, {account})
        client == CHOOSE c \in Client : TRUE
        Turn(c, n, places, again) == [client |-> c, size |-> n, at |-> places, retry |-> again] IN
    {Turn("none", n, told, FALSE) : n \in {1, MaxResult + 2}}
    \cup {Turn(client, n, read, FALSE) : n \in {1, MaxResult + 2}}
    \cup {Turn("none", 1, read, FALSE), Turn(client, 1, told, FALSE), Turn("none", 1, told, TRUE)}
SomeNamed ==
    LET Order(excluded, included) == [excluded |-> excluded, included |-> included] IN
    {Order({}, {}), Order({"a"}, {}), Order({}, {"a"}), Order({"b"}, {"x"}), Order({}, {"a", "b"}),
     Order({"a", "x"}, {})}
OneAnswer == {[score |-> 4, confidence |-> 9, hit |-> TRUE]}

\* two reads of a method that differ in one argument or one field of the scope, or
\* reads of two methods
Methods == {
    "household_summary", "account_summary", "client_profile", "transfer_case",
    "order_projection", "execution_projection", "report_snapshot", "document_metadata",
    "advisor_clients", "client_timeline", "firm_accounts", "search_documents_text",
    "document_content", "client_holdings", "client_realized_gains", "client_accounts",
    "advisor_calendar", "advisor_tasks", "advisor_priority_emails", "account_alerts",
    "email_thread", "advisor_team", "benchmark_data", "crm_activity_feed", "meeting_metadata"}
Names == {"id", "days", "q", "include_cost_basis", "tax_year"}
Fields == {"tenant", "actor", "request", "visible"}
OneOf(S, x) == [y \in S |-> IF y = x THEN 1 ELSE 0]
Filters(x) == IF x = "filters" THEN [q |-> 1] ELSE <<>>
Read(m, x) ==
    [method |-> m, scope |-> OneOf(Fields, x),
     args |-> OneOf(Names, x) @@ [filters |-> Filters(x),
                 account_ids |-> IF x \in {"empty", "some"} THEN x ELSE "null"]]
PairsOfReads ==
    {{Read(m, ""), Read(n, "")} : m, n \in Methods}
    \cup {{Read(m, x), Read(m, y)} : m \in Methods, y \in {"", "q", "empty"},
            x \in Names \cup Fields \cup {"filters", "empty", "some"}}

------------------------------------------------------------------------------

\* A component that is not the part starts in one of its initial states.
One(n, init, idle) == IF part = n THEN init ELSE idle

MCInit ==
    /\ part \in Parts
    /\ One("reads", TRUE, asks = (CHOOSE S \in Asks : TRUE) /\ asking = [t \in Runner |-> CHOOSE r \in asks : TRUE])
    /\ One("tools", TRUE, abort = TRUE)
    /\ SidecarInit

MCNext ==
    /\ UNCHANGED part
    /\ \/ part = "chunks" /\ IndexStep
       \/ part = "chat" /\ ChatStep
       \/ part = "tools" /\ ToolStep
       \/ part = "runs" /\ RunStep
       \/ part = "portfolio" /\ FolioStep
       \/ part = "reads" /\ ReadStep

MCSpec == MCInit /\ [][MCNext]_<<part, sidecarVars>>

Symmetry == Permutations(Request) \cup Permutations(Runner)
==============================================================================
