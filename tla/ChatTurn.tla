------------------------------- MODULE ChatTurn -------------------------------
(***************************************************************************)
(* One conversation of the copilot: its key in Redis, which                *)
(* services/conversation_memory.py loads and replaces as a whole, and the  *)
(* requests that do so: POST /chat and /chat/stream (routers/chat.py) and  *)
(* POST /portfolio/construct (routers/portfolio.py).  A request loads the  *)
(* key, waits for the agent, and saves; others may do so in between.       *)
(***************************************************************************)
EXTENDS Compaction

CONSTANTS
    Request,     \* the requests of the conversation
    Client,      \* clients a tool call may name
    Item,        \* financial identifiers
    Turns        \* what the turns of a conversation may be like, see Added

VARIABLES
    key,         \* the stored conversation; no messages and no job when there is none
    pc,          \* next step of each request
    history,     \* the messages it loaded
    job,         \* the portfolio job a construct request has enqueued
    log,         \* history: every message the conversation was ever to hold
    serial,      \* history: no save has replaced what another request saved
    lost         \* history: what was lost, messages to the hard cap, identifiers to a mute
                 \* summary or to a full list

vars == <<key, pc, history, job, log, serial, lost>>

None == [messages |-> <<>>, client |-> "none", job |-> "none"]

TypeOK ==
    /\ key.client \in Client \cup {"none"}
    /\ key.job \in {"none", "job"}
    /\ Len(key.messages) <= MaxMessages
    /\ pc \in [Request -> {"none", "load", "run", "enqueued", "save", "done", "failed"}]
    /\ job \in [Request -> BOOLEAN]
    /\ serial \in BOOLEAN /\ lost \subseteq {"cap", "mute", "full"}

Init ==
    /\ key = None /\ log = <<>>
    /\ pc = [r \in Request |-> "none"]
    /\ history = [r \in Request |-> <<>>]
    /\ job = [r \in Request |-> FALSE]
    /\ serial = TRUE /\ lost = {}

Goto(r, from, to) == pc[r] = from /\ pc' = [pc EXCEPT ![r] = to]

\* The history is prefetched; a read that fails counts as an empty history.
Load(r) ==
    /\ Goto(r, "none", "run")
    /\ \E h \in {key.messages, <<>>} :
        /\ history' = [history EXCEPT ![r] = h]
        /\ serial' = (serial /\ h = key.messages)
    /\ UNCHANGED <<key, job, log, lost>>

Message(parts, r, size, client, items, beyond) ==
    [parts |-> parts, turns |-> {r}, size |-> size, client |-> client, items |-> items,
     beyond |-> beyond]

\* What agent.run adds: the user's message (under the system prompt when the
\* history is empty), perhaps a tool call and its result, perhaps a retry, then
\* the answer.  Question and result are long or short.  An identifier is in the text of
\* any of them, in a long result also beyond the limit: at[p] are those at place p.
Turn == [client : Client \cup {"none"}, size : {1, MaxResult + 2}, retry : BOOLEAN,
         at : [{"user", "call", "return", "beyond", "text"} -> SUBSET Item]]
Added(r, h, t) ==
    LET first == IF h = <<>> THEN {"system", "user"} ELSE {"user"}
        tail == IF t.size > MaxResult THEN t.at["beyond"] ELSE {} IN
    <<Message(first, r, t.size, "none", t.at["user"], {})>>
    \o (IF t.client = "none" THEN <<>>
        ELSE <<Message({"call"}, r, 1, t.client, t.at["call"], {}),
               Message({"return"}, r, t.size, t.client, t.at["return"], tail)>>)
    \o (IF t.retry THEN <<Message({"retry"}, r, 1, "none", {}, {})>> ELSE <<>>)
    \o <<Message({"text"}, r, 1, "none", t.at["text"], {})>>

\* agent.run returns; a stream is saved before its last event.
Run(r) ==
    /\ Goto(r, "run", "save")
    /\ \E t \in Turns : history' = [history EXCEPT ![r] = @ \o Added(r, @, t)]
    /\ UNCHANGED <<key, job, log, serial, lost>>

\* The agent fails, or the reader of the stream is gone: nothing is saved.
Fail(r) ==
    /\ Goto(r, "run", "failed")
    /\ UNCHANGED <<key, history, job, log, serial, lost>>

\* construct_portfolio: the job is enqueued, then the state and the messages are
\* loaded, then saved with the job's id.
Enqueue(r) ==
    /\ Goto(r, "none", "enqueued")
    /\ job' = [job EXCEPT ![r] = TRUE]
    /\ UNCHANGED <<key, history, log, serial, lost>>
LoadForJob(r) ==
    /\ \/ Goto(r, "enqueued", "save") /\ history' = [history EXCEPT ![r] = key.messages]
       \/ Goto(r, "enqueued", "failed") /\ UNCHANGED history
    /\ UNCHANGED <<key, job, log, serial, lost>>

\* ConversationMemory.save; what it replaces is lost unless this request loaded it.
Stored(messages, listed) == Trim(Compact(messages, Threshold, Recent, listed))
IsFrom(ms, base) == IsPrefix(base, ms)
Save(r) ==
    LET past == Past(history[r], Threshold, Recent) IN
    /\ Goto(r, "save", "done")
    /\ \E again \in SUBSET Context :
        LET found == DetectFinancialData(past, again) IN
        \E listed \in SUBSET found :
            LET compacted == Compact(history[r], Threshold, Recent, listed)
                stored == Stored(history[r], listed) IN
            /\ Lists(found, listed)
            /\ Serializable(stored)
            /\ key' = [messages |-> stored, client |-> ActiveClient(stored),
                       job |-> IF job[r] THEN "job" ELSE "none"]
            /\ lost' = lost \cup (IF Len(compacted) > MaxMessages THEN {"cap"} ELSE {})
                             \cup (IF Mute(compacted) THEN {"mute"} ELSE {})
                             \cup (IF listed # found THEN {"full"} ELSE {})
    /\ log' = log \o SubSeq(history[r], Len(key.messages) + 1, Len(history[r]))
    /\ serial' = (serial /\ IsFrom(history[r], key.messages))
    /\ UNCHANGED <<history, job>>

\* serialize_part raises on a retry prompt, or Redis fails: the turn is lost.
SaveFails(r) ==
    /\ Goto(r, "save", "failed")
    /\ UNCHANGED <<key, history, job, log, serial, lost>>

\* Two hours without a save, or a request to clear it.
Expire ==
    /\ key # None
    /\ key' = None /\ log' = <<>> /\ lost' = {}
    /\ serial' = (\A r \in Request : pc[r] \notin {"run", "save"})
    /\ UNCHANGED <<pc, history, job>>

Next ==
    \/ \E r \in Request :
        \/ Load(r) \/ Run(r) \/ Fail(r)
        \/ Enqueue(r) \/ LoadForJob(r)
        \/ Save(r) \/ SaveFails(r)
    \/ Expire

Spec == Init /\ [][Next]_vars

------------------------------------------------------------------------------
(* Properties *)

\* As long as no save replaced another request's, a conversation that has been stored
\* ends with its newest messages, as they were written but for long tool results, which
\* are cut off at the limit.
NewestKept ==
    serial => \A n \in 1..Recent :
        n <= Len(log) =>
            /\ n <= Len(key.messages)
            /\ key.messages[Len(key.messages) - n + 1] = Cut(log[Len(log) - n + 1])

\* The system prompt, which the agent only adds to an empty history, stays in front
\* through every compaction and trim.
SystemPromptKept == key.messages # <<>> => key.messages[1].parts = {"system", "user"}

AllStored(S) ==
    \A i \in DOMAIN log : \A x \in log[i].items \cap S :
        \E k \in DOMAIN key.messages : x \in key.messages[k].items

\* Until messages are dropped by the hard cap or summed up in nothing, an account number
\* that was mentioned, by the user or the agent, in a call or within the limit of a
\* result, is still in the stored conversation, through any number of compactions, as
\* long as a summary has room for every account number there is.  So is any other
\* identifier that is found wherever it stands, until a summary could not list all.
IdentifiersKept ==
    serial /\ lost \cap {"cap", "mute"} = {} =>
        /\ Cardinality(Account) <= MaxItems => AllStored(Account)
        /\ "full" \notin lost => AllStored(Item \ Context)

Answered(ms) ==
    \A i \in DOMAIN ms :
        "return" \in ms[i].parts =>
            \E k \in 1..i - 1 : "call" \in ms[k].parts /\ ms[k].turns = ms[i].turns

\* Of a history with the calls to all its results the hard cap makes another one.
CallsAnswered ==
    \A r \in Request :
        LET ms == Compact(history[r], Threshold, Recent, {}) IN
        pc[r] = "save" /\ Serializable(Trim(ms)) /\ Answered(ms) => Answered(Trim(ms))

\* The active portfolio survives the turns that follow.
PortfolioStays == [][key.job = "job" /\ key' # None => key'.job = "job"]_vars
==============================================================================
