------------------------------ MODULE Compaction ------------------------------
(***************************************************************************)
(* What services/compaction.py and services/message_codec.py do to the     *)
(* messages of a conversation before it is stored.                         *)
(*                                                                         *)
(* A message has the kinds of its parts, the turns it comes from (those a  *)
(* summary tells of, when it is one), its size in tokens, the client its   *)
(* tool arguments or its structured tool result name ("none" for none),    *)
(* and the financial identifiers that the patterns find in its text: apart *)
(* those that are beyond the limit of a tool result.                       *)
(***************************************************************************)
EXTENDS Integers, SequencesExt

CONSTANTS
    MaxResult,      \* MICROCOMPACT_MAX_TOOL_RESULT_CHARS, in tokens
    Threshold,      \* AUTO_COMPACT_TOKEN_THRESHOLD
    Recent,         \* RECENT_TURNS_TO_KEEP
    MaxMessages,    \* MAX_MESSAGES of conversation_memory.py
    MaxTurns,       \* max_turns_in_summary
    MaxItems,       \* entries of the list of identifiers in a summary
    Account,        \* identifiers that are account numbers,
    Amount,         \* amounts of money,
    Context         \* or only found near certain words: percentages, unknown tickers

Kind == {"system", "user", "text", "call", "return", "retry"}

\* _is_system_prompt_message
IsSystem(m) == "system" \in m.parts

\* serialize_part knows every kind but the retry prompt the agent library adds
\* when a tool or an output has to be tried again.
Serializable(ms) == \A i \in DOMAIN ms : "retry" \notin ms[i].parts

\* estimate_token_count
Tokens(ms) == FoldLeft(LAMBDA n, m : n + m.size, 0, ms)

\* _extract_text_content: the messages that a summary can tell of; those without
\* are scanned for identifiers too (_extract_all_text).
HasText(m) == m.parts \cap {"user", "text", "return"} # {}

\* What the patterns find in a message.  In the list of a summary nothing tells a
\* percentage or an unknown ticker: some are found there again, or none.
IsSummary(m) == m.parts = {"system"}
Matches(m, again) == IF IsSummary(m) THEN (m.items \ Context) \cup (m.items \cap again) ELSE m.items

DetectFinancialData_TextOnly(ms, again) == UNION {Matches(m, again) : m \in {n \in Range(ms) : HasText(n)}}
DetectFinancialData(ms, again) == UNION {Matches(m, again) : m \in Range(ms)}

\* Whether a summary lists these of what was found: the first MaxItems, account numbers
\* before all others.  An amount may take several entries: in a list it is followed by
\* a comma, which the pattern for amounts takes in when it reads the list.
Lists(found, listed) ==
    /\ Cardinality(listed) <= MaxItems
    /\ \/ found \cap Account \subseteq listed
       \/ listed \subseteq Account /\ Cardinality(listed) = MaxItems
    /\ listed = found \/ Cardinality(found) > MaxItems \/ found \cap Amount # {}

\* microcompact_messages: a tool result that is too long is cut off, with a note that
\* makes it longer than the limit again; what a result was made of is text from then on.
Cut(m) ==
    IF "return" \in m.parts /\ m.size > MaxResult
    THEN [m EXCEPT !.size = MaxResult + 1, !.client = "none", !.beyond = {}]
    ELSE m
Microcompact(ms) == [i \in DOMAIN ms |-> Cut(ms[i])]

Newest(ms, n) == SubSeq(ms, (IF Len(ms) > n THEN Len(ms) - n ELSE 0) + 1, Len(ms))
Older(ms, n) == SubSeq(ms, 1, Len(ms) - n)

\* DeterministicCompactor.summarize: a line for each of the last turns, then the
\* identifiers; the text of a system part, an earlier summary's too, is left out.
\* When that leaves no line ("No prior conversation context."), neither are the
\* identifiers listed.  (The lines quote the beginnings of messages, and with them some
\* identifiers; what is only quoted there is not relied on.)
Told(ms) ==
    LET spoken == {i \in DOMAIN ms : HasText(ms[i])} IN
    {ms[i] : i \in {k \in spoken : Cardinality({n \in spoken : n > k}) < MaxTurns}}
Summarize(ms, listed) ==
    [parts |-> {"system"}, size |-> 1, client |-> "none", beyond |-> {},
     turns |-> UNION {m.turns : m \in Told(ms)},
     items |-> IF Told(ms) = {} THEN {} ELSE listed]

\* ms has a summary of messages that left nothing to tell
Mute(ms) == \E i \in DOMAIN ms : ms[i].turns = {}

\* The model's summary when a strategy is given, the conversation is over twice
\* the threshold and the circuit is not open; else, or when the model fails, the
\* deterministic one.
ByModel(ms, strategy, open, fails) ==
    strategy /\ Tokens(ms) > 2 * Threshold /\ ~open /\ ~fails

\* The leading system message, if there is one, stays in front.
Lead(ms) == IF ms # <<>> /\ IsSystem(ms[1]) THEN <<ms[1]>> ELSE <<>>
Rest(ms) == SubSeq(ms, Len(Lead(ms)) + 1, Len(ms))

\* compact_conversation (memory.save passes no strategy), with the identifiers that its
\* summary lists, and reactive_compact, which forces it and keeps half as many messages.
Shortens(ms, threshold, recent) == Tokens(ms) > threshold /\ Len(Rest(ms)) > recent
Compact(messages, threshold, recent, listed) ==
    LET ms == Microcompact(messages) IN
    IF ~Shortens(ms, threshold, recent) THEN ms
    ELSE Lead(ms) \o <<Summarize(Older(Rest(ms), recent), listed)>> \o Newest(Rest(ms), recent)
ReactiveCompact(messages, listed) == Compact(messages, 0, Recent \div 2, listed)

\* The messages that are summed up
Past(messages, threshold, recent) ==
    LET ms == Microcompact(messages) IN
    IF Shortens(ms, threshold, recent) THEN Older(Rest(ms), recent) ELSE <<>>

\* trim_message_history
Trim(ms) ==
    IF Len(ms) <= MaxMessages THEN ms
    ELSE Lead(ms) \o Newest(ms, MaxMessages - Len(Lead(ms)))

\* extract_active_client_id (and, alike, extract_active_household_id)
ActiveClient(ms) ==
    LET named == {i \in DOMAIN ms : ms[i].client # "none"} IN
    IF named = {} THEN "none" ELSE ms[Max(named)].client
==============================================================================
