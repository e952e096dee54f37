-------------------------------- MODULE Sidecar --------------------------------
(***************************************************************************)
(* The components of the sidecar that keep state while jobs and requests   *)
(* overlap, side by side: the rows of a source in the RAG index, a         *)
(* conversation of the copilot, a batch of tool calls, agent runs and what *)
(* they cost, the cached reads of a request, and a chain of portfolio      *)
(* jobs.  None of them reads what another writes, so that a step of the    *)
(* sidecar is a step of one of them.                                       *)
(***************************************************************************)
EXTENDS RagChunks, FiniteSets

CONSTANTS
    Request, Client, Item,                                              \* of ChatTurn
    Account, Amount, Context, Turns,
    MaxResult, Threshold, Recent, MaxMessages, MaxTurns, MaxItems,
    Requests, ReadOnly, MaxConcurrent,                                  \* of ToolCalls
    Runner, MaxUsage, MaxRetries,                                       \* of AgentRun
    Asks, MaxEntries,                                                   \* of PlatformReads
    Market, Unlisted, Answers, TopFactor, TopMatch, Cap,                \* of Portfolio
    Target, SectorCap, TopGated, Named, MaxJobs

\* The calls of a batch come in a list, requests are finitely many, as the securities
\* of a firm and the identifiers of a conversation are, an account number is found
\* wherever it stands, the cache of a request holds something, and the messages that a
\* compaction keeps (RECENT_TURNS_TO_KEEP) are fewer than the longest conversation that
\* is stored has (MAX_MESSAGES).
ASSUME SidecarAssumption ==
    /\ Requests \in Seq({Requests[i] : i \in DOMAIN Requests})
    /\ IsFiniteSet(Runner) /\ IsFiniteSet(DOMAIN Market) /\ IsFiniteSet(Unlisted)
    /\ {TopFactor, TopMatch, Cap} \subseteq Nat /\ MaxEntries \in Nat \ {0}
    /\ IsFiniteSet(Item) /\ {MaxResult, Recent, MaxMessages, MaxTurns, MaxItems} \subseteq Nat
    /\ Recent < MaxMessages
    /\ Account \cup Amount \subseteq Item \ Context /\ Context \subseteq Item

VARIABLES
    key, chatPc, history, job, log, serial, lost,                        \* of ChatTurn
    st, out, phase, abort,                                              \* of ToolCalls
    mode, runPc, tries, hooks, usage, runs, flush, at, health, models, daily, agents,
    stage, jobs, asked, wish, fulfilled, intent, pool, themes, held, relaxed, round, result,
    asks, store, asking, got                                            \* of PlatformReads

chatVars == <<key, chatPc, history, job, log, serial, lost>>
toolVars == <<st, out, phase, abort>>
runVars == <<mode, runPc, tries, hooks, usage, runs, flush, at, health, models, daily, agents>>
folioVars == <<stage, jobs, asked, wish, fulfilled, intent, pool, themes, held, relaxed, round, result>>
readVars == <<asks, store, asking, got>>
sidecarVars == <<vars, chatVars, toolVars, runVars, folioVars, readVars>>

Chat == INSTANCE ChatTurn WITH pc <- chatPc
Tools == INSTANCE ToolCalls
Agent == INSTANCE AgentRun WITH pc <- runPc, Request <- Runner
Folio == INSTANCE Portfolio
Reading == INSTANCE PlatformReads WITH asked <- asking, Task <- Runner

ASSUME TurnsAssumption == Turns \subseteq Chat!Turn
ASSUME NamedAssumption == Named \subseteq Folio!Tickers
ASSUME AsksAssumption == \A S \in Asks : \A r \in S : r.method \in Reading!Method

SidecarInit == Init /\ Chat!Init /\ Tools!Init /\ Agent!Init /\ Folio!Init /\ Reading!Init

IndexStep == Next /\ UNCHANGED <<chatVars, toolVars, runVars, folioVars, readVars>>
ChatStep == Chat!Next /\ UNCHANGED <<vars, toolVars, runVars, folioVars, readVars>>
ToolStep == Tools!Next /\ UNCHANGED <<vars, chatVars, runVars, folioVars, readVars>>
RunStep == Agent!Next /\ UNCHANGED <<vars, chatVars, toolVars, folioVars, readVars>>
FolioStep == Folio!Next /\ UNCHANGED <<vars, chatVars, toolVars, runVars, readVars>>
ReadStep == Reading!Next /\ UNCHANGED <<vars, chatVars, toolVars, runVars, folioVars>>

SidecarNext == IndexStep \/ ChatStep \/ ToolStep \/ RunStep \/ FolioStep \/ ReadStep

SidecarSpec == SidecarInit /\ [][SidecarNext]_sidecarVars

------------------------------------------------------------------------------
(* The properties of the components; OneText is that of RagChunks. *)

\* Through compaction and trimming a conversation keeps both its ends, the system
\* prompt in front and its newest messages, long tool results cut off, and until
\* messages are dropped or summed up in nothing the account numbers that it mentioned,
\* and the other identifiers as long as a summary could list all.
ConversationKept == Chat!NewestKept /\ Chat!SystemPromptKept /\ Chat!IdentifiersKept

\* "do not split tool call from its result"
CallsAnswered == Chat!CallsAnswered

\* Whatever is cached and evicted in between, a read is answered with its own answer.
OwnAnswers == Reading!OwnAnswers

\* A tool call that may change something runs alone.
WritersAlone == Tools!WritersAlone

\* No failure or overlap bills a tenant for more than was used.
NeverOverbilled == Agent!NeverOverbilled

\* No draft of a chain of revisions forgets which tickers its requests asked to
\* exclude and to include.
WishesHonoured == Folio!WishesHonoured
==============================================================================
