# Verification of the advisory platform

TLA+ models of the code in this repository, checked with TLC, with theorems
checked by TLAPS. The repository holds two programs:

- `apps/api` - the platform API (TypeScript, Hono, Postgres, Redis): tenants,
  users, authentication, roles, impersonation, service accounts, households.
- `apps/intelligence-layer` - the sidecar (Python, FastAPI, arq, Redis, a vector
  store): agents, background jobs, a RAG index, portfolio construction,
  analytical models. It reads the platform over HTTP.

In both, many requests run at the same time in one event loop, each suspended at
its `await`s; several processes share Postgres and Redis. Few handlers use a
transaction. What can go wrong in them is what happens *between* two awaits. The
analytical parts have no state; what can go wrong there are edges, ties and orders
of application, which are checked over small integers.

Contents: [inventory](#inventory), [how code becomes actions](#how-code-becomes-actions),
[the API](#the-api), [the sidecar](#the-sidecar), [runs and bounds](#runs-and-bounds),
[proofs](#proofs), [findings](#findings), [not modelled](#not-modelled).

## Inventory

| Component | State | Operations | What is hard | What makes it correct | Module |
|---|---|---|---|---|---|
| Authentication, sessions (`modules/auth`, `modules/sessions`, `http/middleware/auth.ts`) | `sessions`, `refresh_tokens`, `mfa_factors`, `mfa_recovery_codes`; `revoked:session:*` in Redis; signed tokens in clients' hands | login, MFA challenge / recover / enroll / verify, refresh, logout, three revocations, the check on every request | every handler is 3 to 8 statements outside a transaction; tokens outlive rows; Redis entries expire | a revoked grant buys nothing; revocation takes hold; the second factor stands before every token; tokens and codes are used once | `AuthSessions` |
| Users, invitations (`modules/users`) | `users`, `invitations` | invite, register, resend, change status | test and update are separate statements; an invitation is two inserts | an address is invited once, redeemed once | `UserInvitations` |
| Firms, tenant check (`modules/firms`, `middleware/tenant.ts`) | `firms`; `tenant:slug`, `firm:id` in Redis | create, read, update, suspend, activate | cache fills race with invalidations | a suspension takes hold within the TTL | `FirmRequests` |
| Roles, permissions (`modules/roles`, `middleware/role-resolver.ts`) | `user_role_assignments`; `perms:user` in Redis | assign, resolve | the same, and two assignments interleave | a withdrawn permission ends within the TTL | `FirmRequests` |
| Service accounts (`modules/service-accounts`) | key hash, previous hash, grace period | create, rotate, revoke, authenticate | calls read the row, then update by id | a replaced or revoked key dies in time | `ServiceAccounts` |
| Impersonation (`modules/impersonation`) | `impersonation_sessions`; tokens | start, repeated start, end | check then insert; tokens outlive the session | one session per idempotency key; no token for a session that is over | `Impersonation` |
| Households (`modules/households`) | `households` | create, update, transitions | status and accounts are read before an unconditional update | closed is final; what was announced is so | `Households` |
| Rate limiting (`middleware/rate-limit.ts`) | a sorted set per key | check | two keys per request, other requests in between; expiry; failures | at most the limit per window, and no refusal without a full one | `RateLimiter` |
| Audit, events (`modules/audit`, `shared/events.ts`) | append-only | emit, list | errors are swallowed | - | - |
| Platform client (`services/platform_client.py`, `circuit_breaker.py`, `request_cache.py`) | breaker state, counter, time of the last failure; a cache per request | reads, sweeps | replies arrive in any order, long after the check; what a key tells apart | opens on failures in a row, closes again; the key of a cached read names all that is sent | `CircuitBreaker`, `PlatformReads` |
| Jobs (`jobs/worker.py`, `retry.py`, `errors.py`, `enqueue.py`) | arq queue, dead letters | run, retry, dead-letter | double wrapping, timeouts, crashes, unknown names | every job ends once, after at most `max_tries` runs | `JobPolicy`, `JobWorker`, `JobOutcome` |
| The jobs themselves (`jobs/*.py`) | results and cursors in Redis, chunks, mailboxes | eight jobs and three sweeps | several writes per run, retried, overlapped by others | an update repairs the index, errors that the store's wrapper swallows aside; the model is asked about every email; a summary finds its text | `JobHandlers` |
| RAG index (`rag/`, `jobs/indexing_jobs.py`, `gc_jobs.py`) | `rag_chunks` | index, delete, collect, embed, retrieve, rerank, cite | READ COMMITTED deletes; batches; truncation after ranking | a source is one text; each text has its vector; the best chunk is cited | `RagChunks`, `RagQuery` |
| Conversations (`conversation_memory.py`, `compaction.py`, `message_codec.py`) | history per conversation in Redis | load, save, compact, trim | repeated compaction of its own output; lost updates | the prompt and the newest messages stay, and the account numbers as long as the code can keep them | `Compaction`, `ChatTurn` |
| Tools (`tool_orchestrator.py`, `hooks.py`) | running tool calls | partition, execute, abort | bounded concurrency, errors, callbacks that raise | a writer runs alone | `ToolCalls` |
| Agent runner, costs (`agents/runner.py`, `fallback.py`, `middleware/cost_tracking.py`) | attempts; accumulator per request; counters in Redis | run, stream, retry, fall back, record, flush | flush before a stream ends; half-done flushes | nobody is billed for more than was used | `AgentRun` |
| Portfolio construction (`portfolio_construction/`) | jobs' results, drafts | recall, relax, score, select, weigh, review, revise | answers of models enter at every stage; revisions of revisions | a chain of revisions keeps the tickers it was told to exclude and to include; weights sum to one and keep their order | `Portfolio`, `Weights` |
| Analytics (`analytics/`) | none | tax scenarios, harvesting, factors, RMD, ranking, drift, concentration, cash | brackets, ties, deadlines, orders of application | no cliffs; monotonicity and dominance | `TaxScenario`, `HarvestScores`, `FactorModel`, `Alerts`, `Exposure` |
| Transcription (`jobs/transcription.py`) | - | cut, transcribe, join | overlaps at the cuts; answers without utterances | an utterance is there whole and once where the service told utterances | `Transcript` |

`PROJECT.json` lists the components with their files, and every hazard with its
line and the properties that cover it.

How they interact: the API's middleware chain is `tenant` -> `auth` ->
`role-resolver` -> `rate-limit` -> route (`app.ts`); `auth` reads the Redis keys
that the session handlers write; `users.status` is read by login, refresh,
challenge and recovery. The sidecar calls the API through `PlatformClient` (one
per process, shared by all coroutines); its routes enqueue jobs through arq, whose
worker runs them in other processes, and the two meet in Redis and Postgres.

## How code becomes actions

A handler runs in a slot: `req[q].at`, `pc[j]` or `call[c].op` names the statement
it executes next, the other fields are its local variables. One step is one SQL
statement, Redis command or model call together with the computation up to the
next await; between two steps of one handler any other may run. A `Fail` step ends
a handler at any statement: the process dies, or Postgres or Redis answers with an
error. Rows that do not exist yet are the records `NoSession`, `NoToken`, ...
Operators named `X_Something`, placed before `X`, are variants of `X` with a
plausible mistake; `PROJECT.json` says which property each one breaks.

Where two awaits are taken as one step, nothing can tell them apart: the
middleware's check of a token together with the first statement of the handler
behind it (so a request counts as made when the middleware accepts it), and an
insert together with the answer that carries the inserted value.

Composition: `JobHandlers` extends `JobWorker` (a job's statements run inside the
queue's runs, retries and crashes), `JobWorker` implements `JobOutcome`,
`ChatTurn` extends `Compaction`, and `FirmRequests` puts the tenant check, the role
resolver and the handlers into one pipeline. Components that share no state with
each other stand side by side in one module, so that one specification and one run
speak about all of them: `Records` puts four small components of the API beside
`UserInvitations`, `Sidecar` puts those of the sidecar that keep state beside
`RagChunks`, and `Calculators` those that only calculate. A step of `SidecarNext` or
`CalcNext` is a step of one of them. What is calculated in one go - the answer to a
question, a transcript - has no steps: `given` is what was asked, and the properties
speak of the answer. For TLC a variable `part` says which component a behaviour is
about, while the others stand still (in `Records` itself, in `MCSidecar`, and in
`MCCalculators`, which has the circuit breaker too). That is the sum of their state
spaces and not the product, and it hides no interaction, for there is none.

# The API

## AuthSessions

`AuthSessions.tla` is `modules/auth`, `modules/sessions` and
`http/middleware/auth.ts`.

State: `user`, `session`, `token`, `factor`, `code` are the tables; `listed[s]`
is the expiry of the Redis key `revoked:session:s`; `access` is the set of access
tokens ever signed, with the session, the time of signing and the `mfa` claim;
`partial` the sessions that a login answered with a challenge; `now` the clock.
`Tables` is all of that, `req` the handlers. History kept for the properties:
when a session was revoked and whether a token was signed for it afterwards,
which password, code or recovery code stands behind a session.

Each handler is a chain of actions, one per statement: login (`LoginStart`,
`LoginCreateSession`, `LoginFindFactor`, `IssueSign`, `IssueCreateRefresh`), refresh
(`RefreshStart` .. `RefreshSign`), reuse detection (`ReuseStart`,
`TheftRevokeTokens`, `TheftRevokeSession`, `TheftList`), challenge and recovery
(`Challenge*`, `Recover*`, then `Issue*`), enrolment and verification (`Enroll*`,
`Verify*`), logout, and the revocations, which share a fan-out of Redis writes and
purges (`FanoutList`, `FanoutPurge`; `Promise.all` runs them in any order).

| Run | Instance | Shows |
|---|---|---|
| `AuthRevocation` | 2 handlers that may die at any statement, one user with a second factor and one without, clock to 1 | `IInv`; `NoTokenFromRevokedGrant`: no token is given out for a refresh token or session that was revoked when the request came in; `RevokedTokensRefused`: once the Redis entry is written, tokens signed before it are refused for good; `ExposureBounded`: without the entry they die `AccessTTL` after the revocation; `SecondFactorBehindTokens`: the password alone gives an enrolled user no token (enrolment is not among the operations here, see below) |
| `AuthSerial` | 1 handler, every operation | one request at a time: refresh tokens and recovery codes are spent once (`SpentOnce`), an enrolled factor is one that its owner proved, with one set of codes (`EnrolmentWhole`), a revoked session has no live refresh token, and revocation is immediate |
| `AuthTheft` | 2 fair handlers | the reuse of a revoked token ends with the session revoked and listed (`ReuseLocksSession`) |
| `AuthRefreshRace` | 2 handlers | counterexample: two refreshes of one token both get a successor |

The properties of `AuthSerial` are stated for one request at a time because the
code does not keep them when requests race: a test and an update in two statements.
Two recoveries spend one recovery code; a login or refresh whose session is revoked
between its statements signs a token after the revocation entry was written, and
inserts a refresh token after the purge; an `enroll` between the two statements of
`mfaVerify` verifies a secret nobody proved; two enrolments leave two sets of
recovery codes. Without any race, a re-enrolment (`enroll` replaces the verified
factor by an unverified one) opens a window in which the password alone gives a
token.

Bounds: one or two users, one or two sessions, two to four tokens, two concurrent
handlers. Each property relates at most two handlers (one that gives out, one
that takes away), and `IInv` is proved for any number of them. `MaxTime` is 1:
every lifetime is 1, so both "still valid" and "expired" happen.

## UserInvitations

`modules/users/service.ts` for one e-mail address: addresses do not interact.
`user` is its row, `invitation` the rows of `invitations`, `issued` the tokens ever
generated. The unique index on `users (firm_id, email)` and the partial index on
pending invitations are part of the inserts. `mode` says from the start whether
handlers interleave and die (racing), or run one at a time and none fails (serial).

With 2 handlers, 2 invitations and 3 tokens: in both modes an address is never
invited twice (`OneInvitation`, by an inductive invariant that is proved: only the
handler that inserted the user row stands before the insert of the invitation).
One at a time, a pending invitation belongs to an address that has not registered
(`PendingMeansUnregistered`), an accepted one stays accepted and no registration
re-enables a disabled account (`JoinsOnce`); both are proved for any number of
invitations and tokens, of the serial mode only. When handlers race or die both fail:
two registrations redeem one token, a registration that dies between its two
statements leaves the invitation pending, and a resend that read the invitation
before its acceptance makes it pending again. No property covers these.

An invitation's role is stored and never assigned by `register`; roles are not in
the model.

## FirmRequests

The pipeline of a user's request (`middleware/tenant.ts`, `role-resolver.ts`,
`permission.ts`) and the handlers of `modules/firms` and `modules/roles` behind it,
for one firm. Authentication stands between the tenant check and the roles; it is
`AuthSessions`' and left out here.

`firm` is the firm's row, `rows[u]` the active role assignments of a user, each
with the identity of the request that inserted it. Three caches have one shape -
GET; on a miss SELECT and SET with an expiry; DEL by the writer - so the keys
`tenant:<slug>`, `firm:<id>` and `perms:<user>` are one function `cache`, and
`Truth[k]` is what a SELECT for key `k` returns. `Hit`, `Miss`, `Select`, `Fill`
are the statements of all three; `Use` is what the code behind the lookup does with
the value. `since[k]` is history: how long ago `Truth[k]` last changed.

`mode` is chosen at the start: requests are served one by one and none fails
(serial), any may die half way (crashing), or they interleave and die (racing).
It also says what users ask for, which keeps the instance small: in crashing and
racing behaviours the firm and the roles are written by turns. They share no
row and no key.

The run `Firms` (2 handlers, 1 user, 2 names, 2 assignments alive, expiries 2, 1,
2): serial, no key is stale when the next request comes (`InvalidationWorks`); not
racing, a suspension (`SuspensionTakesHold`) and a lost permission
(`LostPermissionLosesPower`) take hold within the expiry of the key even if the
writer died before its DEL; always, once the rows stop changing all live keys agree
with them for good (`CachesConverge`). An expiry of 2 is the least for which a hit
happens between the filling and the expiry of a stale key; a cache that renewed
entries on a hit would break three of the properties. Fairness: time passes, and a
handler executes its next statement unless it dies.

When requests race, two promises fail as stated: two assignments for one user
under READ COMMITTED leave both sets of roles, because the second UPDATE does not
see the rows that the first inserts; and a lookup that selected before a write and
fills after the writer's DEL makes a stale entry that lives a whole expiry from
the filling, not from the write. `CachesConverge` is what is left of the second:
the entry is not renewed.

## ServiceAccounts, Impersonation, Households, RateLimiter

Four small modules, which `Records` instantiates and the run `Records` checks; in
each, two callers (three requests for the limiter) interleave, statement by
statement, and may die.

- `ServiceAccounts` is one account and its keys, numbered as they are generated.
  A rotation reads the row, generates a key and says until when the old one works,
  then updates by id. `KeysDie`: however rotations and revocations race, a key that
  was replaced is dead when its grace period is over, and no key lives once a
  revocation was answered - also when a rotation read the row before it. With 4 keys
  a third key replaces one within the grace period of the first. The code gives no
  lower bound: a second rotation within the grace period ends that of the first key
  early, against `epics/epic-01.md:349`, which promises 24 hours.
- `Impersonation` is the sessions of one idempotency key, starts that are repeated
  and race, and the tokens that are signed. `TokensHonest`: one session for the key;
  no token for a request that came after the session had ended or expired; and the
  first one never for a target with a role that may not be borrowed. The
  roles are read by the check and stand in the token that is signed two statements
  later; they may change in between. What the last clause does not say is the code's:
  a repeated start signs for the row it finds with the roles of that moment, and does
  not check them again.
- `Households` is the status of one household. `HouseholdSettled`: closed while
  nobody was calling, it stays closed; and when calls are over, the last
  announcement is the status, unless two transitions crossed or one failed. No
  migration creates the table of accounts that `countBlockingAccounts` reads, so its
  answer is left open.
- `RateLimiter` is the sorted set of each key and the requests that are checked
  against their keys one after the other. `LimitExact`: no window of any key lets
  more requests through than its limit while Redis answers, and a request is refused
  only when its window is full. Assumed: processes' clocks agree, and a pipeline is
  executed in the second it was sent in. Limits of 2 and 1, a window of 2 and 3
  seconds let a request leave the window, and let one be refused by the second of
  its keys after it was counted by the first.

# The sidecar

## CircuitBreaker and PlatformReads

`CircuitBreaker.tla` is `services/circuit_breaker.py` with the calls that
`PlatformClient` makes of it: `Check` before a read's await, `RecordSuccess` or
`RecordFailure` after it. The platform goes up and down at will, coroutines are
cancelled, and the cron sweeps' two reads, which do not ask the breaker, are
there too. The time since the last failure is a countdown; the counter stops at
the threshold, the only value it is compared with.

The part `breaker` of the run `Calculators` (3 coroutines, threshold 3, recovery time
2): the circuit is closed exactly when fewer than `FailureThreshold` replies in a row
have failed (`OpenIffStreak`), and if the platform stays up and gives no 4xx, the
circuit closes for good (`Recovers`). Three coroutines let one reply come late while another stands before
its check and a third before its send. Fairness: time passes (`Tick`), each
coroutine reads again and again and a read made again and again is not cancelled
every time (strong fairness), and a sweep ends (httpx has a timeout). While another
part is checked nobody asks the breaker, and its fairness asks nothing.

`PlatformReads.tla` is the typed reads of `services/platform_client.py` through the
cache of a request (`request_cache.py`), which evicts the oldest entry at its limit
even when the key is there already. Each of the 25 methods has a row with the
arguments it names in the key, those in the path and those in the query, taken from
three different places of its body; `Key` is `_cache_key` with the fingerprint of the
scope, `Sent` is what `_get` gives to httpx: the path, the parameters (a filter named
`q` replaces the text that is searched for, an empty list of accounts is left out as
no list is) and the four headers of `_scope_headers`. `OwnAnswers`: however coroutines
overlap, fail and evict, a read is answered with what the platform says to its own
path, parameters and headers. The mutant leaves out of the key what only the query
has. The instance has two coroutines, a cache of one entry, every pair of methods with
the same arguments, and every pair of reads of one method that differ in one argument
or in one field of the scope. The app builds its client without a cache so far
(`dependencies.py:67`; `get_request_cache` has no caller), only its tests pass one: the
property is about the keys, which are computed either way.

## JobPolicy, JobOutcome, JobWorker

`JobOutcome` is what a queue promises to whoever enqueues a job: it ends once, as
done or failed, after at most `MaxTries` runs; only a job that was started is done
or has a dead letter; and (`FairSpec`) it does end.

`JobWorker` is arq's loop as `jobs/worker.py` configures it - it counts a run before
it calls the function, refuses unknown names and spent tries, cancels at
`job_timeout`, and runs again what a dying worker left - around the retry wrapper of
`jobs/retry.py`, which is applied twice to most jobs (`Wraps`): once where the job is
defined and once where it is registered. `JobPolicy` is the classification of
exceptions (`jobs/errors.py`) and the names under which jobs are registered,
enqueued and swept.

`JobRetries` (2 jobs, a worker with one slot, 3 tries, every class of exception):
`KeepsPromise` is the refinement, `Outcome!FairSpec`, with `Outcome == INSTANCE
JobOutcome WITH` the outcome of a job read off its state; `LetterIsFinal`: a job in
the dead-letter set is not run again unless a worker died after the letter. One
slot makes jobs wait for each other, so that the strong fairness of `Start` is
needed; fairness is arq's: it polls, a call returns, raises or is timed out.

## JobHandlers

Every registered job of `jobs/*.py` and the three sweeps, statement by statement,
inside the runs of `JobWorker`: what a run has read dies with it (`Forget`), what it
has written stays. Platform and Redis move under it: mail arrives, the document
changes, keys expire. A model answers what it likes: a triage may leave out any of the
emails it was asked about, and what it answered is stored unchecked while the cursor
moves to the last email (`TriageStore`). The vector store is reached through
`delete` and `upsert`, whose exceptions fail the run, or, where it has no such method,
through `delete_by_metadata` and `add_documents`, whose exceptions `rag_index.py` logs
and swallows: a delete that failed counts as
one that found nothing, and a chunk that failed is left out (`IndexClear`,
`IndexUpsert`; `skipped` is history: what this run swallowed). `Jobs` (2 jobs of one
family, 2 tries, 2 slots, 2 emails, a document with versions of two, one and no
chunks):

- `UpdateRepairs`: an update that no other run of the family overlaps ends with the
  chunks of the version that it fetched, and no older ones, whatever half-done runs
  left before - but for what it swallowed itself, and only there: a chunk left out is
  missing, and a delete that was not done leaves old chunks where no new one came.
  Such a run ends "indexed" all the same, and it is the next update that repairs. An
  update of a document without text leaves the old chunks: the property excludes it.
- `NoEmailSkipped`: of the emails up to the cursor, a triage run that none overlaps has
  a result or has asked the model in vain. It holds because the cursor is read and not
  used: each run asks about everything again. An email that the model leaves out
  every time is never triaged, and nothing tells.
- `SummaryFindsTranscript`: a chained summary finds its transcript unless the
  transcript's 48 hours are over.

Two jobs of one family are enough for every pair of overlapping runs; jobs of
different families share no key.

## The parts of `MCSidecar` and `MCCalculators`

Two runs check the components below side by side: `Sidecar` those that keep state
(`chunks`, `chat`, `tools`, `runs`, `portfolio`, `reads`; module `Sidecar`),
`Calculators` those that only calculate (module `Calculators`) and the breaker, whose
liveness needs a run without symmetry. `Ranking` is the sorting that retrieval and portfolio construction share: two with the same key come
in any order, because the order of a platform's list, of a Python set or of a
table's rows is chosen by nobody; so a calculation that sorts has a set of answers.

| Part | Module | Code | Property | Instance |
|---|---|---|---|---|
| `chunks` | `RagChunks` | `rag/indexing.py`, `jobs/indexing_jobs.py`, `jobs/gc_jobs.py` over `rag_chunks` at READ COMMITTED: a DELETE finds the rows that were committed when it started, waits for those that another transaction has deleted, never finds its new ones | `OneText`: a source has all the chunks of one text by one job, or none | 3 jobs; texts of 2, 1, 0 chunks |
| `text`, `vectors` | `RagQuery` | `rag/chunking.py`, `rag/embeddings.py` | `PiecesFaithful`: a passage up to the overlap and a token is whole in some chunk; in whatever order a batch is answered, each text gets its own vector | texts to 9 tokens; three batches in every order |
| `speech` | `Transcript` | `jobs/transcription.py`: cutting and joining | `PiecesFaithful`: an utterance no longer than the overlap is there whole and once, if the chunks that it reaches into were answered in utterances | 3 utterances in 8 units, cuts of 4 with overlap 2, some chunks answered with a text alone |
| `question` | `RagQuery` | `rag/retrieval.py`, `reranking.py`, `context.py`, `citations.py` | `CitationIsBest`: of the chunks of a source that the answer was given, the best is cited | every pair of chunks over two sources, three owners, two similarities and ages |
| `chat` | `Compaction`, `ChatTurn` | `services/compaction.py`, `message_codec.py`, `conversation_memory.py`, `routers/chat.py`, `routers/portfolio.py` | `ConversationKept`: through compaction and cap the system prompt stays in front, the newest messages stay as written but for tool results beyond the limit; the account numbers stay until messages are dropped or summed up in nothing, and so do the other identifiers that are found without context, until a summary has no room | 3 requests that may overlap, 7 kinds of turns, an account, an amount and a percentage said by anyone, a cap of 5 messages, room for 2 identifiers |
| `tools` | `ToolCalls` | `services/tool_orchestrator.py`, `hooks.py` | `WritersAlone`: a call that may change something runs alone | 3 reads and 2 writers, 2 at a time, callbacks that raise |
| `runs` | `AgentRun` | `agents/runner.py`, `fallback.py`, `middleware/cost_tracking.py`, `observability/cost_tracking.py` | `NeverOverbilled`: no failure or overlap bills a tenant for more than was used | 2 runs, a retry and a fallback |
| `portfolio` | `Portfolio` | `portfolio_construction/` (orchestrator, recall, scorer, selection, review), `jobs/portfolio_construction.py`, `routers/portfolio.py` | `WishesHonoured`: no draft of a chain of revisions holds a ticker that a request of it excluded or lacks one that it included | 2 listed securities and one that is not, 6 orders, 3 jobs, results that expire |
| `weights` | `Weights` | `portfolio_construction/optimizer.py`: weighting and clamping | `ClampSound`: the weights sum to one; a clamp that had passes left ends a lighter position above a heavier one only where the lighter one has the most and some raw weight was below the minimum | 2 and 3 positions, five scores or three volatilities; six positions in 24 orders; four caps |
| `tax` | `TaxScenario` | `analytics/tax_scenario_engine.py` | `NoCliff`: no action moves the tax by more than the dearest dollar for each dollar, or the wrong way | incomes on both sides of every limit, 2 actions |
| `harvest` | `HarvestScores` | `analytics/tax_loss_harvesting.py` | `RankingSound`: what a purchase blocks ranks below what can be harvested | losses and days on both sides of the limits |
| `factors` | `FactorModel` | `analytics/portfolio_factor_model_v2.py`: one factor | `RankingSound`: a security that is worse in nothing does not score less | 4 securities, one in a small industry, 2 sub-factors, one of them inverted |
| `alerts` | `Alerts` | `analytics/rmd_calculator.py`, `firm_ranker.py` | `SeverityFollows`: what is left undone does not move down the firm's list | every day of two years and a quarter |
| `exposure` | `Exposure` | `analytics/drift_detection.py`, `concentration_risk.py`, `cash_drag.py` | `SeverityFollows`: a trade for the better raises no severity | 3 positions and cash in lots of 5 % |
| `reads` | `PlatformReads` | see above | `OwnAnswers` | see above; 2 coroutines, a cache of 1 |

Notes on faithfulness, part by part:

- `chunks`: garbage collection decides from a list it read earlier, and deletes by
  identifiers; an index job may commit in between. Why `OneText` survives: the
  DELETE of an index job finds all rows of the source or, if another job committed
  after it started, none of those that are there now - and then the UNIQUE
  constraint on the chunk's index refuses its first INSERT. The mutant drops the
  constraint.
- `chat`: a message is the kinds of its parts, the turns it comes from, its size in
  tokens, the client its tool arguments or structured result name and the financial
  identifiers in its text, those beyond the limit of a tool result apart. A turn of the
  agent (`Turn`, the choice of `Turns`) mentions identifiers in the user's message, the
  arguments of a call, its result or the answer. `Cut` is what the first stage of a
  compaction does to a long result: what is beyond the limit goes, and a result that
  was structured is text afterwards, in which no client is found. Identifiers are
  detected in what is left, an earlier summary included, whose own list is scanned
  like any text: an account number ("Account #...") and an amount are found again
  there, an amount with the comma of the list, so that it may take several of the 20
  entries; percentages and tickers that are not known by name are only found near
  certain words, so some are found again or none (`Matches`; `Context`). What the
  lines of a summary quote is not relied on. A list that is full drops what it lists
  last, and account numbers come first (`Lists`). So account numbers are what a
  conversation keeps (`IdentifiersKept`); all other identifiers only until a summary
  had to leave one out, and those of `Context` not at all. The promises hold for turns
  that do not overlap; `save` writes what the request loaded, and of two overlapping
  turns one is lost (`conversation_memory.py:122`).
- `speech`: a service answers a chunk in utterances or with a text for the whole of it
  (whisper without segments, deepgram without utterances), which becomes one segment
  as long as the chunk, or of no length when the service gives no duration. Neighbours
  overlap by 30 seconds, so the join drops such a segment as a whole when it has less
  text than what it overlaps, or lets it replace the last one kept: what was said in
  it may be lost, and the property does not promise it. Assumed of the service: it
  finds the same bounds of an utterance in every chunk that has all of it. Of several
  channels or alternatives of a chunk, which begin and end together, the join keeps
  the longest, and the model has that one. `Dedup` is the join with its comparison of
  lengths.
- `question`, `text`, `vectors`: the parts of `rag/` as one chain, from the question to
  the citations, in the order their interfaces suggest; the repository has no caller
  that wires all of them together.
- `portfolio`: what a request or a model may name is `Named`, any set of orders in the
  theorem. Of an order the module has the tickers to exclude and to include, which
  is all that a revision merges: themes and preferences are those of the prior intent,
  and the target count, the excluded sectors and the bounds on weights fall back to
  their defaults (`orchestrator.py:296`), so a revision does forget those.
  `wish` is what the requests of the chain asked for, `fulfilled` the part of it that
  led to the stored result; a result expires after a day (`ResultExpires`), a job that
  fails leaves the earlier one, and a revision without its prior result starts anew.
- `weights`: the clamp is a loop over the positions in their order, run as such
  (`Weigh`, `LookHigh`, `LookLow`, `Again`, `Normalise`): what a position passes on goes
  to those still open, so the result depends on that order. Six positions are the
  fewest in which a position gives after a lighter one has been filled up: with scores
  91, 18, 17, 4, 0, 0 and a cap of 30 % the position of 18 ends at 29.3 %, that of 17
  at 30 %.
- `tax`: a filing status that the table of brackets does not list has the brackets of
  joint filers and the threshold of all others (`unlisted`).
- `portfolio`, `factors`, `tax`, `harvest`, `weights`: scores and rates are scaled
  integers, named at the head of each module; `Slack` in `Weights` is the rounding.
- `runs`: the counters of a day, of the models and of the agents are written by
  separate awaits in that order of inequality.

# Runs and bounds

| Run | Kind | Bounds, and why they are enough |
|---|---|---|
| `AuthRevocation`, `AuthSerial`, `AuthTheft` | pass | a property relates one handler that gives out to one that takes away, in at most two sessions |
| `Records` | pass | two callers, of which one reads before the other writes; every expiry and grace period can be over |
| `Firms` | pass | two handlers: a writer and a lookup; an expiry of 2 |
| `JobRetries` | pass | two jobs on one slot, every exception, every number of tries |
| `Jobs` | pass | two jobs of a family: every pair of overlapping runs; two chunks, so that one of them can be left out |
| `Sidecar`, `Calculators` | pass | the table of parts; for the breaker three coroutines: one late reply, one before its check, one before its send |
| `AuthRefreshRace`, `HistoryCut`, `ClampBounds` | violation | the smallest instance that shows it |

`CHECK_DEADLOCK FALSE` wherever it stands: the instances have finitely many rows,
jobs, turns or a last instant; after that clients have nothing left to do, which is
no deadlock of the code. `Firms` goes on for ever and is checked for deadlock.
Symmetry is used only where no liveness property is checked; the `PROPERTIES` of
`Records` and, but for `Recovers`, of `Calculators` are action properties.

Bounds are constants: `MaxTime`, `MaxHours`, `MaxMinutes`, `MaxSeconds` stop the
clocks one step after every lifetime can be over; `MaxSecret`, `MaxKeys`, `MaxMail`,
`MaxRequests` bound what is created; they stand in the guards of the
actions that create and are named so in each module.

Fairness is used in `AuthTheft` (a handler executes its next statement; Node runs a
handler to its end unless the process dies), `Calculators` (the breaker), `Firms` and
`JobRetries`, as stated above. No client is ever forced to make a request, except of
the breaker, where coroutines read again and again: a circuit nobody asks does not
close.

# Proofs

Every theorem is checked by `tlapm` to the last leaf. Constants are arbitrary;
assumptions are named in the modules or stand in the theorem.

| Module | Theorems | Argument |
|---|---|---|
| `AuthSessionsProofs` | `Invariance`, `TypeCorrect`, `RevokedGrantsBuyNothing`, `RevocationListSuffices`, `RevocationTakesHold`, `RevocationIsFinal`, `PasswordAloneBuysNothing`; `SerialRevocationIsImmediate`, `SerialRevocationIsComplete`, `SerialEnrolmentWhole`, `SerialSpentOnce` | below |
| `RecordsProofs` | `InvitedOnce`, `UnregisteredUntilRedeemed`, `RedeemedOnce`; `ReplacedKeysDie`, `ClosedStaysClosed`, `TokensOfOneSession`, `WindowsHold` | invitations: the right to insert one goes to the one handler that inserted the user row, and the insert uses it up; one at a time, a handler that is about to write still finds what it read (`SerialInv`); the others below |
| `FirmRequestsProofs` | `WritersInvalidate`, `SuspensionHolds`, `RoleChangesHold` | below |
| `JobProofs` | `WorkerInvariance`, `LettersAreFinal`, `ImplementsOutcome`; `UpdatesRepair`, `EmailsTriaged`, `TranscriptFirst` | the counters of wrapper, arq and dead-letter set agree with where a job is, and every step of the worker is a step of `JobOutcome` or a stutter; the jobs: below |
| `SidecarProofs` | `FoundTogether`, `SourceIsOneText`, `ReadsAnswered`, `WritersRunAlone`, `BilledAtMost`, `WishesKept`, `EndsKept`, `ConversationIsKept`; `OpensOnFailuresInARow` | below; of the breaker, the counter is the streak, cut off at the threshold |
| `PieceProofs` | `PiecesHold`, `CitationHolds`, `ClampHolds` | below |
| `CalculatorProofs` | `CalcInvariant`, `RankingHolds`, `SeverityHolds`, `NoCliffHolds` | below |
| `FoldProofs` | - | lemmas on folds, sums, counts, sorting and division that the others cite |

What each one needs of the constants: lifetimes, limits and bounds are naturals
(expiries of caches, a window, a grace period, a threshold and a number of tries are
positive), names of different kinds differ (`NoneAssumption`, `GrantAssumption`), the keys of a
request are a list without repetition (`rate-limit.ts` checks the user's and the
firm's once each), the calls of a batch are a list, requests, securities, tickers
and identifiers are finitely many, what is asked has the shape the code gives it
(`AskedAssumption`), amounts, rates and weights are integers, naturals where the code has
none below zero (`CalculatorsAssumption`, `WeightsAssumption`), and what a compaction leaves (`Recent`, 10 in the
code) is shorter than what is stored (`MaxMessages`, 50; `RecordsAssumption`,
`SidecarAssumption`, with `TurnsAssumption`, `NamedAssumption` and `AsksAssumption` for the
shape of what comes in).
Nothing is assumed about how many users, sessions, jobs or coroutines there are. The
theorems about `Records` and `Sidecar` are stated of `RecordsSpec` and `SidecarSpec`;
a behaviour of `MCSidecar`, leaving `part` aside, is one of `Sidecar`. Those about
`Calculators` are stated of `CalcSpec` in the same way.

`AuthSessions`. `NoTokenFromRevokedGrant` is not inductive: a handler halfway
through carries the right to insert a token. `IInv` therefore relates the local
variables of each handler to the rows it has read - what it knew when it came in can
only have got worse - and says that only one handler stands before the insert of
each row. The proof has one lemma for the steps that change no table (`req` alone
moves), one that time and revocations only go forward (`Advance`), and then one step
per action. `RevocationListSuffices` needs the assumption `RevTTL >= AccessTTL`
(named in the module): `SESSION_REVOCATION_TTL` is the constant 900 while
`JWT_ACCESS_TOKEN_TTL` is configurable, and with a longer token lifetime the
property is false.

`FirmRequests`. `IInv` says, for behaviours that do not race: one handler is active;
a value about to be SET is the truth; a stale key has at most the part of its expiry
left that remains since the write that made it stale (`StaleExpires`); and, if no
handler dies, a stale key is one that the active handler is about to DEL
(`StaleIsDeleted`). `StaleExpires` is inductive because every write that changes
`Truth[k]` resets `since[k]`, and time takes from one what it adds to the other. One
lemma covers the steps that write no row (`StepFrame`), one those that do
(`WriteFrame`); two more say that a request passes a check by a hit or a fill only,
and how old the value used is. The assumptions: expiries are positive, and names and
users differ from the other facts and keys.

`AuthSessions`, the second factor. `FactorInv` follows the grant from where it was
earned: what stands behind a session (a challenge or a recovery code) never goes
away, a handler that holds a grant holds one that was earned, and a refresh token
names the grant it came from. `PasswordAloneBuysNothing` has the hypothesis that
enrolment is not among the operations: with it the property is false, see above.

The `Serial...` theorems have `Serial` as a hypothesis (a request arrives only when no other
is in progress), because the code breaks these promises when requests race, which
`AuthRefreshRace` shows for one of them. Its invariants say what the one handler in
progress still has to do: the session behind a token about to be signed is active
(`ActiveInv`), what a revocation has not purged yet is in its list (`PurgeInv`; a
process that dies there leaves the rest, so this theorem also assumes no failures),
the codes of an enrolment under way are those of its owner (`EnrolInv`), and the
grant in its hands is unspent (`SpentInv`).

`Records`. `ServiceAccounts`: a rotation under way carries a key of its own and an
end for the key it will replace no later than the grace period from now.
`Households`: once the household is sealed no transition begins, and while none has
crossed another at most one is on its way. `Impersonation`: a handler that is about
to sign, or to read the roles, has a session that was running when it came in.
`RateLimiter`: the sorted set of a key lasts as long as what is in it counts and
holds all of the current window, so its size is what the window let through; the
bound is then one on cardinalities, window by window.

The jobs. A run that no other of its family overlaps has the family's keys to
itself (`alone`), so what one of its statements wrote is what the next one finds:
an update has cleared the old chunks, or has swallowed that it could not, and the index
holds those it has upserted so far and not left out (`Indexed`, `IndexInv`), the
results hold every email that was read or the model was asked about it and left it out
(`TriageInv`), a transcript is stored before the summary that reads it is enqueued.

`Sidecar`, component by component:

- rows: what a DELETE found is all of the rows or none of those that are there, and
  rows come from one finished job (`IInv` of `RagChunks`);
- reads: of each method, the arguments in its path and its query are among those in its
  key (`RowsComplete`, method by method); so two reads with one key send the same
  (`KeyTellsAll`), and an entry of the cache holds what the platform says to whatever
  read its key is for;
- tools: when a writer has begun, every reader of its batch is over, and so is every
  writer before it;
- costs: the counter of the day is at most what the runs have flushed to it, and that
  of the models lies between the least and the most they can have flushed. These are
  sums over the runs, folds over a set, and one lemma says what a change of one run
  does to such a sum;
- portfolio: what the chain of revisions asked for is covered by the parsed intent
  from the moment it is read (`Covers`), the pool and the draft respect the intent.
  The selection is a fold over the ranked securities, whose result is bounded from
  both sides by induction over its steps;
- conversations: every history begins with the prompt and, while no save has replaced
  another's, the stored messages end as the log of all that was said does, tool results
  cut (`EndsKept`), and mention the account numbers it mentioned. Cutting twice is
  cutting once, and neither takes an identifier within the limit (`MicroKeeps`); what
  is summed up is found and listed (`SummaryIs`, `AccountsListed`), so a compaction
  keeps it (`CompactKeeps`), the cap keeps it or is recorded (`TrimKeeps`), and a save
  is both (`StoredKeeps`). The claim on account numbers has as its premise that there
  are no more of them than a summary has entries (`MaxItems`, 20); that on other
  identifiers holds until a summary left one out (`lost`). `EndsKept` needs neither.

`Calculators`. The steps of each keep its own variables in their types
(`CalcInvariant`), and what is left is arithmetic and order, lemma by lemma:

- embeddings: a batch that is sorted by the index of each answer is the batch in its
  order, whatever the order of the answers, so the batches flattened are the texts;
- passages and recordings: the first window that does not end before the passage does
  is found by division, and the overlap is long enough for it to begin before the
  passage does; of an utterance that two cuts share, one copy is dropped and one
  stays, whatever text without utterances other chunks came back as (`FlattenAll`,
  `TranscribedIs`, `UtteranceIsWhole`);
- citations: the chunks of a source come in the order of their scores, so the first
  cited is the best. Sorting is by counting the places (`SortBy`), which is defined
  for any set of rows at once and can be reasoned about, where the library's
  `SortSeq` is a recursion over permutations;
- taxes: a bracket is a ramp, zero below its floor and constant above its ceiling, and
  a tax is a sum of ramps; each ramp is monotone and grows by at most its rate;
- harvest: a list sorted by score separates blocked from free, because each score's
  part for a wash sale is larger than all others together;
- factors: a percentile counts those below; who is worse in nothing has nobody below
  who is not below the other, sub-factor by sub-factor, and weighted sums keep it;
- deadlines and exposures: case by case over the limits; what is left undone only
  moves towards its deadline;
- the clamp of the weights (`ClampHolds`): at any point of the loop something has a
  weight, and what a pass without a change has looked at is within bounds (`Weighing`,
  `Quiet`). Where there is room for the minimum of each position, more is kept
  (`Kept`): a frozen position stays at its bound (`Frozen`); the open ones keep the
  order of the raw weights, except for those looked at later in the pass, or else none
  of them is above the minimum (`StillOrdered`, `AllLow`); as long as none has to be
  raised, the heavier reach the maximum first (`Spread`); and a pass that changes
  something freezes something (`Counted`), so that fewer positions than passes come to
  rest (`PassesEnd`). Each strategy's raw weights are natural and come to something
  (`RawIs`), and shares of the whole come to the whole, up to a unit each
  (`WholeShared`), which makes `FullyInvested`.

Induction over data: the library's induction theorems take an operator as an
argument, which the installed provers cannot instantiate. Where a fold over a finite
set is concerned `FoldProofs` does without: a set of naturals that is not empty
has a least member (`LeastOf`, from the library's `WFMin`), so the least size at
which a claim fails leads to a contradiction (`FoldExists`, `FoldInduction`,
`SizeInduction`; `FromZeroOn` for claims about numbers).

Four flaws of the models came to light in a proof and in no run, and are repaired:
two cases of the limiter's step overlapped; sorting by a key with ties was taken as a
function, though the code leaves their order open (`Ranking`); a summary of
messages without text listed their identifiers, which the code's early return leaves
out (`Summarize`; see the findings); and `ClampSound` promised that the clamp keeps
the order of the raw weights, which is false from six positions on, while the runs had
three (the instance has six now, and the property says when an order may turn).

Model-checked only: the liveness properties, which are out of the prover's reach:
`ReuseLocksSession`, `Recovers`, `CachesConverge`, and the fair half of `KeepsPromise`.

# Findings

Three runs end in a counterexample that contradicts a sentence of the repository;
`PROJECT.json` quotes it:

- `AuthRefreshRace`: two refreshes of one token both succeed (`epics/epic-01.md:136`).
- `HistoryCut`: the cap on the history cuts between a tool call and its result
  (`message_codec.py:115`).
- `ClampBounds`: the clamp returns weights outside of feasible bounds
  (`optimizer.py:199`).

The following are deviations that were met while modelling. Where a definition is
named, it is in the module and TLC finds it violated when it is put into a
configuration; the others hold by the shape of the code or were read.

Authentication and records:

- a refresh sets the `mfa` claim from the user's factor, not from what the session
  saw (`auth/service.ts:115` against `epics/epic-01.md:180`);
- `enforceMaxConcurrentSessions` (`sessions/service.ts:109`) is called by no login;
- disabling a user revokes neither sessions nor access tokens; `PATCH status=active`
  on an invited user makes an active user without a password
  (`users/service.ts:178`);
- an expired invitation, or a process that dies between its two inserts, strands the
  address (`InvitedCanJoin`; `users/service.ts:34` against `epics/epic-01.md:108`);
- a suspended firm cannot be activated by its own administrator
  (`middleware/tenant.ts:57` against `epics/epic-01.md:38`);
- two assignments of roles that race leave both sets; a lookup that races a write
  refills the cache with the old value;
- the rate limiter counts the requests that it refuses, so a client that keeps
  trying stays refused; a pipeline that is delayed in a process is counted with the
  second it was built in;
- a second rotation within the grace period ends the first key's early
  (`epics/epic-01.md:349`); `findByKeyHash` has no caller;
- a repeated start of an impersonation skips the check of the target's roles
  (`impersonation/service.ts:45`), its token may outlive `expires_at`
  (`epics/epic-01.md:389`), and ending one revokes no token;
- a deactivation or a reactivation that read the status before a close reopens the
  household (`epics/epic-02.md:35`), and transitions that cross are announced out of
  order.

Platform client and jobs:

- a half-open circuit lets every caller probe (`circuit_breaker.py:77` against `:35`);
  the sweeps' reads go out while it is open; a 4xx of a healthy platform counts as a
  failure;
- the app builds the client without a cache (`dependencies.py:67`); with one, an
  older overlapping reply may overwrite a newer one;
- arq's `max_tries` of 3 ends a job before the wrapper's retries are used up, and
  then no dead letter is written (`specs/sidecar/05-async-jobs.md:2794`);
- the digest is cached under a key that nobody reads (`DigestIsServed`;
  `routers/digest.py:88` against `daily_digest.py:287`), and the router enqueues a
  name that is not registered;
- the sweeps enqueue under names that are not registered (`FanOutRuns`);
- `job_completed` is announced before the result is stored, `job_failed` though the
  job is retried;
- the summary is stored under another key than its route reads
  (`meeting_summary.py:226`, `routers/meetings.py:190`);
- an index job swallows what goes wrong in the store's other API (`rag_index.py:211` and
  `:240`) and ends "indexed" with chunks missing or old ones left;
- a triage stores whatever the model answered, without comparing it with the batch
  (`email_triage.py:195`).

Conversations, tools and runs:

- siblings are never aborted by an error of a tool (`SiblingsAborted`;
  `tool_orchestrator.py:232` against `:11`);
- a part that the codec does not know raises, and the turn is lost; a save drops the
  active portfolio job (`PortfolioStays`); a failed load counts as an empty history;
- the second compaction does not read the text of the first one's summary: what it
  told, identifiers it lists aside, is gone; and where nothing but that summary (or a
  tool's call) is to be summed up, which a construct request does when it saves a long
  conversation as it found it, the new summary is "No prior conversation context."
  and the identifiers are gone too (`compaction.py:305` against
  `:146`, while `:657` logs them as preserved). `ConversationKept` claims them until
  then (`lost`). Percentages and unknown tickers go earlier, at the second compaction,
  for the list of a summary has none of the words that they are found by, and with
  them whatever stands beyond the limit of a tool result (`compaction.py:217`);
- a stream's response is there before its body, so its costs are flushed before they
  are recorded; an exception skips the flush; a run that is cancelled tells no hook
  (`EndIsHooked`).

Index, portfolio, analytics:

- indexing an empty text leaves the old chunks; a garbage collection may delete rows
  that were indexed again since it looked, and its refresh enqueues an empty text;
- a revision forgets the target count, the sectors and the bounds on weights that were
  asked for before; the critic's `add_tickers` are dropped and all rounds recompute one selection; the
  fallback of `auto_relax` proposes what the gates refused;
- an utterance that is longer than the overlap and crosses a cut loses its shorter
  part; a chunk that comes back as one text may be thrown away as a whole, or displace
  utterances of its neighbours (`transcription.py:399`);
- the first required distribution is never flagged; thresholds that a caller sets are
  ignored by the overall severity of the drift; a concentration score may rise when a
  position falls; each harvest of a scenario takes its own $3,000, each gift its own
  60 %, and gains are always stacked on the brackets of joint filers;
- factors with fewer than three sub-factors (size, low volatility) never count; with
  two peers all ranks are 50;
- where raw weights lie below the minimum, the clamp may end a lighter position above
  a heavier one, depending on the order of the positions.

Library calls that the code makes and their libraries refuse, modelled as the code
means them: `DELETE ... RETURNING count(*)` is not PostgreSQL; `_job_timeout` is no
parameter of arq's `enqueue_job`; `redis.enqueue_job` on a plain client; a context
without `db_pool`, `indexing_pipeline` and `vector_store`; three reads that the
platform client does not have.

# Not modelled

- Audit log and domain events: append-only writes that no decision reads, and whose
  errors are swallowed; a model would say only that. HTTP and database plumbing,
  adapters, request schemas, logging, metrics: wiring and I/O.
- Agents and prompts: texts. What a model answers is a nondeterministic choice
  wherever it enters.
- `AuthSessions`: the `roles` claim, the status of the firm, clock skew,
  `last_active_at`, and the arithmetic of bcrypt and TOTP (a right answer is an
  input). `FirmRequests`: creating a firm, its branding, roles other than two that
  differ in the permissions of these routes, and service accounts' tokens, which skip
  the role resolver.
- Sidecar: `RetryPolicy` and the context cache, which nothing in the app calls; the
  table of prices; the reader of the portfolio's event stream; `DocumentChunker`.
- Analytics: the beneficiary audit and the style profile (lists of independent
  rules), the registry of models (called by nobody), `weight_min_variance`, leap
  years. Floating-point rounding is abstracted to scaled integers.

# What would come next

In order: the lifecycle of a household as an abstract specification that the serial
system implements; the lost update of a conversation as a composition of `ChatTurn`
with a version check, should the code get one.
