------------------------------- MODULE Portfolio -------------------------------
(***************************************************************************)
(* The portfolio construction job (portfolio_construction/): its stages,   *)
(* the review loop, and a later job that revises its result.  The recall   *)
(* pool, the composite scores and the selection are operators over the     *)
(* securities the platform lists and whatever tickers the model names.     *)
(* Scores are in units of five points, confidence in tenths; weights and   *)
(* texts are left out.                                                     *)
(***************************************************************************)
EXTENDS Ranking

CONSTANTS
    Market,      \* listed ticker -> [factor, reliability, match, sector]; match -1: an anti-goal
    Unlisted,    \* other tickers that a user or a model may name
    Answers,     \* what the theme scorer may say: [score, confidence, hit]
    TopFactor, TopMatch, Cap,      \* RECALL_POOL_PARAMS
    Target, SectorCap,             \* target_count, and max_sector of it
    TopGated,                      \* gated tickers that auto_relax falls back on
    Named,                        \* what tickers a request, or a model that reads it, may name
    MaxJobs                        \* bound: jobs, each may revise the one before

VARIABLES
    stage,       \* of the job
    jobs,        \* jobs started
    asked,       \* the request's tickers to exclude and to include
    wish,        \* history: what the requests of this chain of revisions asked for
    fulfilled,   \* history: what those asked for that led to the last result
    intent,      \* the parsed intent's tickers
    pool,        \* tickers to score
    themes,      \* the model's answers
    held,        \* the draft's holdings
    relaxed,     \* the draft needed auto_relax
    round,       \* of the review loop
    result       \* intent stored with the last result, NoResult when it is gone

vars == <<stage, jobs, asked, wish, fulfilled, intent, pool, themes, held, relaxed, round, result>>

Listed == DOMAIN Market
Name == Listed \cup Unlisted
Tickers == [excluded : SUBSET Name, included : SUBSET Name]
None == [excluded |-> {}, included |-> {}]
NoResult == [excluded |-> {"gone"}, included |-> {"gone"}]
Unscored == [score |-> 10, confidence |-> 3, hit |-> FALSE]
Sum(a, b) == [excluded |-> a.excluded \cup b.excluded, included |-> a.included \cup b.included]

TypeOK ==
    /\ stage \in {"idle", "prior", "intent", "pool", "themes", "draft", "critic", "complete"}
    /\ jobs \in 0..MaxJobs /\ round \in 0..3
    /\ {asked, wish, fulfilled, intent} \subseteq Tickers /\ result \in Tickers \cup {NoResult}
    /\ pool \subseteq Name /\ held \subseteq Name /\ relaxed \in BOOLEAN
    /\ DOMAIN themes \subseteq Name /\ Range(themes) \subseteq Answers \cup {Unscored}

------------------------------------------------------------------------------
(* The recall pool (recall_pool.py) *)

Factor(t) == IF t \in Listed THEN Market[t].factor ELSE 0
Firsts(S, n, better(_, _)) == {Range(Upto(s, n)) : s \in Rankings(S, better)}
ByFactor(a, b) == Factor(a) > Factor(b)
ByMatch(a, b) ==
    \/ Market[a].match > Market[b].match
    \/ Market[a].match = Market[b].match /\ Factor(a) > Factor(b)

Wanted(i) == i.included \ i.excluded
WantedFirst(i, a, b) ==
    IF (a \in Wanted(i)) = (b \in Wanted(i)) THEN ByFactor(a, b) ELSE a \in Wanted(i)

ByFactors == Firsts(Listed, TopFactor, ByFactor)
ByMatches(i) == Firsts({t \in Listed \ i.excluded : Market[t].match > 0}, TopMatch, ByMatch)
Pools(i) ==
    {({t \in top : Market[t].match >= 0} \ i.excluded) \cup matching \cup Wanted(i) :
        top \in ByFactors, matching \in ByMatches(i)}
Capped(i, all) ==
    IF Cardinality(all) > Cap
    THEN Firsts(all, Cap, LAMBDA a, b : WantedFirst(i, a, b))
    ELSE {all}
BuildRecallPool(i) == UNION {Capped(i, all) : all \in Pools(i)}

------------------------------------------------------------------------------
(* The composite score (composite_scorer.py) *)

FactorFloor == 5
ThemeFloor == 6

Gated(t, i, scored) ==
    \/ t \notin DOMAIN scored
    \/ t \in i.excluded
    \/ scored[t].hit
    \/ Factor(t) < FactorFloor
    \/ scored[t].score < ThemeFloor

\* A score one is not sure of moves towards 50.
Shrunk(score, sure) == IF sure < 5 THEN 10 + (sure * (score - 10)) \div 5 ELSE score
\* the weighted geometric mean, with a theme weight of 0.6
Mean(f, t) == CHOOSE x \in 0..20 : x^5 <= f^2 * t^3 /\ f^2 * t^3 < (x + 1)^5
Composite(t, i, scored) ==
    LET f == Shrunk(Factor(t), IF t \in Listed THEN Market[t].reliability ELSE 10)
        s == Shrunk(scored[t].score, scored[t].confidence)
        bonus == IF f >= 14 /\ s >= 14 THEN 1 ELSE 0
        penalty == IF f - s >= 7 \/ s - f >= 7 THEN 1 ELSE 0
        x == Mean(f, s) + bonus - penalty
    IN IF Gated(t, i, scored) \/ x < 0 THEN 0 ELSE IF x > 20 THEN 20 ELSE x

------------------------------------------------------------------------------
(* The selection (optimizer.py) *)

Sector(t) == IF t \in Listed THEN Market[t].sector ELSE "Unknown"
Eligible(i, scored) == {t \in Listed \cup DOMAIN scored : ~Gated(t, i, scored)} \ i.excluded

Better(i, scored, a, b) == Composite(a, i, scored) > Composite(b, i, scored)
\* one more, unless there are enough, or enough of its sector
Fill(selected, t) ==
    IF \/ Cardinality(selected) >= Target
       \/ Cardinality({u \in selected : Sector(u) = Sector(t)}) >= SectorCap
    THEN selected ELSE selected \cup {t}

\* select_candidates: what is included passes every gate; the others fill up in
\* order of their scores.
SelectCandidates(i, scored) ==
    {FoldLeft(Fill, Wanted(i), s) :
        s \in Rankings(Eligible(i, scored), LAMBDA a, b : Better(i, scored, a, b))}
\* auto_relax: the first of those that passed, else the first of all: their scores
\* are zero and their order is that of a Python set.
AutoRelax(i, scored) ==
    LET all == Listed \cup DOMAIN scored IN
    IF Eligible(i, scored) # {}
    THEN Firsts(Eligible(i, scored), 20, LAMBDA a, b : Better(i, scored, a, b))
    ELSE {S \ i.excluded : S \in {T \in SUBSET all :
              Cardinality(T) = IF TopGated < Cardinality(all) THEN TopGated ELSE Cardinality(all)}}

------------------------------------------------------------------------------
(* The pipeline (orchestrator.py) *)

Init ==
    /\ stage = "idle" /\ jobs = 0 /\ round = 0
    /\ asked = None /\ wish = None /\ fulfilled = None /\ intent = None
    /\ pool = {} /\ themes = <<>> /\ held = {} /\ relaxed = FALSE
    /\ result = NoResult

\* A job, perhaps one that names the last result to be revised.
Begin ==
    /\ stage = "idle" /\ jobs < MaxJobs
    /\ \E order \in Named : asked' = order /\ wish' = order
    /\ stage' \in {"prior", "intent"}
    /\ jobs' = jobs + 1
    /\ UNCHANGED <<fulfilled, intent, pool, themes, held, relaxed, round, result>>

\* the excluded tickers of the prior result are forgotten
RevisePrior_Afresh ==
    /\ stage = "prior" /\ stage' = "pool"
    /\ result # NoResult
    /\ intent' = [asked EXCEPT !.included = @ \cup result.included]
    /\ wish' = Sum(fulfilled, wish) /\ asked' = None
    /\ UNCHANGED <<jobs, fulfilled, pool, themes, held, relaxed, round, result>>
\* _load_prior_context and the merge of revise mode
RevisePrior ==
    /\ stage = "prior" /\ stage' = "pool"
    /\ result # NoResult
    /\ intent' = Sum(result, asked)
    /\ wish' = Sum(fulfilled, wish) /\ asked' = None
    /\ UNCHANGED <<jobs, fulfilled, pool, themes, held, relaxed, round, result>>
\* The chain ends when the result is gone.
PriorMissing ==
    /\ stage = "prior" /\ stage' = "intent"
    /\ result = NoResult
    /\ UNCHANGED <<jobs, asked, wish, fulfilled, intent, pool, themes, held, relaxed, round, result>>

\* _parse_intent: the model's tickers and the request's; or, when the model fails,
\* the request's alone.
ParseIntent ==
    /\ stage = "intent" /\ stage' = "pool"
    /\ \E order \in Named : intent' = Sum(asked, order)
    /\ asked' = None
    /\ UNCHANGED <<jobs, wish, fulfilled, pool, themes, held, relaxed, round, result>>

\* Data and factor scores, then the pool.
BuildPool ==
    /\ stage = "pool" /\ stage' = "themes"
    /\ pool' \in BuildRecallPool(intent)
    /\ UNCHANGED <<jobs, asked, wish, fulfilled, intent, themes, held, relaxed, round, result>>

\* _score_themes: whatever tickers the model answers for; those of the pool that it
\* left out get 50 and a low confidence.
ScoreThemes ==
    /\ stage = "themes" /\ stage' = "draft"
    /\ \E S \in SUBSET Name : \E answer \in [S -> Answers] :
        themes' = [t \in S \cup pool |->
                      IF t \in S THEN answer[t] ELSE Unscored]
    /\ UNCHANGED <<jobs, asked, wish, fulfilled, intent, pool, held, relaxed, round, result>>

\* One round of the review loop: scores and selection are computed again from the
\* same answers.
Draft ==
    /\ stage = "draft" /\ stage' = "critic"
    /\ round' = round + 1
    /\ \E selected \in SelectCandidates(intent, themes) :
        /\ relaxed' = (selected = {})
        /\ held' \in IF selected = {} THEN AutoRelax(intent, themes) ELSE {selected}
    /\ UNCHANGED <<jobs, asked, wish, fulfilled, intent, pool, themes, result>>

\* _run_critic: approved, also when the critic fails; else another round, for which
\* its tickers are not kept, until there have been three.
Verdict ==
    /\ stage = "critic"
    /\ stage' \in {"complete"} \cup (IF round < 3 THEN {"draft"} ELSE {})
    /\ UNCHANGED <<jobs, asked, wish, fulfilled, intent, pool, themes, held, relaxed, round, result>>

Clear ==
    /\ asked' = None /\ intent' = None
    /\ pool' = {} /\ themes' = <<>> /\ held' = {} /\ relaxed' = FALSE /\ round' = 0

\* job_completed has been sent; the job stores the result.
StoreResult ==
    /\ stage = "complete" /\ stage' = "idle"
    /\ result' = intent /\ fulfilled' = wish
    /\ Clear /\ UNCHANGED <<jobs, wish>>

\* A read, a write or an event fails: the job does, and its next try starts anew.  What
\* an earlier job or try stored stays.
JobFails ==
    /\ stage # "idle" /\ stage' = "idle"
    /\ wish' = None
    /\ Clear /\ UNCHANGED <<jobs, fulfilled, result>>

\* RESULT_TTL_S
ResultExpires ==
    /\ result # NoResult /\ result' = NoResult
    /\ UNCHANGED <<stage, jobs, asked, wish, fulfilled, intent, pool, themes, held, relaxed, round>>

Next ==
    \/ Begin \/ RevisePrior \/ PriorMissing \/ ParseIntent
    \/ BuildPool \/ ScoreThemes \/ Draft \/ Verdict \/ StoreResult \/ JobFails
    \/ ResultExpires

Spec == Init /\ [][Next]_vars

------------------------------------------------------------------------------
(* Properties *)

\* Whatever the models answer, relaxation lets through or a revision merges: no draft
\* holds a ticker that a request of its chain excluded, and each holds those that
\* one included, unless the intent excludes them.
WishesHonoured ==
    held # {} =>
        /\ held \cap wish.excluded = {}
        /\ wish.included \ intent.excluded \subseteq held
==============================================================================
