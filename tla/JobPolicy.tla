------------------------------ MODULE JobPolicy ------------------------------
(***************************************************************************)
(* How the sidecar's jobs classify an exception and decide on a retry      *)
(* (jobs/errors.py), and the functions the worker registers                *)
(* (jobs/worker.py).  Delays are left out: a retried job waits in the      *)
(* queue for as long as it takes.                                          *)
(***************************************************************************)
EXTENDS Integers

\* FailureCategory
Category == {"platform_read", "model_provider", "validation", "internal"}

\* Exceptions a job raises, as classify_error tells them apart.  "other" stands
\* for every class it does not know, PlatformReadError of the platform client
\* among them.
Exception == {"http_5xx", "http_429", "http_401", "http_403", "http_4xx",
              "connect", "timeout", "value", "type", "named_model",
              "says_quota", "other"}

\* classify_error
ClassifyError(e) ==
    CASE e \in {"http_5xx", "http_401", "http_403", "connect", "timeout"} -> "platform_read"
      [] e \in {"http_429", "named_model", "says_quota"} -> "model_provider"
      [] e \in {"http_4xx", "value", "type"} -> "validation"
      [] OTHER -> "internal"

\* RETRY_POLICY: max_retries
MaxRetries(c) ==
    CASE c \in {"platform_read", "model_provider"} -> 3
      [] c = "internal" -> 1
      [] OTHER -> 0

\* compute_retry_delay returns a delay.
Retries(c, attempt) == attempt < MaxRetries(c)

\* WorkerSettings.functions and cron_jobs, under the names arq looks them up by.
Registered == {"run_daily_digest", "run_email_triage", "run_transcription",
               "run_meeting_summary", "run_firm_report", "run_rag_index_update",
               "run_style_profile_refresh", "run_portfolio_construction",
               "daily-digest-sweep", "email-triage-sweep", "style-profile-weekly"}

\* How many times the retry wrapper is around a registered function: once in the
\* module that defines it (not run_portfolio_construction) and once in the worker.
Wraps(k) == IF k = "run_portfolio_construction" THEN 1 ELSE 2

\* The names under which jobs are enqueued: by the routes and by a job that
\* chains another, and by the three cron sweeps.
ByRoutes == {"run_transcription", "run_meeting_summary", "run_firm_report",
             "run_rag_index_update", "run_portfolio_construction", "run_digest"}
BySweeps == {"daily_digest", "email_triage", "style_profile_refresh"}
SweepOf(k) ==
    CASE k = "daily-digest-sweep" -> "daily_digest"
      [] k = "email-triage-sweep" -> "email_triage"
      [] k = "style-profile-weekly" -> "style_profile_refresh"
Sweeps == {"daily-digest-sweep", "email-triage-sweep", "style-profile-weekly"}

Name == Registered \cup ByRoutes \cup BySweeps
==============================================================================
