SPECIFICATION Spec
CONSTANTS
    Job = {j1, j2}
    Submitted = {"run_daily_digest", "run_email_triage", "run_transcription", "run_meeting_summary",
        "run_firm_report", "run_rag_index_update", "run_style_profile_refresh",
        "run_portfolio_construction", "run_digest",
        "daily-digest-sweep", "email-triage-sweep", "style-profile-weekly"}
    MaxTries = 2
    MaxJobs = 2
    Errors = {"other"}
    MaxMail = 2
    Chunks <- TwoOneNone
    Accounts = {a1}
    Sections = {calendar}
SYMMETRY Symmetry
INVARIANTS UpdateRepairs NoEmailSkipped SummaryFindsTranscript
CHECK_DEADLOCK FALSE
