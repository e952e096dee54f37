SPECIFICATION WorkerFairSpec
CONSTANTS
    Job = {j1, j2}
    Submitted = {"run_firm_report", "run_portfolio_construction", "daily_digest"}
    MaxTries = 3
    MaxJobs = 1
INVARIANTS LetterIsFinal
PROPERTIES KeepsPromise
CHECK_DEADLOCK FALSE
