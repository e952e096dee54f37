CONSTANTS
    Parts = {"chat"}
    Job = {j1, j2, j3}
    Pieces <- TwoOneNone
    Request = {r1, r2, r3}
    Runner = {q1, q2}
    Client = {c1}
    Item = {account, amount, yield}
    Account = {account}
    Amount = {amount}
    Context = {yield}
    Turns <- SomeTurns
    account = account
    amount = amount
    yield = yield
    MaxResult = 2
    Threshold = 6
    Recent = 2
    MaxMessages = 5
    MaxTurns = 2
    MaxItems = 2
    Requests <- Calls
    ReadOnly <- ThreeReads
    MaxConcurrent = 2
    MaxUsage = 2
    MaxRetries = 1
    Asks <- PairsOfReads
    MaxEntries = 1
    Market <- TwoSecurities
    Unlisted = {"x"}
    Answers <- OneAnswer
    TopFactor = 2
    TopMatch = 1
    Cap = 2
    Target = 2
    SectorCap = 1
    TopGated = 2
    Named <- SomeNamed
    MaxJobs = 2
    read1 = read1
    read2 = read2
    read3 = read3
    write1 = write1
    write2 = write2
SPECIFICATION MCSpec
INVARIANTS CallsAnswered
CHECK_DEADLOCK FALSE
