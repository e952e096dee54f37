CONSTANTS
    Parts = {"weights"}
    Asked <- SomeAsked
    Selections <- SomeSelections
    MinWeight = 200
    MaxWeights = {1000, 3000, 4000, 5000}
    Incomes <- SomeIncomes
    Amounts = {5000, 70000}
    MaxActions = 2
    Lots <- SomeLots
    Trades <- SomeTrades
    Gains = {0, 50000}
    Rates <- TwoRates
    MaxLots = 2
    Universe = {"a", "b", "c", "d"}
    Industry <- OneIndustry
    MarketSector <- OneSector
    SubFactors = {"p", "q"}
    LowerIsBetter = {"q"}
    Values = {0, 1}
    IndustryPeers = 3
    SectorPeers = 4
    MinSubFactors = 2
    FirstYear = 2025
    Births = {1951, 1953}
    Balances = {0, 300}
    Losses = {1, 30}
    LastDay = 830
    Position = {"a", "b", "c"}
    SectorOf <- TwoSectors
    Country <- OneCountry
    Class <- ClassOf
    Targets <- TwoTargets
    Lot = 5
    Value = 50
    Call = {c1, c2, c3}
    FailureThreshold = 3
    Recovery = 2
    house = house
    other = other
SPECIFICATION MCSpec
INVARIANTS WithinBounds
CHECK_DEADLOCK FALSE
