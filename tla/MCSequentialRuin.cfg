SPECIFICATION AllSpec
CONSTANTS
    Objects = {"sizing"}
    Candidates <- OptionRange
    MaxOptions = 2
    Budgets <- BudgetTuples
    CapitalUnit = 2
    RiskUnit = 2
    Offers <- OfferRange
    MaxOffers = 3
    Legs <- LegRange
    MaxLegs = 2
    W = 4
    CvarStep = 2
    MaxRequired = 2
    DeltaSlack = 1
    Instruments = {i1, i2}
    MaxChain = 2
    Spots <- SpotRange
    PartsMoved = 8
    Blocks = {1, 2, 3, 4}
    NoBlock = 0
    MaxActive = 2
    NumOps = 5
    UserWords = 2
    Contents = {0, 1}
    MaxGeneration = 2
    Spot = 18
    Lowest = 9
    Highest = 17
    Halvings = 3
    CallStrikes = {18, 19, 26}
    CallPremiums = {1, 3}
    PutPremiums = {0, 2}
    CostPercents = {0, 100}
    Protections = {10, 30}
    N = 5
    Values <- LeafValues
    Stops = {0, 150, 300, 600, 1500}
    Expected = {0, 600, 1800, 92000}
    Cvars <- LossTails
    FactorPercent <- Factors
    WinRates = {10, 22, 60}
    Multiple = 6
    KellyPercent = 25
    MaxRisks = {30, 50, 80}
    MaxPosition = 3300
    SafeEdge <- SafeEdges
    CvarFloor <- TailFloor
    Moves <- Returned
    Mus <- Estimates
    Accounts = {200, 1000}
    Gaps = {0, 3, 300}
    Scale = 6
    MaxCount = 3
    NumBrokers = 2
    ByteMod = 256
    Quantities = {1, 5}
    MaxFragments = 3
    MaxSplits = 2
    MaxBelief = 3
    Penalties = {2}
    NStates = 3
    Observations = {0, 1, 2}
    EmissionLogs <- Emissions
    Trainings <- Trained
    Threshold = 70
    MaxObserved = 3
    Returns <- ReturnRange
    MaxHistory = 4
    Whole = 4
    Tail95 = 2
    Tail99 = 1
    CvarLimit <- ReturnLimit
    Prices = {10, 11, 12, 13}
    Vols = {0, 1, 2, 3}
    Roots = {0, 1, 2}
    Liquidity = 3
    Unit = 12
    Profits <- ProfitRange
    Ks = {2}
    MaxKept = 3
    MaxTime = 4
    Bytes = {0, 1, 2, 3}
    PayloadLength = 2
    HashMod = 16
    Offset = 5
    Multiplier = 11
    Masks = {0, 6, 13}
    InvAlpha2 = 100
    FirstNoise = 3
    ProcessNoise = 1
    ReadingNoise = 2
    MaxCalls = 5
    Parts = 2
    Readings <- TwoReadings
    Responsible = {0, 1, 2}
    Tables <- DensityTables
    Least <- One
    HiddenStates = 2
    StartWeights <- TrainingWeights
    Emission <- EmissionWeights
    MaxLength = 3
INVARIANTS
    TighterStaysViable
CHECK_DEADLOCK FALSE
