CONSTANTS
    h1 = h1
    h2 = h2
    d0 = d0
    d1 = d1
    d2 = d2
    Keys = {k1}
    Payloads = {d0, d1, d2}
    Hashes = {h0, h1}
    Owners = {}
    Pays <- MCPays
    Terms <- MCTerms
    SelfTransfers = {d0}
    Handlers = {p1, p2}
    NoHash = NoHash
    NoOwner = NoOwner
    NoPayload = NoPayload
    NoKey = NoKey
    SwapAmounts = {5}
    Rates = {1, 2}
    BpsScale = 4
    SlippageBps = 1
    ExecutorFee = 1
    QuorumTtl = 1
    QuoteAge = 1
    QuoteLife = 0
    DeadlineAfter = 1
    MaxHead = 1
    MaxQuotes = 2
    MaxSwaps = 1
    MaxPauses = 1
    Addresses <- MCAddresses
    TypedAmounts <- MCAmounts
    References <- MCReferences
    LongReferences <- MCLongReferences
    CsvFiles <- MCFiles
    Sender = "me"
    BatchSize = 2
    PlanFeeBps = 1
    PlanBpsUnit = 2
    Mantissa = 3
    MaxPlanEdits = 3
    Tabs = {t1, t2}
    BatchAmounts <- MCBatches
    RunFeeBps = 1
    RunBpsUnit = 4
    GrossQuotes = {6}
    StartAllowances = {0}
    MaxClicks = 2
    MaxRunFaults = 1
    Debts = {1, 2, 3, 4, 7, 10}
    Slippages = {1, 2}
    FeeRatesPaid = {0, 1}
    BpsDenominator = 10
    Attempts = 4
    SwapLimit = 1000
    HopScale = 100
    Pools <- MCPools
    DeepPools <- MCDeepPools
    Out <- MCOut
    Balances = {5, 30}
    FundingLife = 1
    PayrollDeadline = 1
    DeadlineWindow = 2
    MaxDelay = 2
    MaxMoves = 2
    Merchants = {"m1", "m2"}
    PageSize = 1
    Zones <- MCZones
    AmountTexts <- MCTexts
    LocalTimes = {1, 2}
    DefaultExpiry = 2
    MaxExpiry = 3
    Old <- MCOld
    MaxAsked <- MCAsked
    MaxMishaps <- MCMishaps
    NoOne = NoOne
SPECIFICATION MCSpec
CHECK_DEADLOCK FALSE
INVARIANTS InvoiceRowsAgree SwapAsQuoted PlanCoversSheet UnitsArePaidOnce
    PayrollIsFunded MerchantPagesAgree
PROPERTIES InvoiceMovesForward
