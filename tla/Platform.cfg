CONSTANTS
    NumUnits = 2
    Handlers = {p1, p2}
    Employers = {e1}
    Staff = {s1}
    Refs = {r1}
    MaxAmount = 2
    Funds = 3
    FeeBps = 1
    BpsUnit = 2
    MaxDeployed = 1
    MaxReceipts = 2
    MaxDonations = 1
    Users = {u1}
    Namespaces = {"arc", "shop"}
    Labels = {l1}
    LengthOf <- MCLengthOf
    Grace = 1
    Year = 3
    MaxBps = 4
    Durations = {1}
    Prices = {1}
    Promos <- MCPromos
    MaxTime = 4
    MaxCalls = 5
    Codes = {c1, c2}
    FeeRates = {1}
    MaxCommits = 1
    MaxClock = 1
    MaxForks = 1
    MaxUpsets = 2
    ScanEndpoints = {"arc", "quicknode"}
    PoolKeys = {"p500", "p3000"}
    MaxRanges = 2
    MaxPoolEdits = 1
    Payees = {"a", "b"}
    UnitsPaid = {1, 2}
    ReceiptRefs = {"r1", "r2"}
    GrossInput = 3
    NativeScale = 10
    ConfirmationsRequired = 2
    MaxDepth = 1
    MaxRpcFaults = 1
    RoutedBatches <- MCBatches
    RoutedFee <- MCFee
    MaxToasts = 4
    DismissTtl = 2
    MaxInstallTime = 4
    MaxPromptEvents = 3
    ProfileTabs = {"p1", "p2"}
    Scopes = {"w1", "w2"}
    Identities = {"x", "y"}
    MaxSaves = 3
SPECIFICATION MCSpec
CHECK_DEADLOCK FALSE
INVARIANTS ReportsAreCounted MoneyIsAccounted ReleaseIsAsPlanned
    CapabilitiesAreUsable ReceiptsAreExact PageFollowsBrowser
PROPERTIES NamesStayTheirs
