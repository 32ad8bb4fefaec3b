CONSTANTS
    k1 = k1
    h1 = h1
    d1 = d1
    p1 = p1
    noHash = noHash
    noOwner = noOwner
    noPayload = noPayload
    noKey = noKey
    Checkouts = {"c1", "c2"}
    Connections <- MCConnections
    MaxChecks = 2
    MaxLoads = 1
    MaxCheckoutFaults = 1
    Tabs = {t1}
    BatchAmounts <- MCAmounts
    RunFeeBps = 1
    RunBpsUnit = 4
    GrossQuotes = {6}
    StartAllowances = {0}
    MaxClicks = 3
    MaxRunFaults = 2
    NumGroups = 2
    UnitsPerGroup = 1
    MaxSends = 2
    MaxSheets = 2
    MaxPolls = 1
    MaxScreenFaults = 1
SPECIFICATION MCSpec
CHECK_DEADLOCK FALSE
INVARIANTS OneCheckoutPrompt ScreenIsTruthful
PROPERTIES PaymentsSettle RunEnds
