CONSTANTS
    k1 = k1
    h1 = h1
    d1 = d1
    p1 = p1
    noHash = noHash
    noOwner = noOwner
    noPayload = noPayload
    noKey = noKey
    Checkouts = {"c1", "c2"}
    Connections <- MCConnections
    MaxChecks = 2
    MaxLoads = 1
    MaxCheckoutFaults = 1
    Tabs = {t1}
    BatchAmounts <- MCAmounts
    RunFeeBps = 1
    RunBpsUnit = 4
    GrossQuotes = {6}
    StartAllowances = {0}
    MaxClicks = 2
    MaxRunFaults = 1
    NumGroups = 1
    UnitsPerGroup = 1
    MaxSends = 1
    MaxSheets = 1
    MaxPolls = 1
    MaxScreenFaults = 0
SPECIFICATION MCSpec
CHECK_DEADLOCK FALSE
PROPERTIES RetryResumes
