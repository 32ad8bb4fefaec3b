CONSTANTS
    h2 = h2
    d1 = d1
    d2 = d2
    Keys = {k1}
    SendKeys = {k1}
    Payloads = {d1, d2}
    Hashes = {h1, h2}
    Owners = {o1, o2}
    Handlers = {p1, p2}
    Pays <- MCPays
    NoHash = NoHash
    NoOwner = NoOwner
    NoPayload = NoPayload
    NoKey = NoKey
    Acquirers = {"c1", "c2"}
    Requests <- MCRequests
    OpenInvoices <- MCOpen
    MaxAcquires = 3
    Binders = {"b1", "b2"}
    BoundIntents = {"i1", "i2"}
    BindValues = {"x", "y"}
    MaxBinds = 2
    Browsers = {"b1", "b2"}
    Wallets = {"w1", "w2"}
    StartWallet = "w1"
    LegacyOwners <- MCLegacy
    ChallengeTtl = 1
    SessionTtl = 1
    MaxTicks = 1
    MaxLogins = 2
    MaxSwitches = 1
    MaxRepeats = 1
    Pages = {"b1"}
    Reviewed = {"x", "y"}
    QrAmounts = {1, 15}
    Decimal = 10
    MaxBalance = 9
    MaxFee = 7
    WeiPerUnit = 3
    GasFallback = 4
    GasMargin = 1
    GasSafety = 5
    MaxSends = 2
    MaxReloads = 2
    MaxSendFaults = 1
SPECIFICATION MCSpec
SYMMETRY Symmetry
CHECK_DEADLOCK FALSE
INVARIANTS CompletedIsProven EvidenceIsVisible OneWalletOpening
    OneIntentPerPayment SessionsFollowWallets OneTransferAsShown
PROPERTIES EvidenceMovesForward ImplementsStore ImplementsLedger
