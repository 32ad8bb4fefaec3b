CONSTANTS
    m1 = m1
    b1 = b1
    b2 = b2
    b3 = b3
    Ids = {i1, i2}
    RequestKeys = {i1, i2}
    KeyOf <- MCKeyOf
    Approvals = {a1, a2}
    Burns = {b1, b2, b3}
    Matching = {b1, b2}
    Mints = {m1}
    Receives <- MCReceives
    Leases = {l1}
    Handlers = {p1, p2}
    None = None
    Counterparties = {"ETH-MAINNET"}
    FastSources = {"ETH-MAINNET"}
    BridgeAmounts = {2, 5}
    BridgeRates = {1, 3}
    FeeScale = 4
    BufferNum = 6
    BufferDen = 5
    Allowances = {5}
    MaxIntents = 2
    MaxEdits = 2
    MaxReopens = 1
    MaxFeeMoves = 1
SPECIFICATION MCSpec
SYMMETRY Symmetry
CHECK_DEADLOCK FALSE
INVARIANTS ResultIsCoherent SerialOneIntentPerMessage BurnsAreQuotedAndStored
PROPERTIES EvidenceIsKept
