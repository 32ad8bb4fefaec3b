CONSTANTS
    h0 = h0
    h1 = h1
    h2 = h2
    d0 = d0
    d1 = d1
    d2 = d2
    NumUnits = 2
    Keys <- MCKeys
    Due <- MCDue
    Payloads = {d0, d1, d2}
    Hashes = {h0, h1, h2}
    Owners = {}
    Pays <- MCPays
    Handlers = {p1, p2}
    NoHash = NoHash
    NoOwner = NoOwner
    NoPayload = NoPayload
SPECIFICATION MCSpec
SYMMETRY Symmetry
INVARIANTS OutcomesFollowChain SerialTaskMatchesUnits EvidenceIsUnique
