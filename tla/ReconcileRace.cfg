CONSTANTS
    h1 = h1
    h2 = h2
    d0 = d0
    d1 = d1
    d2 = d2
    NumUnits = 1
    Keys <- MCKeys
    Due <- MCDue
    Payloads = {d0, d1, d2}
    Hashes = {h1}
    Owners = {}
    Pays <- MCPays
    Handlers = {p1, p2}
    NoHash = NoHash
    NoOwner = NoOwner
    NoPayload = NoPayload
SPECIFICATION Spec
PROPERTIES ReconcileAgrees
