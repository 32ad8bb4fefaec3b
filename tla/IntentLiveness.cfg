CONSTANTS
    h2 = h2
    d1 = d1
    d2 = d2
    Keys = {k1}
    SendKeys = {k1}
    Payloads = {d1}
    Hashes = {h1, h3}
    Owners = {o1}
    Handlers = {p1, p2}
    Pays <- MCPays
    NoHash = NoHash
    NoOwner = NoOwner
    NoPayload = NoPayload
    NoKey = NoKey
SPECIFICATION FairSpec
PROPERTIES RequestsReturn
