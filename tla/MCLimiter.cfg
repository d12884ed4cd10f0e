SPECIFICATION FairSpec
CONSTANTS
    p1 = p1
    p2 = p2
    ip1 = ip1
    n1 = n1
    n2 = n2
    n3 = n3
    a1 = a1
    a2 = a2
    Peers = {p1, p2}
    Names = {n1, n2, n3}
    IPs = {ip1}
    Accounts = {a1, a2}
    PeerIP <- MCPeerIP
    Canon <- MCCanon
    IPLimit = 2
    AccountLimit = 1
    Window = 3
    MaxConcurrent = 1
    MaxEntries = 2
    Reqs = {r1, r2}
INVARIANTS
    SlidingWindowBound
    WithinCapacity
    SlotsExact
PROPERTIES
    ActiveLimitKept
    ExhaustedKeyRecovers
    SlotFrees
