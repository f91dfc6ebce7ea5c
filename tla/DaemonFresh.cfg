\* A watcher hangs up while another one is accepted.
CONSTANTS
    c1 = c1
    c2 = c2
    w1 = w1
    w2 = w2
    w3 = w3
    None = None
    MyToken = 1
    MaxTokens = 2
    Clients = {}
    Watchers <- ThreeWatchers
    SockCap = 1
    MaxRequests = 1
    OtherRequests = {}

SPECIFICATION MCSpec
INVARIANT NeverAborts
CHECK_DEADLOCK FALSE
