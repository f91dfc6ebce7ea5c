\* Two clients with a watcher, or three watchers, two other modules, the
\* daemon between them.
CONSTANTS
    c1 = c1
    c2 = c2
    w1 = w1
    w2 = w2
    w3 = w3
    None = None
    MyToken = 1
    MaxTokens = 3
    Clients <- TwoClients
    Watchers <- ThreeWatchers
    SockCap = 1
    MaxRequests = 1
    OtherRequests <- SomeRequests

SPECIFICATION MCSpec
INVARIANT SlotsEnumerateTokens
INVARIANT OneClientPerModule
INVARIANT AnswersMatchCalls
INVARIANT WatchersToldEverything
PROPERTY ConnectAnswered
PROPERTY ModulesAnnounced
PROPERTY ImplementsDirectory
CHECK_DEADLOCK FALSE
