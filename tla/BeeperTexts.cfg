\* Two rooms, two devices of the bot, ranges of three ids, a retry; a room of
\* six events, of which one is no message and one is encrypted; three handles
\* and descriptors, and memory that is used again once.
SPECIFICATION TextsSpec
CONSTANTS
    Increment = 3
    MaxTxnId = 9
    Rooms = {1, 2}
    BotDevices = {1, 2}
    Retries = 1
    MaxTexts = 3
    Addresses = {1, 2, 3}
    Fds = {1, 2, 3}
    NULL = NULL
    MaxAdds = 3
    Futures = {1, 2, 3, 4, 5, 6, 7, 8}
    Viewport = 1
    Lower = 1
    Upper = 1
    Stamp <- InOrder
    NoMessages = {5}
    Encrypted = {3}
    Posted = 4
    Page = 2
    ReadAhead = 1
    MaxMoves = 8
INVARIANT TxnIdsUnique
INVARIANT TextsArriveOnce
INVARIANT KeysUsedOnce
INVARIANT TextsAreReadable
INVARIANT WidgetAssertionsHold
INVARIANT WindowMatchesBubbles
INVARIANT BubblesShowTheirMessages
INVARIANT NoBubbleWaitsInVain
PROPERTY WindowKeepsUp
PROPERTY CallsAreForTheirOwn
CHECK_DEADLOCK FALSE
