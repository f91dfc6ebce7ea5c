\* Two commands and events; two claims of which one fits into the sessions
\* kept, three messages, a crash; a room of four messages in two sessions of
\* which one is cached, two answers of the bot, a crash.
SPECIFICATION FairSpec
CONSTANTS
    MaxCommands = 2
    MaxEvents = 2
    TopUp = 2
    LowWatermark = 2
    OtkCapacity = 1
    MaxKeys = 4
    MaxClaims = 2
    MaxMessages = 3
    MaxOtkCrashes = 1
    Timeline <- AlternatingTimeline
    Earliest <- SecondIsLate
    RoomCapacity = 1
    MaxAnswers = 2
    MaxRoomCrashes = 1
INVARIANT HandledBeforeExit
INVARIANT HeldKeysAreSaved
INVARIANT NothingDropped
INVARIANT NothingReadTwice
INVARIANT ShownOrWaiting
PROPERTY StopEndsTheTask
PROPERTY EventsAreTaken
PROPERTY KeysToppedUp
PROPERTY MessagesGetShown
CHECK_DEADLOCK FALSE
