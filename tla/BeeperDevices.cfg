\* Two other devices verify this one, which restarts once; the own user and a
\* bot with two devices each, two changes, two ends of the program.
SPECIFICATION FairSpec
CONSTANTS
    OtherDevices = {1, 2}
    MaxAttempts = 2
    MaxPresses = 1
    MaxRestarts = 1
    Own = own
    Bots = {bot}
    DeviceNames = {d1, d2}
    ThisDevice = d1
    MaxChanges = 2
    MaxEnds = 2
INVARIANT CompleteOnlyIfConfirmed
INVARIANT ListsAreCurrent
PROPERTY VerificationCompletes
CHECK_DEADLOCK FALSE
