\* The server counts fewer one-time keys than the account holds.
SPECIFICATION Spec
CONSTANTS
 TopUp = 2
 LowWatermark = 2
 Capacity = 2
 MaxKeys = 4
 MaxClaims = 3
 MaxMessages = 3
 MaxCrashes = 1
CHECK_DEADLOCK FALSE
INVARIANT NotMoreThanAsked
