\* One command and the status of verification.
SPECIFICATION Spec
CONSTANTS
    MaxCommands = 1
    MaxEvents = 1
INVARIANT
    OnlyPointersFreed
CHECK_DEADLOCK FALSE
