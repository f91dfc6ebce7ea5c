\* The root is looked at while modules arrive.
CONSTANTS
    c1 = c1
    c2 = c2
    p1 = p1
    big = big
    empty = empty
    Own = 2
    Last = 3
    Users = {p1}
    Cachers = {}
    Plans <- ThreeCalls
    Contents = {big, empty}
    Initial <- SomeFiles
    SizeOf <- Sizes
    MaxWrites = 0
    MaxRestarts = 0

SPECIFICATION CSpec
INVARIANT AtMostOneIsMissing
CHECK_DEADLOCK FALSE
