\* Two programs cache files of two modules while a third uses them.
CONSTANTS
    c1 = c1
    c2 = c2
    p1 = p1
    big = big
    empty = empty
    Own = 1
    Last = 2
    Users <- AllUsers
    Cachers <- TwoCachers
    Contents = {big, empty}
    Initial <- SomeFiles
    SizeOf <- Sizes
    Plans <- AllPlans
    MaxWrites = 1
    MaxRestarts = 1

SPECIFICATION FairCSpec
PROPERTY CachingEnds
INVARIANT ConnectionsMatchFiles
INVARIANT RootListsModules
INVARIANT CacheHoldsContent
CHECK_DEADLOCK FALSE
