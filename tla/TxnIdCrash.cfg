\* Ranges of three ids, up to four of them.
SPECIFICATION Spec
CONSTANTS
    Increment = 3
    MaxTxnId = 9
INVARIANT
    NeverUnreadable
