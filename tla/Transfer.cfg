\* Two peers, one that writes and one that reads; a transfer of two bytes takes
\* one exchange or two.
CONSTANTS
    Peers <- TwoPeers
    Uses <- OneEach
    Chunk = 2
    PipeCap = 2
    MaxLen = 2

SPECIFICATION FairSpec
INVARIANT BytesAccounted
INVARIANT NoLostWakeup
INVARIANT ReportsAreSeen
PROPERTY TransfersEnd
