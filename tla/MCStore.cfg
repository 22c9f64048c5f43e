\* The store at power failures and in the long run, the card, the clock and the radio.
CONSTANTS
    Sectors = 4
    MaxBlock = 9
    Word = 32
    Stride = 2
    BatchMax = 2
    CardFaults = TRUE
    MaxRecords = 2
    Kinds = {"none", "v1", "v2", "hc"}
    Sizes = {3, 4}
    Octets = 2
    LastAddr = 3
    Attempts = 2
    Timeout = 2
    Values = {x, y}
    Empty = Empty
    W = 4
    NumTx = 2
    NumRx = 2
    Frames = {f}
    Filtered = TRUE
SPECIFICATION MCSpec
INVARIANTS SavedOften CardServes
PROPERTIES TornPageDetected PendingUploaded CallsEnd ReadingIsExact BootCompletes QueuedIsSent
