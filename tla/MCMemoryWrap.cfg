\* A card in use, empty when the power came on, whose write index wraps.
CONSTANTS
    Sectors = 4
    MaxBlock = 9
    Word = 32
    Stride = 2
    BatchMax = 2
    CardFaults = FALSE
    MaxRecords = 4
SPECIFICATION SpecEmptied
INVARIANTS AvailableAreCounted
