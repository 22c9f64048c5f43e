\* A new card that fills before its first upload.
CONSTANTS
    Sectors = 4
    MaxBlock = 9
    Word = 32
    Stride = 2
    BatchMax = 2
    CardFaults = FALSE
    MaxRecords = 4
SPECIFICATION SpecBlank
PROPERTIES UnreadBlocksKept
