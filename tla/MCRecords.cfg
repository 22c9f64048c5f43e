\* The rings and the interrupts under every interleaving, all frames on the air
\* being for this station; frames written and read back; a card in use, with card
\* faults and power failures.
CONSTANTS
    NumTx = 2
    NumRx = 3
    Heard = {h1}
    Said = {s1}
    Blank = blank
    Filtered = FALSE
    Words16 = {513, 65535}
    Lengths = {0, 24, 116, 117}
    Seqs = {0, 255}
    Sectors = 5
    MaxBlock = 9
    Word = 32
    Stride = 2
    BatchMax = 2
    CardFaults = TRUE
    MaxRecords = 3
SPECIFICATION MCSpec
CHECK_DEADLOCK FALSE
INVARIANTS NoLostInterrupt QueuedIsAttended NothingLost DurableKept
PROPERTIES TxFifo RxFifo CallbackFrameStable FramesReadBack UnreadBlocksKept ImplementsStore
