\* A frame is queued over descriptors the EMAC has still to read.
CONSTANTS
    TxN = 3
    TxFrames = {f1, f2}
    MaxRefs = 4
SPECIFICATION SpecTx
PROPERTIES EnoughAvailable
