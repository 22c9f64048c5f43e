\* A transmission taken for a reception.
CONSTANTS
    NumTx = 2
    NumRx = 2
    Heard = {h1}
    Said = {s1}
    Blank = blank
    Filtered = FALSE
SPECIFICATION SpecRadif
INVARIANTS ReceivedFromOthers
