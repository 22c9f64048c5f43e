\* The receive window crosses the top of the sequence numbers.
CONSTANTS
    SeqSpace = 64
    IRS = 58
    Stream = 7
    RcvMSS = 3
    WND = 5
SPECIFICATION SpecRcv
CHECK_DEADLOCK FALSE
INVARIANTS OoseqInOrder
