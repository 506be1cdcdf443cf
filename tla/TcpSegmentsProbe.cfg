\* The bounds of the firmware run.
CONSTANTS
    Units = 5
    WriteSizes = {1, 3}
    mss = 2
    TCP_MSS = 2
    TCP_SND_BUF = 3
    TCP_WND = 4
    TCP_MAXRTX = 2
    SeqSpace = 28
    MaxFaults = 1
SPECIFICATION SegmentsSpec
INVARIANTS
    StreamIntact
CHECK_DEADLOCK FALSE
