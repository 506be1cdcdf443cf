\* One connection of two units, beside a server that may hold a half-open one, with
\* one upset; a window of one unit leaves the second unit and the FIN queued.
CONSTANTS
    MaxData = 2
    Window = 1
    RcvWnd = 3
    MaxRtx = 1
    Iss0 = 5
    Ticks = {6}
    MaxConnects = 1
    MaxUpsets = 1
SPECIFICATION StatesSpec
INVARIANTS
    StatesTypeOK
    StatesKept
\* The connection ends.
CHECK_DEADLOCK FALSE
