CONSTANTS
    Pcb = {p1, p2}
    Msg = {m1, m2}
    Client = {c}
    None = None
    MaxActive = 2
    HeapReuse = FALSE
    CloseOnce = TRUE
SPECIFICATION FairSpec
PROPERTIES
    ClientCloseReported
