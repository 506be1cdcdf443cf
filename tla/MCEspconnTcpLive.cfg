CONSTANTS
    Pcb = {p1, p2}
    Msg = {m1, m2, m3}
    Client = {c}
    None = None
    MaxActive = 1
    HeapReuse = FALSE
    CloseOnce = TRUE
SPECIFICATION FairSpec
PROPERTIES
    ServerCloseReported
