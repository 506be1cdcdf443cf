CONSTANTS
    Width = 7
    MaxQueries = 2
    MaxConns = 2
    ConnectFails = FALSE
    Interventions = FALSE
SPECIFICATION FairSpec
PROPERTIES
    FallbackWhenUnreachable
    Reconnects
INVARIANTS
    FallbackAP
