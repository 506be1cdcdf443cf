CONSTANTS
    Width = 7
    MaxQueries = 2
    MaxConns = 2
    ConnectFails = TRUE
    Interventions = TRUE
SPECIFICATION Spec
INVARIANTS
    TypeOK
    StallOnlyIfRefused
    SendersConnected
