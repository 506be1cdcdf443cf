CONSTANTS
    Width = 7
    MaxQueries = 2
    MaxConns = 1
    ConnectFails = FALSE
    Interventions = FALSE
SPECIFICATION Spec
INVARIANTS
    ApChangePending
