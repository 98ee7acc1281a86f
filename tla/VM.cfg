SPECIFICATION Spec
CONSTANTS
    Genesis <- MCGenesis
    Origins <- MCOrigins
    Messages <- MCMessages
    Sends <- MCSends
    Prices <- MCPrices
    GasLimit = 11
    Plans <- MCPlans
    MaxWrites = 1
INVARIANTS
    TraceExplainsState
    RegistrySound
    FundsConserved
