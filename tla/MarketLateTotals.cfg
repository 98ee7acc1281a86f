SPECIFICATION Spec
CONSTANTS
    c1 = c1
    p1 = p1
    p2 = p2
    Clients = {c1}
    Providers = {p1}
    Offers <- FreeStorageOffers
    Deposits = {4}
    Withdrawals = {3}
    DealUpdatesInterval = 2
    LateTerminations = TRUE
    MaxEpoch = 5
    MaxNullRounds = 0
    MaxBatch = 2
    MaxDeals = 2
    MaxEscrow = 12
INVARIANT
    TotalsNonNegative
