SPECIFICATION Spec
CONSTANTS
    c1 = c1
    p1 = p1
    p2 = p2
    Clients = {c1}
    Providers = {p1, p2}
    Offers <- ThreeOffers
    Deposits = {4}
    Withdrawals = {4}
    DealUpdatesInterval = 2
    LateTerminations = FALSE
    MaxEpoch = 5
    MaxNullRounds = 1
    MaxBatch = 2
    MaxDeals = 2
    MaxEscrow = 12
INVARIANTS
    EscrowCoversLocked
    BooksBalance
    DealsTracked
    PaymentExact
    HandlersNeverFail
