SPECIFICATION VFairSpec
CONSTANTS
    c1 = c1
    p1 = p1
    va = va
    vb = vb
    root = root
    Clients = {c1}
    Providers = {p1}
    Offers <- TwoOffers
    PieceSize <- Sizes
    Deposits = {2}
    Withdrawals = {}
    DealUpdatesInterval = 2
    LateTerminations = TRUE
    MaxEpoch = 4
    MaxNullRounds = 0
    MaxBatch = 2
    MaxDeals = 2
    MaxEscrow = 4
    Accounts = {c1, va, vb, root}
    RootKey = root
    MinVerifiedDealSize = 2
    Allowances = {3}
    Registries <- SomeRegistries
    MaxProposalID = 1
INVARIANTS
    DataCapAccounted
    VerifierNotClient
    RemovalOnce
    SolventAndScheduled
PROPERTY
    DealsSettle
