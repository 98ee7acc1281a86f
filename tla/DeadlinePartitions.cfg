SPECIFICATION FairSpec
CONSTANTS
    WPoStProvingPeriod = 4
    DeadlineLast = 2
    SectorNumbers = {1, 2}
    PartitionSize = 1
    WPoStChallengeWindow = 1
    WPoStDisputeWindow = 1
    FaultDeclarationCutoff = 1
    FaultMaxAge = 4
    AddressedSectorsMax = 1
    AddressedPartitionsMax = 2
    MinSectorExpiration = 10
    MaxSectorLifetime = 9
    MaxSectorExpirationExtension = 10
    PledgePerPower = 1
    Expirations = {10}
    VerifiedSectors = {1, 2}
    MaxEpoch = 8
    StaleDisputes = FALSE
INVARIANTS
    IndicesComplete
PROPERTIES
    TerminatedForever
    BacklogClears
