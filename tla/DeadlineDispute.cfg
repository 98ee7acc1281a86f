SPECIFICATION Spec
CONSTANTS
    WPoStProvingPeriod = 4
    DeadlineLast = 2
    SectorNumbers = {1}
    PartitionSize = 1
    WPoStChallengeWindow = 1
    WPoStDisputeWindow = 1
    FaultDeclarationCutoff = 1
    FaultMaxAge = 4
    AddressedSectorsMax = 2
    AddressedPartitionsMax = 2
    MinSectorExpiration = 6
    MaxSectorLifetime = 20
    MaxSectorExpirationExtension = 20
    PledgePerPower = 1
    Expirations = {6, 10}
    VerifiedSectors = {1}
    MaxEpoch = 7
    StaleDisputes = TRUE
INVARIANTS
    DisputeRecordsFaults
