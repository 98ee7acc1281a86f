SPECIFICATION Spec
CONSTANTS
    WPoStProvingPeriod = 4
    DeadlineLast = 2
    SectorNumbers = {1, 2}
    PartitionSize = 2
    WPoStChallengeWindow = 1
    WPoStDisputeWindow = 1
    FaultDeclarationCutoff = 1
    FaultMaxAge = 4
    AddressedSectorsMax = 2
    AddressedPartitionsMax = 2
    MinSectorExpiration = 5
    MaxSectorLifetime = 20
    MaxSectorExpirationExtension = 10
    PledgePerPower = 1
    Expirations = {6, 7}
    VerifiedSectors = {}
    MaxEpoch = 6
    StaleDisputes = FALSE
INVARIANTS
    ExpirationsSound
    AccountsExact
    CronNeverFails
