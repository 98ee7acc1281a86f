SPECIFICATION Spec
CONSTANTS
    VestPeriod = 4
    StepDuration = 2
    Quantization = 2
    ProvingPeriodStart = 1
    SectorNumbers = {1, 2}
    owner = owner
    worker = worker
    heir = heir
    Addresses = {owner, worker, heir}
    InitialOwner = owner
    InitialWorker = worker
    NoAddress = NoAddress
    WPoStChallengeWindow = 2
    MaxProveCommitDuration = 2
    PreCommitChallengeDelay = 0
    ExpiredPreCommitCleanUpDelay = 1
    PreCommitSectorBatchMaxSize = 2
    MinAggregatedSectors = 2
    MaxAggregatedSectors = 2
    AddressedSectorsMax = 1
    ConsensusFaultIneligibilityDuration = 2
    WorkerKeyChangeDelay = 2
    PreCommitDepositForPower <- MCDeposit
    InitialPledgeForPower <- MCPledge
    NetworkFeePerSector = 1
    PledgePenaltyForContinuedFault = 1
    TerminationPenalty = 2
    ConsensusFaultPenalty = 4
    RewardForConsensusSlashReport = 1
    PledgePenaltyForInvalidWindowPoSt = 2
    RewardForDisputedWindowPoSt = 1
    ThisEpochReward = 4
    ExpectedLeadersPerEpoch = 2
    PenaltyMultiplier = 3
    InitialBalance = 6
    RewardBalance = 7
    ControlChoices <- MCControls
    Budgets <- MCBudgets
    MaxEpoch = 6
INVARIANTS
    BooksExact
    PromisesCovered
    OneDeadlineJob
    EventsAndRewardsAccepted
PROPERTIES
    DueIsDone
    WorkerKeyDelayed
CHECK_DEADLOCK FALSE
