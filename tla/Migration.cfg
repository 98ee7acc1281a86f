SPECIFICATION FairSpec
CONSTANTS
    Workers = {1, 2}
    Configs <- MCConfigs
    Trees <- MCTrees
    Names <- MCNames
    Manifests <- MCManifests
    ManifestData = 8
    ValidLabels <- MCValidLabels
    EpochUndefined = EpochUndefined
INVARIANTS
    TreeMigrated
    PendingFollows
    NeverPanics
PROPERTY Returns
CHECK_DEADLOCK FALSE
