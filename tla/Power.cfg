SPECIFICATION PRFairSpec
CONSTANTS
  Miners = {m1, m2}
  MinPowers = {6}
  Deltas <- MCDeltas
  PledgeDeltas <- MCPledgeDeltas
  ConsensusMinerMinMiners = 1
  MaxMinerProveCommitsPerEpoch = 1
  NoClaim = NoClaim
  NoMiner = NoMiner
  MaxPower = 9
  MaxPledge = 1
  MaxEvents = 2
  MaxNullRounds = 1
  MaxEpoch = 2
  One = 2
  BaselineExponent = 3
  BaselineInitialValue = 3
  SimpleReward <- MCSimple
  BaselineSupply <- MCSupply
  ExpectedLeadersPerEpoch = 1
  RewardFund = 4
  WinCounts = {1, 2}
  GasRewards = {1}
  Plans <- MCPlans
INVARIANTS
  TotalsMatchClaims
  EventsOnce
  RewardStateExact
PROPERTIES
  EventsRun
CHECK_DEADLOCK FALSE
