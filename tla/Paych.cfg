CONSTANTS
  Lanes = {1, 2}
  Vouchers <- SomeVouchers
  Deposits = {2}
  SettleDelay = 2
  NoLane = NoLane
  MaxBalance = 4
  MaxEpoch = 5
SPECIFICATION Spec
INVARIANTS NoncesRise CountedOnce SettlementWaits
PROPERTY KeepsPromises
CHECK_DEADLOCK FALSE
