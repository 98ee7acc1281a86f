SPECIFICATION MCSpec
CONSTANTS
  a = a
  b = b
  w = w
  Addresses = {a, b, w}
  Wallets = {w}
  SignersMax = 3
  Values = {0, 1}
  Locks <- LockTwo
  InitialLocks <- LockOrNot
  NoTxn = NoTxn
  MaxBalance = 3
  MaxTxns = 2
  MaxDepth = 2
  MaxEpoch = 3
INVARIANTS
  WalletSound
  QuorumBehindEverySend
PROPERTIES
  LockedFundsStay
CHECK_DEADLOCK FALSE
