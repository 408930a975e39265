SPECIFICATION Spec
CONSTANTS
  a1 = a1
  a2 = a2
  Addr = {a1, a2}
  NullAddr = NullAddr
  GENESIS_ALLOC <- MCAlloc
  COINBASE_REWARD = 1
  MAX_TXNS_PER_BLOCK = 2
  MAX_CLOCK_SKEW_S = 1
  Difficulty = 0
  Transfers <- MCSelfTransfers
  Miner = a2
  WithCoinbase = FALSE
  MaxHeight = 3
  MaxTransfers = 3
  MaxNow = 2
CHECK_DEADLOCK FALSE
INVARIANTS
  SupplyConserved
