SPECIFICATION Spec
CONSTANTS
  a1 = a1
  a2 = a2
  Addr = {a1, a2}
  NullAddr = NullAddr
  GENESIS_ALLOC <- MCAlloc
  COINBASE_REWARD = 1
  MAX_TXNS_PER_BLOCK = 2
  MAX_CLOCK_SKEW_S = 3
  Candidates <- MCTwo
  Transfers <- MCTransfers
  Miner = a1
  Difficulties = {0, 1}
  ImportWhileUp = TRUE
  MaxHeight = 3
  MaxNow = 2
  MaxKills = 0
PROPERTIES
  HeavierReplaces
