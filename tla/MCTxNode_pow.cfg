SPECIFICATION FairSpec
CONSTANTS
  a1 = a1
  a2 = a2
  a3 = a3
  Addr = {a1, a2, a3}
  NullAddr = NullAddr
  GENESIS_ALLOC <- MCAlloc
  COINBASE_REWARD = 1
  MAX_TXNS_PER_BLOCK = 2
  MAX_CLOCK_SKEW_S = 1
  Difficulty = 1
  MempoolCap = 2
  Txns <- MCTxns
  Miner = a3
  AppendFaults = {}
  GenesisFaults = {}
  CrashExtents = {"all"}
  MaxIdleHeight = 0
  MaxClockLead = 1
  MaxNonceWraps = 1
INVARIANTS
  VisibleIsDurable
  RestartResumes
  NoDoubleInclusion
PROPERTIES
  OldestFirst
  AdmittedIsMined
