SPECIFICATION FairSpec
CONSTANTS
  a1 = a1
  a2 = a2
  s1 = s1
  s2 = s2
  s3 = s3
  Addr = {a1, a2}
  NullAddr = NullAddr
  GENESIS_ALLOC <- MCAlloc
  COINBASE_REWARD = 1
  MAX_TXNS_PER_BLOCK = 1
  MAX_CLOCK_SKEW_S = 1
  MempoolCap = 1
  Sends = {s1, s2, s3}
  NoSend = NoSend
  Transfer <- MCTransfer
  BodyParts = 2
  MaxKills = 1
INVARIANTS
  TypeOK
  OutcomeTrue
  NonceOnce
  RejectionExplained
PROPERTIES
  EverySendEnds
  StopReturns
