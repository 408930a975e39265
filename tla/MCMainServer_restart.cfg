SPECIFICATION Spec
CONSTANTS
  A = A
  B = B
  C = C
  Backends = {A, B, C}
  Garbage = Garbage
  NoName = NoName
  WritesFail = FALSE
  Names <- MCNames
  INITIAL_BALANCE = 9
  Requests <- MCRequests
  InitialBlocks <- MCBlocks
  MaxBacklog = 1
  MaxPayments = 2
  MaxRestarts = 1
  MaxCrashes = 0
  StopsAnytime = TRUE
CHECK_DEADLOCK FALSE
INVARIANTS
  SerialsUnique
