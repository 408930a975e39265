SPECIFICATION Spec
CONSTANTS
  p1 = p1
  p2 = p2
  Procs = {p1, p2}
  Words <- MCWords
  Strtoul <- MCStrtoul
  Files <- MCFiles
  Starts <- MCStarts
  Paths <- MCPaths
  InitialFiles <- MCInitialFiles
  MaxKeys = 3
  MaxStarts = 3
  MaxLosses = 1
INVARIANTS
  PortPrecedence
SYMMETRY MCSymmetry
