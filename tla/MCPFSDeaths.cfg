\* Two clients, one of which may die at any point of a call; liveness too.
CONSTANTS
  c1 = c1
  c2 = c2
  Clients = {c1, c2}
  f1 = f1
  Files = {f1}
  WriteRanges <- TwoBlocks
  ReadRanges = {}
  NoClient = NoClient
  NoRequest = NoRequest
  NoFile = NoFile
  NumServers = 2
  Bytes <- BytesOfTwoBlocks
  Hole = Hole
  Missing = Missing
  BlockSize = 1
  Modes = {2}
  Offsets = {0}
  Closed = Closed
  Mortals = {c2}
  MayFail = FALSE
  PingMayFail = FALSE
  MaxBirths = 1
  MaxLate = 1
  MaxStubs = 2
SPECIFICATION FairPFSSpec
INVARIANTS DataInv WritersExcludeUntilContested Durable
PROPERTIES NoWriterAtDeleteTest CallReturns
CHECK_DEADLOCK FALSE
