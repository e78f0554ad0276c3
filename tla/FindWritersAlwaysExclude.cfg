\* Finding: two clients write the same byte at the same time.
CONSTANTS
  c1 = c1
  c2 = c2
  c3 = c3
  Clients = {c1, c2, c3}
  f1 = f1
  Files = {f1}
  WriteRanges <- Nested
  ReadRanges = {}
  NoClient = NoClient
  NoRequest = NoRequest
  NoFile = NoFile
  NumServers = 1
  Bytes <- BytesOfNested
  Hole = Hole
  Missing = Missing
  BlockSize = 1
  Modes = {2}
  Offsets = {}
  Closed = Closed
  Mortals = {}
  MayFail = FALSE
  PingMayFail = FALSE
  MaxBirths = 1
  MaxLate = 0
  MaxStubs = 1
SPECIFICATION PFSSpec
SYMMETRY Symmetry
INVARIANT WritersAlwaysExclude
CHECK_DEADLOCK FALSE
