\* Programs that finish or fail to initialise, and initialise again.
CONSTANTS
  c1 = c1
  c2 = c2
  Clients = {c1, c2}
  f1 = f1
  Files = {f1}
  WriteRanges <- Apiece
  ReadRanges = {}
  NoClient = NoClient
  NoRequest = NoRequest
  NoFile = NoFile
  NumServers = 2
  Bytes <- BytesOfApiece
  Hole = Hole
  Missing = Missing
  BlockSize = 1
  Modes = {1, 2}
  Offsets = {}
  Closed = Closed
  Mortals = {}
  MayFail = FALSE
  PingMayFail = TRUE
  MaxBirths = 1
  MaxLate = 0
  MaxStubs = 4
SYMMETRY Symmetry
SPECIFICATION PFSSpec
INVARIANTS Durable
PROPERTIES DeletedIsGone
CHECK_DEADLOCK FALSE
