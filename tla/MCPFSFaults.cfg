\* Calls to the file server that fail, and end later or never.
CONSTANTS
  c1 = c1
  c2 = c2
  Clients = {c1, c2}
  f1 = f1
  Files = {f1}
  WriteRanges <- Single
  ReadRanges = {}
  NoClient = NoClient
  NoRequest = NoRequest
  NoFile = NoFile
  NumServers = 1
  Bytes <- BytesOfSingle
  Hole = Hole
  Missing = Missing
  BlockSize = 1
  Modes = {2}
  Offsets = {}
  Closed = Closed
  Mortals = {}
  MayFail = TRUE
  PingMayFail = FALSE
  MaxBirths = 2
  MaxLate = 1
  MaxStubs = 1
SYMMETRY Symmetry
SPECIFICATION PFSSpec
INVARIANTS DataInv Durable
CHECK_DEADLOCK FALSE
