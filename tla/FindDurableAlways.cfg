\* Finding: a deletion under way erases what was written since.
CONSTANTS
  c1 = c1
  c2 = c2
  Clients = {c1, c2}
  f1 = f1
  Files = {f1}
  WriteRanges <- Apiece
  ReadRanges = {}
  NoClient = NoClient
  NoRequest = NoRequest
  NoFile = NoFile
  NumServers = 2
  Bytes <- BytesOfApiece
  Hole = Hole
  Missing = Missing
  BlockSize = 1
  Modes = {2}
  Offsets = {}
  Closed = Closed
  Mortals = {}
  MayFail = FALSE
  PingMayFail = FALSE
  MaxBirths = 2
  MaxLate = 0
  MaxStubs = 2
SPECIFICATION PFSSpec
INVARIANT DurableAlways
CHECK_DEADLOCK FALSE
