\* Two clients, two servers, a file that is created twice.
CONSTANTS
  c1 = c1
  c2 = c2
  Clients = {c1, c2}
  f1 = f1
  Files = {f1}
  WriteRanges <- Straddling
  ReadRanges = {}
  NoClient = NoClient
  NoRequest = NoRequest
  NoFile = NoFile
  NumServers = 2
  Bytes <- BytesOfStraddling
  Hole = Hole
  Missing = Missing
  BlockSize = 2
  Modes = {2}
  Offsets = {}
  Closed = Closed
  Mortals = {}
  MayFail = FALSE
  PingMayFail = FALSE
  MaxBirths = 2
  MaxLate = 0
  MaxStubs = 2
SYMMETRY Symmetry
SPECIFICATION PFSSpec
INVARIANTS PFSTypeOK PFSInv DataInv AnswerExpected WritersExcludeUntilContested Durable
PROPERTIES NoWriterAtDeleteTest DeletedIsGone KeepsTokenProtocol
CHECK_DEADLOCK FALSE
